-------------------------------- MODULE AnalysisProofs --------------------------------
EXTENDS Analysis, ListProofs, TLAPS

-----------------------------------------------------------------------------
(* The dictionaries of an item: their keys. *)
LEMMA PairKeys == ASSUME NEW d, NEW v PROVE \A k : k \in DOMAIN (d :> v) <=> k = d
  BY DEF :>

LEMMA PairIs == ASSUME NEW k, NEW v PROVE (k :> v)[k] = v
  BY DEF :>

LEMMA OptKeys == ASSUME NEW d, NEW v PROVE \A k : /\ k \in DOMAIN Opt(d, v) => k = d
                                                  /\ k \in DOMAIN OptNum(d, v) => k = d /\ v # NoAddr
  BY DEF :>, Opt, OptNum, Dict

LEMMA OptIs == ASSUME NEW d, NEW v PROVE /\ d \in DOMAIN Opt(d, v) => Opt(d, v)[d] = v
                                         /\ d \in DOMAIN OptNum(d, v) => OptNum(d, v)[d] = v
  BY DEF :>, Opt, OptNum, Dict

LEMMA DictKeys == \A k : k \notin DOMAIN Dict
  BY DEF Dict

LEMMA JoinKeys == ASSUME NEW d, NEW e PROVE \A k : k \in DOMAIN (d @@ e) <=> k \in DOMAIN d \/ k \in DOMAIN e
<1>1. d @@ e = Merged(d, e)
  BY DEF @@
<1> QED BY <1>1 DEF Merged

LEMMA JoinIs == ASSUME NEW d, NEW e PROVE /\ \A k \in DOMAIN d : (d @@ e)[k] = d[k]
                                          /\ \A k \in DOMAIN e : k \notin DOMAIN d => (d @@ e)[k] = e[k]
<1>1. d @@ e = Merged(d, e)
  BY DEF @@
<1> QED BY <1>1 DEF Merged

(* The details of most items name neither of these. *)
Plain(d) == "address_correlations" \notin DOMAIN d /\ "library_artifact" \notin DOMAIN d

LEMMA PlainDict == Plain(Dict)
  BY DEF Plain, Dict

LEMMA PlainPair == ASSUME NEW k, NEW v, k # "address_correlations", k # "library_artifact"
                   PROVE  Plain(k :> v) /\ Plain(Opt(k, v))
  BY PairKeys, OptKeys DEF Plain

LEMMA PlainJoin == ASSUME NEW d, NEW e, Plain(d), Plain(e) PROVE Plain(d @@ e)
  BY JoinKeys DEF Plain

-----------------------------------------------------------------------------
(* What is true of every item an analyzer or a normalizer makes: of its
   lanes L, and, of those that name the pid of a process that started, of
   the pids P. *)
Shaped(it) ==
    it = [lane |-> it.lane, tool |-> it.tool, artifact |-> it.artifact, operation |-> it.operation,
          subject |-> it.subject, object |-> it.object, details |-> it.details,
          conf |-> it.conf, at |-> it.at, t |-> it.t]

(* A benign toolchain reference attributes nothing. *)
Benign(it) ==
    /\ it.lane = "static" /\ it.tool = "common" /\ it.artifact = "string" /\ it.operation = "read"
    /\ DOMAIN it.object \subseteq {"library_artifact", "kind"} /\ DOMAIN it.details = {"library_artifact"}

Starts(it) == it.artifact = "process" /\ it.operation = "spawn" /\ "pid" \in DOMAIN it.object

Sized(at) == "size" \in DOMAIN at => at["size"] \in Nat

(* A confidence, in hundredths. *)
Rated(n) == n \in 0..100

LEMMA Ratings ==
    /\ Rated(0) /\ Rated(25) /\ Rated(30) /\ Rated(35) /\ Rated(40) /\ Rated(45) /\ Rated(50) /\ Rated(55) /\ Rated(60) /\ Rated(65)
    /\ Rated(70) /\ Rated(75) /\ Rated(80) /\ Rated(82) /\ Rated(85) /\ Rated(86) /\ Rated(90) /\ Rated(95)
  BY DEF Rated

Sound(it, L, P) ==
    /\ Shaped(it) /\ it.lane \in L /\ Rated(it.conf)
    /\ it.t # NoTime => Runtime(it)
    /\ "address_correlations" \notin DOMAIN it.details
    /\ "library_artifact" \in DOMAIN it.details => Benign(it)
    /\ it.lane = "static" => Sized(it.at)
    /\ Runtime(it) => /\ "status" \notin DOMAIN it.object
                      /\ Starts(it) => Hidden(it) \/ it.object["pid"] \in P

AllSound(s, L, P) == IsList(s) /\ \A i \in DOMAIN s : Sound(s[i], L, P)

LEMMA StaticSound ==
    ASSUME NEW tool, NEW artifact, NEW operation, NEW object, NEW details, Plain(details), NEW conf, Rated(conf)
    PROVE  /\ Sound(Static(tool, artifact, operation, object, details, conf), {"static"}, {})
           /\ Sound(EvidenceItem("static", tool, artifact, operation, object, details, conf), {"static"}, {})
<1>1. "size" \notin DOMAIN Dict
  BY DEF Dict
<1>2. PICK it : it = EvidenceItem("static", tool, artifact, operation, object, details, conf)
  OBVIOUS
<1>3. PICK by : by = Static(tool, artifact, operation, object, details, conf)
  OBVIOUS
<1>4. Sound(it, {"static"}, {})
  BY <1>1, <1>2 DEF EvidenceItem, Sound, Shaped, Plain, Runtime, Sized
<1>5. Sound(by, {"static"}, {})
  BY <1>1, <1>3 DEF Static, By, EvidenceItem, Sound, Shaped, Plain, Runtime, Sized
<1> QED BY <1>2, <1>3, <1>4, <1>5

LEMMA LocatedSound ==
    ASSUME NEW it, NEW L, NEW P, Sound(it, L, P), NEW at, Sized(at) \/ it.lane # "static"
    PROVE  Sound(Located(it, at), L, P)
<1>1. PICK x : x = Located(it, at)
  OBVIOUS
<1>2. /\ x.lane = it.lane /\ x.tool = it.tool /\ x.artifact = it.artifact /\ x.operation = it.operation
      /\ x.subject = it.subject /\ x.object = it.object /\ x.details = it.details /\ x.conf = it.conf
      /\ x.at = at /\ x.t = it.t /\ Shaped(x)
  BY <1>1 DEF Located, Sound, Shaped
<1>3. Sound(x, L, P)
  BY <1>2 DEF Sound, Runtime, Benign, Starts, Hidden, Has
<1> QED BY <1>1, <1>3

LEMMA BySound ==
    ASSUME NEW it, NEW L, NEW P, Sound(it, L, P), NEW subject
    PROVE  Sound(By(it, subject), L, P)
<1>1. PICK x : x = By(it, subject)
  OBVIOUS
<1>2. /\ x.lane = it.lane /\ x.tool = it.tool /\ x.artifact = it.artifact /\ x.operation = it.operation
      /\ x.subject = subject /\ x.object = it.object /\ x.details = it.details /\ x.conf = it.conf
      /\ x.at = it.at /\ x.t = it.t /\ Shaped(x)
  BY <1>1 DEF By, Sound, Shaped
<1>3. Sound(x, L, P)
  BY <1>2 DEF Sound, Runtime, Benign, Starts, Hidden, Has
<1> QED BY <1>1, <1>3

LEMMA WhenSound ==
    ASSUME NEW it, NEW L, NEW P, Sound(it, L, P), Runtime(it), NEW t
    PROVE  Sound(When(it, t), L, P)
<1>1. PICK x : x = When(it, t)
  OBVIOUS
<1>2. /\ x.lane = it.lane /\ x.tool = it.tool /\ x.artifact = it.artifact /\ x.operation = it.operation
      /\ x.subject = it.subject /\ x.object = it.object /\ x.details = it.details /\ x.conf = it.conf
      /\ x.at = it.at /\ x.t = t /\ Shaped(x)
  BY <1>1 DEF When, Sound, Shaped
<1>3. Sound(x, L, P)
  BY <1>2 DEF Sound, Runtime, Benign, Starts, Hidden, Has
<1> QED BY <1>1, <1>3

-----------------------------------------------------------------------------
(* Lists of them. *)
LEMMA SoundEmpty == ASSUME NEW L, NEW P PROVE AllSound(<<>>, L, P)
<1>1. DOMAIN <<>> = {}
  OBVIOUS
<1> QED BY <1>1, ListEmpty DEF AllSound

LEMMA SoundIf == ASSUME NEW L, NEW P, NEW c, NEW it, c => Sound(it, L, P)
                 PROVE  AllSound(If(c, it), L, P) /\ (Sound(it, L, P) => AllSound(<<it>>, L, P))
<1>1. ASSUME Sound(it, L, P) PROVE AllSound(<<it>>, L, P)
  <2>1. DOMAIN <<it>> = {1} /\ <<it>>[1] = it
    OBVIOUS
  <2> QED BY <1>1, <2>1, ListOne DEF AllSound
<1>2. CASE c
  BY <1>1, <1>2 DEF If
<1>3. CASE ~c
  BY <1>1, <1>3, SoundEmpty DEF If
<1> QED BY <1>1, <1>2, <1>3

LEMMA SoundConcat == ASSUME NEW L, NEW P, NEW s, NEW r, AllSound(s, L, P), AllSound(r, L, P)
                     PROVE  AllSound(s \o r, L, P)
<1>1. PICK q : q = s \o r
  OBVIOUS
<1>2. IsList(q) /\ Range(q) = Range(s) \union Range(r)
  BY <1>1, ListConcat DEF AllSound
<1>3. ASSUME NEW i \in DOMAIN q PROVE Sound(q[i], L, P)
  <2>1. q[i] \in Range(s) \/ q[i] \in Range(r)
    BY <1>2, ListHas
  <2>2. (\E j \in DOMAIN s : s[j] = q[i]) \/ (\E j \in DOMAIN r : r[j] = q[i])
    BY <2>1, ListHas DEF AllSound
  <2> QED BY <2>2 DEF AllSound
<1> QED BY <1>1, <1>2, <1>3 DEF AllSound

LEMMA SoundMap == ASSUME NEW L, NEW P, NEW s, IsList(s), NEW f, f = [i \in DOMAIN s |-> f[i]],
                         \A i \in DOMAIN s : Sound(f[i], L, P)
                  PROVE  AllSound(f, L, P) /\ AllSound(KeptSeq(f), L, P)
  BY ListMap DEF AllSound

(* A list of lists. *)
AllLists(ss, L, P) == IsList(ss) /\ \A i \in DOMAIN ss : AllSound(ss[i], L, P)

LEMMA ListsMap == ASSUME NEW L, NEW P, NEW s, IsList(s), NEW f, f = [i \in DOMAIN s |-> f[i]],
                         \A i \in DOMAIN s : AllSound(f[i], L, P)
                  PROVE  AllLists(f, L, P) /\ AllLists(KeptSeq(f), L, P)
  BY ListMap DEF AllLists

LEMMA SoundFlat == ASSUME NEW L, NEW P, NEW ss, AllLists(ss, L, P)
                   PROVE  AllSound(Flatten(ss), L, P)
<1>1. PICK q : q = Flatten(ss)
  OBVIOUS
<1>2. IsList(q) /\ Range(q) = UNION {Range(ss[i]) : i \in DOMAIN ss}
  BY <1>1, ListFlatten DEF AllLists, AllSound
<1>3. ASSUME NEW i \in DOMAIN q PROVE Sound(q[i], L, P)
  <2>1. PICK j \in DOMAIN ss : q[i] \in Range(ss[j])
    BY <1>2, ListHas
  <2>2. PICK r : r = ss[j] /\ AllSound(r, L, P)
    BY DEF AllLists
  <2>3. PICK k \in DOMAIN r : r[k] = q[i]
    BY <2>1, <2>2, ListHas DEF AllSound
  <2> QED BY <2>2, <2>3 DEF AllSound
<1> QED BY <1>1, <1>2, <1>3 DEF AllSound

LEMMA FilterIs == ASSUME NEW s, IsList(s), NEW I PROVE IsList(Picked(s, I)) /\ Range(Picked(s, I)) \subseteq Range(s)
<1>1. ASSUME NEW x \in Range(Picked(s, I)) PROVE x \in Range(s)
  <2>1. PICK i \in I \cap DOMAIN s : x = s[i]
    BY ListPicked
  <2> QED BY <2>1, ListHas
<1> QED BY <1>1, ListPicked

LEMMA FlatMap == ASSUME NEW s, IsList(s), NEW f, f = [i \in DOMAIN s |-> f[i]], \A i \in DOMAIN s : IsList(f[i])
                 PROVE  IsList(Flatten(f)) /\ IsList(Flatten(KeptSeq(f)))
  BY ListMap, ListFlatten

-----------------------------------------------------------------------------
(* The static analyzers: what each finds is a list of items of the static  *)
(* lane.                                                                   *)
StaticItem(it) == Sound(it, {"static"}, {})
StaticItems(s) == AllSound(s, {"static"}, {})

LEMMA FinitePair == ASSUME NEW k, NEW v PROVE IsFiniteSet(DOMAIN (k :> v))
<1>1. DOMAIN (k :> v) = {k}
  BY PairKeys
<1> QED BY <1>1, FS_Singleton

LEMMA FiniteJoin == ASSUME NEW d, NEW e, IsFiniteSet(DOMAIN d), IsFiniteSet(DOMAIN e)
                    PROVE  IsFiniteSet(DOMAIN (d @@ e))
<1>1. DOMAIN (d @@ e) = DOMAIN d \union DOMAIN e
  BY JoinKeys
<1> QED BY <1>1, FS_Union

LEMMA MeetList == ASSUME NEW S, NEW d, IsFiniteSet(DOMAIN d) 
                  PROVE  /\ IsList(ListOf(S \intersect DOMAIN d))
                         /\ \A i \in DOMAIN ListOf(S \intersect DOMAIN d) : ListOf(S \intersect DOMAIN d)[i] \in DOMAIN d
<1>1. IsFiniteSet(S \intersect DOMAIN d)
  BY FS_Intersection
<1>2. PICK r : r = ListOf(S \intersect DOMAIN d) /\ IsList(r) /\ Range(r) = S \intersect DOMAIN d
  BY <1>1, ListOfIs
<1>3. \A i \in DOMAIN r : r[i] \in DOMAIN d
  BY <1>2, ListHas
<1> QED BY <1>2, <1>3

LEMMA ExtractList == ASSUME NEW text, IsList(text), NEW category PROVE IsList(ExtractIocs(text, category))
<1>0. IocKinds \in Seq({"url", "domain", "ipv4", "email", "md5", "sha256"})
  BY DEF IocKinds
<1>1. IsList(IocKinds)
  BY <1>0, ListIs
<1>2. ASSUME NEW I PROVE IsList(Picked(text, I))
  BY ListPicked
<1> QED
  BY <1>1, <1>2, FlatMap DEF ExtractIocs, Filter, MapSeq

(* Of the kinds of indicators that are extracted. *)
LEMMA ExtractKinds == ASSUME NEW text, IsList(text), NEW category, NEW m \in Range(ExtractIocs(text, category))
                      PROVE  m.kind \in DOMAIN IocConf
<1>1. IocKinds \in Seq(DOMAIN IocConf)
  BY DEF IocKinds, IocConf
<1>2. PICK kinds : kinds = IocKinds /\ IsList(kinds) /\ \A i \in DOMAIN kinds : kinds[i] \in DOMAIN IocConf
  BY <1>1, ListIs
<1>3. PICK f : f = [i \in DOMAIN kinds |-> Filter(text, LAMBDA n : n.kind = kinds[i] /\ Category(n, text) = category)]
  OBVIOUS
<1>4. ASSUME NEW i \in DOMAIN kinds PROVE IsList(f[i]) /\ \A n \in Range(f[i]) : n.kind = kinds[i]
  <2>1. PICK I : /\ I = {j \in DOMAIN text : text[j].kind = kinds[i] /\ Category(text[j], text) = category}
                 /\ f[i] = Picked(text, I)
    BY <1>3 DEF Filter
  <2>2. IsList(f[i]) /\ Range(f[i]) = {text[j] : j \in I \cap DOMAIN text}
    BY <2>1, ListPicked
  <2> QED BY <2>1, <2>2
<1>5. IsList(f) /\ KeptSeq(f) = f /\ DOMAIN f = DOMAIN kinds
  BY <1>2, <1>3, ListMap
<1>6. Range(Flatten(f)) = UNION {Range(f[i]) : i \in DOMAIN f}
  BY <1>4, <1>5, ListFlatten
<1>7. ExtractIocs(text, category) = Flatten(f)
  BY <1>2, <1>3, <1>5 DEF ExtractIocs, MapSeq
<1> QED BY <1>2, <1>4, <1>5, <1>6, <1>7

LEMMA IocRates == /\ \A k \in DOMAIN IocConf : IocConf[k] \in {40, 45, 50, 60, 70}
                  /\ \A k \in DOMAIN IocConf : Rated(IocConf[k])
  BY DEF IocConf, Rated

(* What the tables of the analyzers give. *)
Within(d, V) == \A k \in DOMAIN d : d[k] \in V

LEMMA WithinPair == ASSUME NEW V, NEW v \in V, NEW k PROVE Within(k :> v, V)
  BY PairIs, PairKeys DEF Within

LEMMA WithinJoin == ASSUME NEW V, NEW d, NEW e, Within(d, V), Within(e, V) PROVE Within(d @@ e, V)
  BY JoinIs, JoinKeys DEF Within

(* A table of pairs, a confidence second in each. *)
Graded(d) == \A k \in DOMAIN d : Rated(d[k][2])

LEMMA GradedPair == ASSUME NEW k, NEW hint, NEW conf, Rated(conf) PROVE Graded(k :> <<hint, conf>>)
  BY PairIs, PairKeys DEF Graded

LEMMA GradedJoin == ASSUME NEW d, NEW e, Graded(d), Graded(e) PROVE Graded(d @@ e)
  BY JoinIs, JoinKeys DEF Graded

LEMMA GradedSuspect == ASSUME NEW hint, NEW conf, Rated(conf), NEW apis PROVE Graded(Suspect(hint, conf, apis))
  BY DEF Suspect, Graded

LEMMA ImportRates == \A a \in DOMAIN SuspectImports : Rated(SuspectImports[a][2])
<1> DEFINE a == Suspect("T1055", 60, {"virtualallocex"}) @@ Suspect("T1055", 70, {"writeprocessmemory"})
                @@ Suspect("T1055", 75, {"createremotethread"}) @@ Suspect("T1055.004", 60, {"queueuserapc"})
                @@ Suspect("T1055.012", 70, {"ntunmapviewofsection"}) @@ Suspect("T1055.012", 55, {"setthreadcontext"})
           b == a @@ Suspect("T1056.001", 50, {"setwindowshookex"}) @@ Suspect("T1056.001", 45, {"getasynckeystate"})
                @@ Suspect("T1113", 40, {"bitblt"}) @@ Suspect("T1112", 30, {"regcreatekey"})
                @@ Suspect("T1547.001", 40, {"regsetvalueex"}) @@ Suspect("T1547.001", 30, {"shgetfolderpath"})
           d == b @@ Suspect("T1543.003", 55, {"createservice"}) @@ Suspect("T1543.003", 40, {"openscmanager"})
                @@ Suspect("T1071.001", 40, {"internetopen", "winhttpopen"}) @@ Suspect("T1071.001", 45, {"internetopenurl"})
                @@ Suspect("T1105", 60, {"urldownloadtofile"}) @@ Suspect("T1095", 35, {"wsastartup"})
           e == d @@ Suspect("T1071", 35, {"connect"}) @@ Suspect("T1082", 35, {"getcomputername", "getsysteminfo"})
                @@ Suspect("T1057", 45, {"process32first"}) @@ Suspect("T1016", 40, {"getadaptersinfo"})
                @@ Suspect("T1087", 45, {"netuserenum"}) @@ Suspect("T1622", 45, {"isdebuggerpresent"})
           f == e @@ Suspect("T1622", 50, {"checkremotedebuggerpresent"}) @@ Suspect("T1497", 25, {"gettickcount"})
                @@ Suspect("T1027", 35, {"virtualprotect"}) @@ Suspect("T1003", 60, {"lsaretrieveprivatedata"})
                @@ Suspect("T1555", 50, {"credenumerate"}) @@ Suspect("T1059", 50, {"winexec", "shellexecute"})
<1>0. SuspectImports = (f @@ Suspect("T1059", 40, {"createprocess"}))
  BY Zenon DEF SuspectImports
<1>2. Graded(a)
  BY Ratings, GradedSuspect, GradedJoin
<1> HIDE DEF a
<1>3. Graded(b)
  BY <1>2, Ratings, GradedSuspect, GradedJoin
<1> HIDE DEF b
<1>4. Graded(d)
  BY <1>3, Ratings, GradedSuspect, GradedJoin
<1> HIDE DEF d
<1>5. Graded(e)
  BY <1>4, Ratings, GradedSuspect, GradedJoin
<1> HIDE DEF e
<1>6. Graded(f)
  BY <1>5, Ratings, GradedSuspect, GradedJoin
<1> HIDE DEF f
<1>1. Graded(SuspectImports)
  BY <1>0, <1>6, Ratings, GradedSuspect, GradedJoin
<1> QED BY <1>1 DEF Graded

LEMMA SymbolRates == \A s \in DOMAIN SuspectSymbols : Rated(SuspectSymbols[s][2])
<1> DEFINE a == "ptrace" :> <<"T1622", 60>> @@ "fork" :> <<"T1059", 30>> @@ "execve" :> <<"T1059.004", 50>>
                @@ "system" :> <<"T1059.004", 60>>
<1>1. SuspectSymbols = (a @@ "socket" :> <<"T1071", 35>> @@ "connect" :> <<"T1071", 40>>
                          @@ "inotify_add_watch" :> <<"T1083", 30>> @@ "setuid" :> <<"T1548", 40>>)
  BY Zenon DEF SuspectSymbols
<1>3. Graded(a)
  BY Ratings, GradedPair, GradedJoin
<1> HIDE DEF a
<1>4. Graded(SuspectSymbols)
  BY <1>1, <1>3, Ratings, GradedPair, GradedJoin
<1> QED BY <1>4 DEF Graded

LEMMA IocSound == ASSUME NEW tool, NEW m, NEW more, Plain(more), NEW conf, Rated(conf)
                  PROVE  StaticItem(IocItem(tool, m, more, conf))
  BY StaticSound, Ratings, PlainPair, PlainJoin DEF IocItem, StaticItem

LEMMA RansomSound == ASSUME NEW tool, NEW needles, NEW more, Plain(more), NEW conf, Rated(conf)
                     PROVE  StaticItems(RansomItem(tool, needles, more, conf))
  BY StaticSound, Ratings, SoundIf DEF RansomItem, StaticItems

(* A reference to a library is the one kind of item that says so. *)
LEMMA LibrarySound == ASSUME NEW m
    PROVE  StaticItem(Static("common", "string", "read", "library_artifact" :> m.value @@ "kind" :> m.kind,
                             "library_artifact" :> "yes", 25))
<1>1. PICK object, details : /\ object = ("library_artifact" :> m.value @@ "kind" :> m.kind)
                             /\ details = ("library_artifact" :> "yes")
  OBVIOUS
<1>2. DOMAIN object \subseteq {"library_artifact", "kind"} /\ DOMAIN details = {"library_artifact"}
  <2>1. \A k : k \in DOMAIN object => k = "library_artifact" \/ k = "kind"
    BY <1>1, PairKeys, JoinKeys
  <2>2. \A k : k \in DOMAIN details <=> k = "library_artifact"
    BY <1>1, PairKeys
  <2> QED BY <2>1, <2>2
<1>3. PICK it : it = Static("common", "string", "read", object, details, 25)
  OBVIOUS
<1>4. Sound(it, {"static"}, {})
  BY <1>2, <1>3, Ratings DEF Static, By, EvidenceItem, Sound, Shaped, Runtime, Sized, Dict, Benign
<1> QED BY <1>1, <1>3, <1>4 DEF StaticItem

LEMMA CommonSound == ASSUME NEW c, IsContent(c) PROVE StaticItems(CommonItems(c))
<1> DEFINE cats == RansomCategories(c.needles)
           recovery == {n \in c.needles : n[1] = "recovery_inhibit"}
           Capped(n) == IF n > 95 THEN 95 ELSE n
           file == <<Static("common", "file", "read", "name" :> c.name, Opt("high_entropy", IF c.packed THEN "yes" ELSE "None"),
                            IF c.packed THEN 60 ELSE 40)>>
           iocs == MapSeq(LAMBDA m : IocItem("common", m, Dict, IocConf[m.kind]), ExtractIocs(c.mentions, "ioc"))
           library == MapSeq(LAMBDA m : Static("common", "string", "read", "library_artifact" :> m.value @@ "kind" :> m.kind,
                                               "library_artifact" :> "yes", 25), ExtractIocs(c.mentions, "library"))
           inhibit == IF recovery = {} THEN <<>>
                      ELSE <<Static("common", "process", "exec", "capability" :> "inhibit_recovery"
                                    @@ "indicators" :> Indicator(recovery), Dict, 80)>>
           ransom == RansomItem("common", c.needles, Dict, Capped(IF "family" \in cats THEN 78 + 5 * Cardinality(cats)
                                                                  ELSE 45 + 16 * Cardinality(cats)))
           rules == MapSeq(LAMBDA r : Static("common", "string", "read", "yara_rule" :> r, Dict, YaraConf[r]), c.yara)
<1>1. CommonItems(c) = file \o iocs \o library \o inhibit \o ransom \o rules
  BY Zenon DEF CommonItems
<1>2. IsList(c.yara) /\ IsList(ExtractIocs(c.mentions, "ioc")) /\ IsList(ExtractIocs(c.mentions, "library"))
  BY ExtractList DEF IsContent
<1>3. ASSUME NEW artifact, NEW operation, NEW object, NEW conf, Rated(conf)
      PROVE  Sound(Static("common", artifact, operation, object, Dict, conf), {"static"}, {})
  BY <1>3, StaticSound, Ratings, PlainDict
<1>4. AllSound(file, {"static"}, {})
  <2>1. ASSUME NEW v, NEW conf, Rated(conf)
        PROVE  Sound(Static("common", "file", "read", "name" :> c.name, Opt("high_entropy", v), conf), {"static"}, {})
    BY <2>1, StaticSound, PlainPair
  <2> QED BY <2>1, SoundIf, Ratings
<1>5. AllSound(iocs, {"static"}, {})
  <2>1. PICK those : those = ExtractIocs(c.mentions, "ioc") /\ IsList(those)
    BY <1>2
  <2>2. ASSUME NEW i \in DOMAIN those PROVE Sound(IocItem("common", those[i], Dict, IocConf[those[i].kind]), {"static"}, {})
    <3>1. those[i].kind \in DOMAIN IocConf
      BY <2>1, ListHas, ExtractKinds DEF IsContent
    <3> QED BY <3>1, IocRates, IocSound, PlainDict DEF StaticItem
  <2> QED BY <2>1, <2>2, SoundMap DEF MapSeq
<1>6. AllSound(library, {"static"}, {})
  BY <1>2, LibrarySound, SoundMap DEF MapSeq, StaticItem
<1>7. AllSound(inhibit, {"static"}, {})
  BY <1>3, SoundEmpty, SoundIf, Ratings
<1>8. AllSound(ransom, {"static"}, {})
  <2>1. Cardinality(cats) \in Nat
    <3>1. PICK these : these = ListOf(c.needles) /\ IsList(these) /\ Range(these) = c.needles
      BY ListOfIs DEF IsContent
    <3>2. PICK of : of = [i \in DOMAIN these |-> these[i][1]]
      OBVIOUS
    <3>3. IsFiniteSet(Range(of))
      <4>1. IsList(of)
        BY <3>1, <3>2, ListMap
      <4> QED BY <4>1, ListFinite
    <3>4. cats \subseteq Range(of)
      <4>1. \A n \in c.needles : \E i \in DOMAIN these : n = these[i]
        BY <3>1, ListHas
      <4> QED BY <3>2, <4>1 DEF RansomCategories, Range
    <3> QED BY <3>3, <3>4, FS_Subset, FS_CardinalityType
  <2>2. PICK n \in Nat : n = Cardinality(cats)
    BY <2>1
  <2> HIDE DEF cats
  <2>3. Rated(Capped(IF "family" \in cats THEN 78 + 5 * Cardinality(cats) ELSE 45 + 16 * Cardinality(cats)))
    BY <2>2 DEF Rated
  <2> HIDE DEF Capped
  <2> QED BY <2>3, RansomSound, PlainDict DEF StaticItems
<1>9. AllSound(rules, {"static"}, {})
  <2>1. ASSUME NEW i \in DOMAIN c.yara PROVE Rated(YaraConf[c.yara[i]])
    <3>1. c.yara[i] \in DOMAIN YaraConf
      BY <1>2, ListHas DEF IsContent
    <3>2. \A r \in DOMAIN YaraConf : Rated(YaraConf[r])
      BY DEF YaraConf, Rated
    <3> QED BY <3>1, <3>2
  <2> QED BY <1>2, <1>3, <2>1, SoundMap DEF MapSeq
<1> HIDE DEF file, iocs, library, inhibit, ransom, rules
<1> QED BY <1>1, <1>4, <1>5, <1>6, <1>7, <1>8, <1>9, SoundConcat DEF StaticItems

LEMMA FingerprintSound == ASSUME NEW c PROVE StaticItems(FingerprintItems(c))
  BY SoundIf, StaticSound, Ratings, PlainDict DEF FingerprintItems, StaticItems

LEMMA HiddenSound == ASSUME NEW tool, NEW layer, IsList(layer.mentions), NEW from
                     PROVE  StaticItems(HiddenItems(tool, layer, from))
<1>1. IsList(ExtractIocs(layer.mentions, "ioc"))
  BY ExtractList
<1>2. Plain("decoded_from" :> from)
  BY PlainPair
<1>3. ASSUME NEW m, NEW conf, Rated(conf) PROVE Sound(IocItem(tool, m, "decoded_from" :> from, conf), {"static"}, {})
  BY <1>2, <1>3, IocSound DEF StaticItem
<1>4. AllSound(RansomItem(tool, layer.needles, "decoded_from" :> from, 85), {"static"}, {})
  BY <1>2, RansomSound, Ratings DEF StaticItems
<1> DEFINE Bumped(k) == IF IocConf[k] + 20 > 95 THEN 95 ELSE IocConf[k] + 20
           those == ExtractIocs(layer.mentions, "ioc")
<1>5. ASSUME NEW i \in DOMAIN those PROVE Rated(Bumped(those[i].kind))
  <2>1. PICK n \in {40, 45, 50, 60, 70} : n = IocConf[those[i].kind]
    BY <1>1, ListHas, ExtractKinds, IocRates
  <2> QED BY <2>1 DEF Rated
<1>6. HiddenItems(tool, layer, from) = MapSeq(LAMBDA m : IocItem(tool, m, "decoded_from" :> from, Bumped(m.kind)), those)
                                         \o RansomItem(tool, layer.needles, "decoded_from" :> from, 85)
  BY Zenon DEF HiddenItems
<1> HIDE DEF Bumped, those
<1>7. AllSound(MapSeq(LAMBDA m : IocItem(tool, m, "decoded_from" :> from, Bumped(m.kind)), those), {"static"}, {})
  <2>1. IsList(those)
    BY <1>1 DEF those
  <2> QED BY <1>3, <1>5, <2>1, SoundMap DEF MapSeq
<1> QED BY <1>4, <1>6, <1>7, SoundConcat DEF StaticItems, MapSeq

LEMMA DecodeSound == ASSUME NEW c, IsContent(c) PROVE StaticItems(DecodeItems(c))
<1>1. IsList(c.encoded) /\ \A e \in Range(c.encoded) : IsList(e.mentions)
  BY DEF IsContent
<1>2. <<"base64", "hex", "xor">> \in Seq({"base64", "hex", "xor"})
  OBVIOUS
<1>3. PICK codes : codes = <<"base64", "hex", "xor">> /\ IsList(codes)
  BY <1>2, ListIs
<1>4. PICK f : f = [i \in DOMAIN codes |-> Filter(c.encoded, LAMBDA e : e.encoding = codes[i])]
  OBVIOUS
<1>5. \A i \in DOMAIN codes : IsList(f[i]) /\ Range(f[i]) \subseteq Range(c.encoded)
  BY <1>1, <1>4, FilterIs DEF Filter
<1>6. PICK found : found = Flatten(KeptSeq(f)) /\ IsList(found)
  BY <1>3, <1>4, <1>5, FlatMap
<1>7. Range(found) = UNION {Range(f[i]) : i \in DOMAIN codes}
  <2>1. IsList(f) /\ KeptSeq(f) = f /\ DOMAIN f = DOMAIN codes
    BY <1>3, <1>4, ListMap
  <2>2. Range(Flatten(f)) = UNION {Range(f[i]) : i \in DOMAIN f}
    BY <1>5, <2>1, ListFlatten
  <2> QED BY <1>6, <2>1, <2>2
<1>8. ASSUME NEW i \in DOMAIN found PROVE AllSound(DecodedItems(found[i]), {"static"}, {})
  <2>1. IsList(found[i].mentions)
    BY <1>1, <1>5, <1>6, <1>7, ListHas
  <2> QED BY <2>1, HiddenSound, SoundIf, SoundConcat, StaticSound, Ratings, PlainPair, PlainJoin DEF DecodedItems, StaticItems
<1>9. DecodeItems(c) = Flatten(MapSeq(DecodedItems, found))
  BY <1>3, <1>4, <1>6 DEF DecodeItems, MapSeq
<1> QED BY <1>6, <1>8, <1>9, ListsMap, SoundFlat DEF StaticItems, MapSeq

LEMMA UnpackSound == ASSUME NEW c, IsContent(c) PROVE StaticItems(UnpackItems(c))
<1>1. IsList(c.recovered) /\ \A r \in Range(c.recovered) : IsList(r.mentions)
  BY DEF IsContent
<1>2. ASSUME NEW tool, NEW layer, NEW function, NEW details, Plain(details), NEW conf, Rated(conf)
      PROVE  AllSound(<<Image(tool, layer, function, details, conf)>>, {"static"}, {})
  BY <1>2, StaticSound, Ratings, SoundIf DEF Image
<1>3. ASSUME NEW i \in DOMAIN c.recovered, NEW sure \in {65, 95}
      PROVE  AllSound(RecoveredItems(c.recovered[i], sure), {"static"}, {})
  <2>1. PICK r : r = c.recovered[i] /\ IsList(r.mentions)
    BY <1>1, ListHas
  <2>2. ASSUME NEW conf, Rated(conf) PROVE AllSound(<<Image("unpack.emulated", "1", "unpacked image (emulated)",
                                "attack_hint" :> "T1140" @@ Opt("decoded_preview", r.preview), conf)>>, {"static"}, {})
    <3>1. PICK details : details = ("attack_hint" :> "T1140" @@ Opt("decoded_preview", r.preview)) /\ Plain(details)
      BY PlainPair, PlainJoin
    <3> QED BY <1>2, <2>2, <3>1
  <2>3. AllSound(HiddenItems("unpack.emulated", r, "emulated_unpack"), {"static"}, {})
    BY <2>1, HiddenSound DEF StaticItems
  <2> DEFINE less == IF (sure * 9) \div 10 > 90 THEN 90 ELSE (sure * 9) \div 10
  <2>4. Rated(less)
    BY DEF Rated
  <2>5. RecoveredItems(r, sure) = <<Image("unpack.emulated", "1", "unpacked image (emulated)",
                                          "attack_hint" :> "T1140" @@ Opt("decoded_preview", r.preview), less)>>
                                  \o HiddenItems("unpack.emulated", r, "emulated_unpack")
    BY Zenon DEF RecoveredItems
  <2> HIDE DEF less
  <2> QED BY <2>1, <2>2, <2>3, <2>4, <2>5, SoundConcat
<1>4. ASSUME NEW sure \in {65, 95} PROVE AllSound(Flatten(MapSeq(LAMBDA r : RecoveredItems(r, sure), c.recovered)), {"static"}, {})
  BY <1>1, <1>3, ListsMap, SoundFlat DEF MapSeq
<1>5. PICK sure, hint, pending : /\ sure = (IF c.packer = "high entropy" THEN 65 ELSE 95)
             /\ hint = ("attack_hint" :> "T1027" @@ "decoded_preview" :> "packed/encrypted")
             /\ pending = ("status" :> "requires_emulation" @@ "decoded_preview" :> "requires_emulation")
  OBVIOUS
<1>6. Plain(hint) /\ Plain(pending)
  BY <1>5, PlainPair, PlainJoin
<1>7. CASE c.packer = "None"
  BY <1>7, SoundEmpty DEF UnpackItems, StaticItems
<1>8. CASE c.packer # "None"
  <2>1. UnpackItems(c) = <<Image("unpack", "0", c.packer, hint, sure)>>
             \o (IF c.headers /\ c.recovered # <<>> THEN Flatten(MapSeq(LAMBDA r : RecoveredItems(r, sure), c.recovered))
                 ELSE <<Image("unpack", "1", "unpacked image", pending, (sure * 7) \div 10)>>)
    BY <1>5, <1>8 DEF UnpackItems, MapSeq
  <2>2. sure \in {65, 95} /\ Rated(sure) /\ Rated((sure * 7) \div 10)
    <3>1. PICK n \in {65, 95} : n = sure
      BY <1>5
    <3>2. n \in 0..100 /\ (n * 7) \div 10 \in 0..100
      OBVIOUS
    <3> QED BY <3>1, <3>2 DEF Rated
  <2>3. AllSound(<<Image("unpack", "0", c.packer, hint, sure)>>, {"static"}, {})
    BY <1>2, <1>6, <2>2
  <2>4. AllSound(<<Image("unpack", "1", "unpacked image", pending, (sure * 7) \div 10)>>, {"static"}, {})
    BY <1>2, <1>6, <2>2
  <2>5. AllSound(Flatten(MapSeq(LAMBDA r : RecoveredItems(r, sure), c.recovered)), {"static"}, {})
    BY <1>4, <2>2
  <2> QED BY <2>1, <2>3, <2>4, <2>5, SoundConcat DEF StaticItems, MapSeq
<1> QED BY <1>7, <1>8

LEMMA PeSound == ASSUME NEW c, IsContent(c) PROVE StaticItems(PeItems(c))
<1> DEFINE format == <<Static("pe", "module", "read", "format" :> "PE" @@ "name" :> c.name, Dict, 80)>>
           imphash == If(c.imports # <<>>, Static("pe", "module", "read", "imphash" :> "imphash", Dict, 60))
           dotnet == If(c.dotnet, Static("pe", "module", "read", "runtime" :> ".NET/CLR", Dict, 70))
           packed == MapSeq(LAMBDA s : Static("pe", "module", "read", "section" :> s.name, "entropy" :> "high", 60),
                            Filter(c.sections, LAMBDA s : s.packed))
           headers == IF c.headers THEN HeaderFindings(c) \o dotnet \o packed ELSE <<>>
           imports == MapSeq(LAMBDA a : Static("pe", "api_call", "resolve", "import" :> a,
                                               "attack_hint" :> SuspectImports[a][1], SuspectImports[a][2]),
                             Filter(c.imports, LAMBDA a : a \in DOMAIN SuspectImports))
           capa == MapSeq(LAMBDA rule : Static("pe.capa", "api_call", "resolve", "capability" :> rule, Dict, 80), c.capa)
<1>1. PeItems(c) = format \o imphash \o headers \o imports \o capa
  BY Zenon DEF PeItems
<1>2. /\ IsList(c.sections) /\ IsList(c.imports) /\ IsList(c.capa)
      /\ \A I : IsList(Picked(c.sections, I)) /\ IsList(Picked(c.imports, I))
  BY FilterIs DEF IsContent
<1>3. AllSound(HeaderFindings(c), {"static"}, {})
  BY <1>2, SoundIf, SoundConcat, SoundMap, StaticSound, Ratings, PlainDict, PlainPair, ZenonT(40) DEF HeaderFindings, MapSeq, Filter
<1>4. AllSound(format, {"static"}, {}) /\ AllSound(imphash, {"static"}, {}) /\ AllSound(dotnet, {"static"}, {})
  BY SoundIf, StaticSound, Ratings, PlainDict
<1>7. AllSound(imports, {"static"}, {})
  <2>1. PICK I : I = {i \in DOMAIN c.imports : c.imports[i] \in DOMAIN SuspectImports}
    OBVIOUS
  <2>2. PICK those : those = Picked(c.imports, I) /\ IsList(those)
    BY <1>2
  <2>3. \A x \in Range(those) : x \in DOMAIN SuspectImports
    BY <1>2, <2>1, <2>2, ListPicked
  <2>4. \A i \in DOMAIN those : Rated(SuspectImports[those[i]][2])
    BY <2>2, <2>3, ListHas, ImportRates
  <2>5. imports = MapSeq(LAMBDA a : Static("pe", "api_call", "resolve", "import" :> a,
                                           "attack_hint" :> SuspectImports[a][1], SuspectImports[a][2]), those)
    BY <2>1, <2>2 DEF Filter
  <2> HIDE DEF imports
  <2> QED BY <2>2, <2>4, <2>5, SoundMap, StaticSound, PlainPair DEF MapSeq
<1>5. AllSound(packed, {"static"}, {}) /\ AllSound(capa, {"static"}, {})
  BY <1>2, SoundMap, StaticSound, Ratings, PlainDict, PlainPair DEF MapSeq, Filter
<1> HIDE DEF format, imphash, dotnet, packed, imports, capa
<1>6. AllSound(headers, {"static"}, {})
  BY <1>3, <1>4, <1>5, SoundEmpty, SoundConcat
<1> HIDE DEF headers
<1> QED BY <1>1, <1>4, <1>5, <1>6, <1>7, SoundConcat DEF StaticItems

LEMMA ElfSound == ASSUME NEW c, IsContent(c) PROVE StaticItems(ElfItems(c))
<1>1. IsList(c.segments)
  BY DEF IsContent
<1>2. IsFiniteSet(DOMAIN SuspectSymbols)
  <2>1. IsFiniteSet(DOMAIN ("ptrace" :> <<"T1622", 60>> @@ "fork" :> <<"T1059", 30>> @@ "execve" :> <<"T1059.004", 50>>
                            @@ "system" :> <<"T1059.004", 60>> @@ "socket" :> <<"T1071", 35>> @@ "connect" :> <<"T1071", 40>>))
    BY FinitePair, FiniteJoin
  <2> QED BY <2>1, FinitePair, FiniteJoin DEF SuspectSymbols
<1>3. PICK symbols : /\ symbols = ListOf(c.symbols \intersect DOMAIN SuspectSymbols) /\ IsList(symbols)
                     /\ \A i \in DOMAIN symbols : symbols[i] \in DOMAIN SuspectSymbols
  BY <1>2, MeetList
<1>4. ASSUME NEW s PROVE AllSound(SegmentItems(s), {"static"}, {})
  BY SoundIf, SoundConcat, StaticSound, Ratings, PlainPair DEF SegmentItems
<1>5. AllSound(Flatten(MapSeq(SegmentItems, c.segments)), {"static"}, {})
  BY <1>1, <1>4, ListsMap, SoundFlat DEF MapSeq
<1>6. AllSound(MapSeq(LAMBDA s : Static("elf", "api_call", "resolve", "symbol" :> s,
                            "attack_hint" :> SuspectSymbols[s][1], SuspectSymbols[s][2]), symbols), {"static"}, {})
  BY <1>3, StaticSound, SymbolRates, SoundMap, PlainPair DEF MapSeq
<1>7. CASE c.headers
  BY <1>3, <1>5, <1>6, <1>7, SoundEmpty, SoundIf, SoundConcat, StaticSound, Ratings, PlainDict, PlainPair, PlainJoin, ZenonT(40)
  DEF ElfItems, StaticItems
<1>8. CASE ~c.headers
  BY <1>3, <1>5, <1>6, <1>8, SoundEmpty, SoundIf, SoundConcat, StaticSound, Ratings, PlainDict, PlainPair, PlainJoin, ZenonT(40)
  DEF ElfItems, StaticItems
<1> QED BY <1>7, <1>8

LEMMA GoSymbolSound == ASSUME NEW c, IsContent(c) PROVE StaticItems(GoSymbolItems(c))
<1>1. IsList(c.gosymbols)
  BY DEF IsContent
<1>2. ASSUME NEW at, NEW f PROVE Sound(Located(EvidenceItem("static", "go_symbols", "function", "resolve",
                                               "function" :> f.name, Dict, 80), "virtual_address" :> f.va), {"static"}, {})
  <2>1. Sized("virtual_address" :> f.va)
    BY PairKeys DEF Sized
  <2> QED BY <2>1, StaticSound, Ratings, LocatedSound, PlainDict
<1> QED BY <1>1, <1>2, SoundIf, SoundMap, StaticSound, Ratings, PlainPair DEF GoSymbolItems, StaticItems, MapSeq

LEMMA SizedJoin == ASSUME NEW d, NEW e, Sized(d), Sized(e) PROVE Sized(d @@ e)
<1>1. CASE "size" \in DOMAIN d
  BY <1>1, JoinIs DEF Sized
<1>2. CASE "size" \notin DOMAIN d
  <2>1. "size" \in DOMAIN (d @@ e) => "size" \in DOMAIN e /\ (d @@ e)["size"] = e["size"]
    BY <1>2, JoinKeys, JoinIs
  <2> QED BY <2>1 DEF Sized
<1> QED BY <1>1, <1>2

LEMMA SizedPair == ASSUME NEW k, NEW n, k # "size" \/ n \in Nat PROVE Sized(k :> n)
  BY PairKeys, PairIs DEF Sized

LEMMA SizedOpt == ASSUME NEW k, NEW n, k # "size" \/ n \in Nat \union {NoAddr} PROVE Sized(OptNum(k, n))
  BY OptKeys, OptIs DEF Sized

LEMMA DisasmSound == ASSUME NEW c, IsContent(c) PROVE StaticItems(DisasmItems(c))
<1>1. IsList(c.functions) /\ IsList(c.edges) /\ \A f \in Range(c.functions) : f.size \in Nat
  BY DEF IsContent
<1>2. ASSUME NEW f, f.size \in Nat
      PROVE  Sound(Located(Static("disasm", "function", "read", "function" :> f.name, Dict, 90),
                           OptNum("rva", f.rva) @@ ("virtual_address" :> f.va)
                           @@ ("instruction_address" :> f.va) @@ ("size" :> f.size)), {"static"}, {})
  <2>1. Sized(OptNum("rva", f.rva) @@ ("virtual_address" :> f.va) @@ ("instruction_address" :> f.va) @@ ("size" :> f.size))
    BY <1>2, SizedJoin, SizedPair, SizedOpt
  <2> QED BY <2>1, StaticSound, Ratings, LocatedSound, PlainDict
<1>3. ASSUME NEW e
      PROVE  Sound(Located(By(Static("disasm", "call", "call", "function" :> e.callee, Dict, 95), "function" :> e.caller),
                           "instruction_address" :> e.at), {"static"}, {})
  <2>1. Sized("instruction_address" :> e.at)
    BY SizedPair
  <2> QED BY <2>1, StaticSound, Ratings, BySound, LocatedSound, PlainDict
<1>4. \A i \in DOMAIN c.functions : c.functions[i].size \in Nat
  BY <1>1, ListHas
<1> QED
  BY <1>1, <1>2, <1>3, <1>4, SoundEmpty, SoundIf, SoundConcat, SoundMap, StaticSound, Ratings, PlainDict
  DEF DisasmItems, StaticItems, MapSeq

LEMMA GhidraSound == ASSUME NEW d, IsDocument(d) PROVE StaticItems(GhidraItems(d))
<1>1. IsList(d.functions) /\ \A i \in DOMAIN d.functions : d.functions[i].size \in Nat \union {NoAddr}
  BY ListHas DEF IsDocument
<1>2. ASSUME NEW f, f.size \in Nat \union {NoAddr}, NEW rva
      PROVE  Sound(Located(EvidenceItem("static", "ghidra", "function", "decompile", "function" :> f.name, Dict, 80),
                           OptNum("rva", rva) @@ ("virtual_address" :> f.va) @@ OptNum("size", f.size)), {"static"}, {})
  <2>1. Sized(OptNum("rva", rva) @@ ("virtual_address" :> f.va) @@ OptNum("size", f.size))
    BY <1>2, SizedJoin, SizedPair, SizedOpt
  <2> QED BY <2>1, StaticSound, Ratings, LocatedSound, PlainDict
<1> QED BY <1>1, <1>2, SoundMap DEF GhidraItems, StaticItems, MapSeq

(* The analyzers of code and documents. *)
LEMMA FiniteTables ==
    /\ IsFiniteSet(DOMAIN PhpSinks) /\ IsFiniteSet(DOMAIN VbaSinks) /\ IsFiniteSet(DOMAIN PdfMarkers)
    /\ \A lang : IsFiniteSet(DOMAIN ScriptSinks(lang))
<1>0. IsFiniteSet(DOMAIN VbaSinks)
  <2> DEFINE shell == "vba shell()" :> <<"process", 85>>
             create == "createobject" :> <<"process", 70>>
             auto == "auto-exec macro" :> <<"execution", 80>>
             remote == "remote download" :> <<"network", 70>>
             run == "wscript run" :> <<"process", 70>>
             probe == "environment probe" :> <<"discovery", 40>>
  <2>1. VbaSinks = shell @@ create @@ auto @@ remote @@ run @@ probe
    BY Zenon DEF VbaSinks
  <2>2. IsFiniteSet(DOMAIN shell) /\ IsFiniteSet(DOMAIN create) /\ IsFiniteSet(DOMAIN auto)
    BY FinitePair
  <2>3. IsFiniteSet(DOMAIN remote) /\ IsFiniteSet(DOMAIN run) /\ IsFiniteSet(DOMAIN probe)
    BY FinitePair
  <2> HIDE DEF shell, create, auto, remote, run, probe
  <2>4. IsFiniteSet(DOMAIN (shell @@ create @@ auto @@ remote))
    BY <2>2, <2>3, FiniteJoin
  <2> QED BY <2>1, <2>3, <2>4, FiniteJoin
<1>1. IsFiniteSet(DOMAIN PdfMarkers)
  BY FinitePair, FiniteJoin DEF PdfMarkers
<1>2. IsFiniteSet(DOMAIN Dict)
  <2>1. DOMAIN Dict = {}
    BY DEF Dict
  <2> QED BY <2>1, FS_EmptySet
<1>3. IsFiniteSet(DOMAIN Vbscript) /\ IsFiniteSet(DOMAIN Javascript)
  BY FinitePair, FiniteJoin, SMTT(60) DEF Vbscript, Javascript
<1>4. IsFiniteSet(DOMAIN (Javascript @@ Vbscript))
  BY <1>3, FiniteJoin
<1>5. /\ IsFiniteSet(DOMAIN ("invoke-expression" :> <<"code_exec", 85>> @@ "remote_download" :> <<"network", 70>>
                             @@ "start-process" :> <<"process", 60>> @@ "stealth_flags" :> <<"evasion", 50>>))
      /\ IsFiniteSet(DOMAIN ("reverse_shell" :> <<"network", 85>> @@ "download_exec" :> <<"code_exec", 80>>
                             @@ "netcat" :> <<"network", 60>> @@ "make_executable" :> <<"file", 50>>
                             @@ "cron" :> <<"persistence", 70>>))
  BY FinitePair, FiniteJoin
<1>6. ASSUME NEW lang PROVE IsFiniteSet(DOMAIN ScriptSinks(lang))
  BY <1>2, <1>3, <1>4, <1>5 DEF ScriptSinks
<1>7. IsFiniteSet(DOMAIN CommandSinks) /\ IsFiniteSet(DOMAIN CodeSinks) /\ IsFiniteSet(DOMAIN FileSinks)
  <2>1. /\ <<"system", "exec", "passthru", "shell_exec", "proc_open", "popen", "pcntl_exec">> \in Seq(DOMAIN CommandSinks)
        /\ <<"eval", "assert", "create_function", "call_user_func", "call_user_func_array">> \in Seq(DOMAIN CodeSinks)
        /\ <<"file_put_contents", "fwrite", "fputs", "move_uploaded_file">> \in Seq(DOMAIN FileSinks)
    BY DEF CommandSinks, CodeSinks, FileSinks
  <2>2. /\ Range(<<"system", "exec", "passthru", "shell_exec", "proc_open", "popen", "pcntl_exec">>) = DOMAIN CommandSinks
        /\ Range(<<"eval", "assert", "create_function", "call_user_func", "call_user_func_array">>) = DOMAIN CodeSinks
        /\ Range(<<"file_put_contents", "fwrite", "fputs", "move_uploaded_file">>) = DOMAIN FileSinks
    BY DEF CommandSinks, CodeSinks, FileSinks, Range
  <2> QED BY <2>1, <2>2, ListFinite DEF IsList
<1>8. IsFiniteSet(DOMAIN PhpSinks)
  BY <1>7, FinitePair, FiniteJoin DEF PhpSinks, OtherSinks
<1> QED BY <1>0, <1>1, <1>6, <1>8

LEMMA SinkRates ==
    /\ \A s \in DOMAIN PhpSinks : Rated(PhpSinks[s])
    /\ \A s \in DOMAIN VbaSinks : Rated(VbaSinks[s][2])
    /\ \A s \in DOMAIN PdfMarkers : Rated(PdfMarkers[s][2])
    /\ \A lang : \A s \in DOMAIN ScriptSinks(lang) : Rated(ScriptSinks(lang)[s][2])
<1>1. Within(PhpSinks, 0..100)
  <2> DEFINE V == 0..100
  <2>1. Within(CommandSinks, V) /\ Within(CodeSinks, V) /\ Within(FileSinks, V)
    BY DEF Within, CommandSinks, CodeSinks, FileSinks
  <2>2. 85 \in V /\ 55 \in V
    OBVIOUS
  <2> HIDE DEF V
  <2>3. Within(OtherSinks, V)
    BY <2>2, WithinPair, WithinJoin DEF OtherSinks
  <2> QED BY <2>1, <2>3, WithinJoin DEF PhpSinks, V
<1>2. Graded(VbaSinks)
  <2> DEFINE a == "vba shell()" :> <<"process", 85>> @@ "createobject" :> <<"process", 70>>
                  @@ "auto-exec macro" :> <<"execution", 80>>
  <2>1. VbaSinks = (a @@ "remote download" :> <<"network", 70>> @@ "wscript run" :> <<"process", 70>>
                      @@ "environment probe" :> <<"discovery", 40>>)
    BY Zenon DEF VbaSinks
  <2>2. Graded(a)
    BY Ratings, GradedPair, GradedJoin
  <2> HIDE DEF a
  <2> QED BY <2>1, <2>2, Ratings, GradedPair, GradedJoin
<1>3. Graded(PdfMarkers)
  BY Ratings, GradedPair, GradedJoin DEF PdfMarkers
<1>4. Graded(Vbscript) /\ Graded(Javascript) /\ Graded(Dict)
  <2>1. Graded(Vbscript)
    BY Ratings, GradedPair, GradedJoin DEF Vbscript
  <2>2. Graded(Javascript)
    BY Ratings, GradedPair, GradedJoin DEF Javascript
  <2> QED BY <2>1, <2>2 DEF Graded, Dict
<1>5. ASSUME NEW lang PROVE Graded(ScriptSinks(lang))
  <2>1. Graded("invoke-expression" :> <<"code_exec", 85>> @@ "remote_download" :> <<"network", 70>>
               @@ "start-process" :> <<"process", 60>> @@ "stealth_flags" :> <<"evasion", 50>>)
    BY Ratings, GradedPair, GradedJoin
  <2>2. Graded("reverse_shell" :> <<"network", 85>> @@ "download_exec" :> <<"code_exec", 80>>
               @@ "netcat" :> <<"network", 60>> @@ "make_executable" :> <<"file", 50>>
               @@ "cron" :> <<"persistence", 70>>)
    BY Ratings, GradedPair, GradedJoin
  <2>3. Graded(Javascript @@ Vbscript)
    BY <1>4, GradedJoin
  <2> QED BY <1>4, <2>1, <2>2, <2>3 DEF ScriptSinks
<1>6. \A n \in 0..100 : Rated(n)
  BY DEF Rated
<1> QED BY <1>1, <1>2, <1>3, <1>5, <1>6 DEF Within, Graded

LEMMA CodesList == ASSUME NEW lang PROVE IsList(CodesOf(lang))
<1>1. /\ PowershellCodes \in Seq({"-encodedcommand", "frombase64string"})
      /\ JsCodes \in Seq({"unescape", "atob", "fromcharcode"})
      /\ VbscriptCodes \in Seq({"chr()", "-encodedcommand"})
      /\ ShellCodes \in Seq({"base64 -d", "echo|base64"})
  BY DEF PowershellCodes, JsCodes, VbscriptCodes, ShellCodes
<1>2. IsList(PowershellCodes) /\ IsList(JsCodes) /\ IsList(VbscriptCodes) /\ IsList(ShellCodes)
  BY <1>1, ListIs
<1>3. IsList(VbscriptCodes \o JsCodes \o PowershellCodes)
  BY <1>2, ListConcat
<1> QED BY <1>2, <1>3 DEF CodesOf

LEMMA ScriptSound == ASSUME NEW lang, NEW calls, NEW encodings, IsList(encodings)
                     PROVE  StaticItems(ScriptItems(lang, calls, encodings))
<1>1. ASSUME NEW I PROVE IsList(Picked(encodings, I))
  BY FilterIs
<1> DEFINE layers == Flatten(MapSeq(LAMBDA f : Filter(encodings, LAMBDA e : e.function = f), CodesOf(lang)))
<1>2. IsList(layers)
  BY <1>1, CodesList, FlatMap DEF MapSeq, Filter
<1> HIDE DEF layers
<1> DEFINE found == ListOf((calls \union UNION {layers[i].calls : i \in DOMAIN layers}) \intersect DOMAIN ScriptSinks(lang))
<1>3. IsList(found) /\ \A i \in DOMAIN found : found[i] \in DOMAIN ScriptSinks(lang)
  BY FiniteTables, MeetList
<1> HIDE DEF found
<1> DEFINE decoded == [i \in DOMAIN layers |->
               Static(lang, "string", "decode", "layer" :> Lib!ToString(i - 1) @@ "function" :> layers[i].function,
                      Opt("decoded_preview", layers[i].after), 90)]
           Artifact(cat) == FirstCase(<< <<cat \in {"code_exec", "process"}, "api_call">>, <<cat = "network", "network">> >>, "string")
           Operation(cat) == FirstCase(<< <<cat \in {"code_exec", "process"}, "exec">>, <<cat = "network", "connect">> >>, "read")
           Sink(s) == Static(lang, Artifact(ScriptSinks(lang)[s][1]), Operation(ScriptSinks(lang)[s][1]),
                             "sink" :> s @@ "category" :> ScriptSinks(lang)[s][1], Dict, ScriptSinks(lang)[s][2])
<1>4. ScriptItems(lang, calls, encodings) = decoded \o MapSeq(Sink, found)
  BY Zenon DEF ScriptItems, layers, found
<1> HIDE DEF Artifact, Operation
<1>5. AllSound(decoded, {"static"}, {})
  BY <1>2, StaticSound, Ratings, SoundMap, PlainPair
<1>6. AllSound(MapSeq(Sink, found), {"static"}, {})
  BY <1>3, StaticSound, SinkRates, SoundMap, PlainDict DEF MapSeq
<1> HIDE DEF decoded, Sink
<1> QED BY <1>4, <1>5, <1>6, SoundConcat DEF StaticItems, MapSeq

LEMMA PeeledIs == ASSUME NEW w, IsList(w) PROVE IsList(Peeled(w)) /\ Range(Peeled(w)) \subseteq Range(w)
<1> DEFINE stops == {i \in DOMAIN w : ~Resolves(w[i])}
           ends  == stops \union {MaxDepth + 1, Len(w) + 1}
<1>1. PICK n \in Nat : n = Len(w) /\ DOMAIN w = 1..n
  BY ListHas
<1>2. ends \subseteq Nat /\ ends # {} /\ (\A e \in ends : e >= 1) /\ n + 1 \in ends
  BY <1>1, DepthAssumption
<1>3. PICK m : m = Min(ends) /\ m \in Nat /\ m >= 1 /\ m <= n + 1
  <2> HIDE DEF ends
  <2> QED BY <1>2, MinIs
<1>4. Peeled(w) = SubSeq(w, 1, m - 1)
  BY <1>3, Zenon DEF Peeled
<1>5. m - 1 \in Nat /\ m - 1 <= n
  BY <1>3
<1>6. Upto(w, m - 1) = SubSeq(w, 1, m - 1)
  <2>1. (IF n < m - 1 THEN n ELSE m - 1) = m - 1
    BY <1>5
  <2> QED BY <1>1, <2>1, Zenon DEF Upto
<1> QED BY <1>4, <1>5, <1>6, ListUpto

LEMMA PhpSound == ASSUME NEW c, IsContent(c) PROVE StaticItems(PhpItems(c))
<1> DEFINE layers == Peeled(c.wrappers)
           sinks == c.calls \union FinalPayload(c).calls
           inputs == c.inputs \union FinalPayload(c).inputs
           exec == sinks \intersect (DOMAIN CommandSinks \union DOMAIN CodeSinks)
           decoded == [i \in DOMAIN layers |->
               Static("php", "string", "decode", "layer" :> Lib!ToString(i - 1) @@ "function" :> layers[i].wrapper,
                      Opt("decoded_preview", layers[i].after), 95)]
           payload == If(layers # <<>>, Static("php", "string", "decode", "artifact" :> "deobfuscated_payload", Dict, 90))
           Category1(s) == FirstCase(<< <<s \in DOMAIN CommandSinks, "command_exec">>,
                                        <<s \in DOMAIN FileSinks, "file_write">> >>, "code_exec")
           called == MapSeq(LAMBDA s : Static("php", "api_call", "exec", "sink" :> s @@ "category" :> Category1(s), Dict, PhpSinks[s]),
                            ListOf(sinks \intersect DOMAIN PhpSinks))
           globals == If(inputs # {}, Static("php", "string", "read", "superglobals" :> "yes", Dict, 70))
           verdict == If(exec # {} /\ (layers # <<>> \/ inputs # {}),
                         Static("php", "file", "exec", "verdict" :> "php_webshell", Dict, IF layers # <<>> THEN 85 ELSE 80))
<1>1. PhpItems(c) = decoded \o payload \o called \o globals \o verdict
  BY Zenon DEF PhpItems
<1>2. /\ IsList(layers) /\ IsList(ListOf(sinks \intersect DOMAIN PhpSinks))
      /\ \A i \in DOMAIN ListOf(sinks \intersect DOMAIN PhpSinks) : ListOf(sinks \intersect DOMAIN PhpSinks)[i] \in DOMAIN PhpSinks
  BY PeeledIs, FiniteTables, MeetList DEF IsContent
<1>3. ASSUME NEW artifact, NEW operation, NEW object, NEW conf, Rated(conf)
      PROVE  Sound(Static("php", artifact, operation, object, Dict, conf), {"static"}, {})
  BY <1>3, StaticSound, PlainDict
<1> HIDE DEF layers, sinks, inputs, exec, Category1
<1>4. AllSound(decoded, {"static"}, {})
  BY <1>2, StaticSound, Ratings, SoundMap, PlainPair
<1>5. AllSound(called, {"static"}, {})
  BY <1>2, <1>3, SinkRates, SoundMap DEF MapSeq
<1>6. AllSound(payload, {"static"}, {}) /\ AllSound(globals, {"static"}, {}) /\ AllSound(verdict, {"static"}, {})
  BY <1>3, SoundIf, Ratings, ZenonT(40)
<1> HIDE DEF decoded, payload, called, globals, verdict
<1> QED BY <1>1, <1>4, <1>5, <1>6, SoundConcat DEF StaticItems

LEMMA OfficeSound == ASSUME NEW c, IsContent(c) PROVE StaticItems(OfficeItems(c))
<1>1. IsList(c.macros) /\ \A i \in DOMAIN c.macros : IsList(c.macros[i].encodings)
  BY ListHas DEF IsContent
<1>2. ASSUME NEW macro, IsList(macro.encodings), NEW index PROVE AllSound(MacroItems(macro, index), {"static"}, {})
  <2> DEFINE found == ListOf(macro.calls \intersect DOMAIN VbaSinks)
             first == <<Static("office", "macro", "read", "macro_index" :> index, Dict, 70)>>
             Operation(cat) == FirstCase(<< <<cat \in {"process", "execution"}, "exec">>, <<cat = "network", "connect">> >>, "read")
             called == MapSeq(LAMBDA s : Static("office", "macro", Operation(VbaSinks[s][1]),
                                                "sink" :> s @@ "category" :> VbaSinks[s][1], "macro_index" :> index, VbaSinks[s][2]),
                              found)
  <2>1. MacroItems(macro, index) = first \o called \o ScriptItems("powershell", macro.calls, macro.encodings)
    BY Zenon DEF MacroItems
  <2>2. IsList(found) /\ \A i \in DOMAIN found : found[i] \in DOMAIN VbaSinks
    BY FiniteTables, MeetList
  <2> HIDE DEF found, Operation
  <2>3. AllSound(first, {"static"}, {})
    BY StaticSound, Ratings, SoundIf, PlainDict
  <2>4. AllSound(called, {"static"}, {})
    BY <2>2, StaticSound, SinkRates, SoundMap, PlainPair DEF MapSeq
  <2>5. AllSound(ScriptItems("powershell", macro.calls, macro.encodings), {"static"}, {})
    BY <1>2, ScriptSound DEF StaticItems
  <2> HIDE DEF first, called
  <2> QED BY <2>1, <2>3, <2>4, <2>5, SoundConcat
<1>3. AllSound(<<Static("office", "macro", "read", "name" :> c.name, Dict, 30)>>, {"static"}, {})
  BY StaticSound, Ratings, SoundIf, PlainDict
<1> QED BY <1>1, <1>2, <1>3, ListsMap, SoundFlat DEF OfficeItems, StaticItems

LEMMA LnkSound == ASSUME NEW c PROVE StaticItems(LnkItems(c))
  BY SoundIf, StaticSound, Ratings, SoundConcat, PlainDict, PlainPair, ZenonT(40) DEF LnkItems, StaticItems

LEMMA PdfSound == ASSUME NEW c PROVE StaticItems(PdfItems(c))
<1>1. PICK s : s = ListOf(c.markers \intersect DOMAIN PdfMarkers) /\ IsList(s) /\ \A i \in DOMAIN s : s[i] \in DOMAIN PdfMarkers
  BY FiniteTables, MeetList
<1>2. ASSUME NEW m \in DOMAIN PdfMarkers, NEW artifact, NEW operation
      PROVE  StaticItem(Static("pdf", artifact, operation, "sink" :> m, Opt("attack_hint", PdfMarkers[m][1]), PdfMarkers[m][2]))
  BY StaticSound, SinkRates, PlainPair DEF StaticItem
<1> QED
  BY <1>1, <1>2, SoundIf, SoundConcat, SoundMap, StaticSound, Ratings, PlainDict, PlainPair, ZenonT(40)
  DEF PdfItems, StaticItem, StaticItems, MapSeq

LEMMA ContainerSound == ASSUME NEW c, IsContent(c) PROVE StaticItems(ContainerItems(c))
<1>1. IsList(c.members)
  BY DEF IsContent
<1>2. ASSUME NEW i \in DOMAIN c.members
      PROVE  IsList(ListOf(c.members[i].apis)) /\ IsList(ExtractIocs(c.members[i].mentions, "ioc"))
  <2>1. c.members[i] \in Range(c.members)
    BY <1>1, ListHas
  <2> QED BY <2>1, ListOfIs, ExtractList DEF IsContent
<1>3. ASSUME NEW artifact, NEW operation, NEW object, NEW details, Plain(details), NEW conf, Rated(conf)
      PROVE  Sound(EvidenceItem("static", "container", artifact, operation, object, details, conf), {"static"}, {})
  BY <1>3, StaticSound, Ratings
<1>4. ASSUME NEW m, NEW i
      PROVE  Plain("ioc" :> "yes" @@ "false_positive_risk" :> IocRisk[i.kind] @@ "member" :> m.name)
  BY PlainPair, PlainJoin
<1>5. ASSUME NEW i \in DOMAIN c.members PROVE AllSound(MemberItems(c.members[i]), {"static"}, {})
  <2>1. \A j \in DOMAIN ExtractIocs(c.members[i].mentions, "ioc") : Rated(IocConf[ExtractIocs(c.members[i].mentions, "ioc")[j].kind])
    <3>1. IsList(c.members[i].mentions)
      BY <1>1, ListHas DEF IsContent
    <3> QED BY <1>2, <3>1, ListHas, ExtractKinds, IocRates
  <2> QED BY <1>2, <1>3, <1>4, <2>1, Ratings, SoundIf, SoundConcat, SoundMap, PlainDict DEF MemberItems, MapSeq
<1> QED BY <1>1, <1>5, ListsMap, SoundFlat DEF ContainerItems, StaticItems, MapSeq

LEMMA RestSound == ASSUME NEW c, IsContent(c) PROVE StaticItems(MachoItems(c)) /\ StaticItems(FirmwareItems(c))
<1>1. IsList(c.loads) /\ IsList(c.volumes)
  BY DEF IsContent
<1>2. StaticItems(MachoItems(c))
  BY <1>1, SoundMap, StaticSound, Ratings, PlainDict DEF MachoItems, StaticItems, MapSeq
<1>3. StaticItems(FirmwareItems(c))
  BY <1>1, SoundMap, StaticSound, Ratings, PlainDict DEF FirmwareItems, StaticItems, MapSeq
<1> QED BY <1>2, <1>3

(* Whatever analyzer is run. *)
LEMMA AnalyzerSound == ASSUME NEW a, NEW c, IsContent(c), NEW failing PROVE StaticItems(AnalyzeWith(a, c, failing))
<1>1. AllSound(<<>>, {"static"}, {})
  BY SoundEmpty
<1>2. ASSUME NEW name PROVE AllSound(<<Static(name, "string", "read", "value" :> name, Dict, 50)>>, {"static"}, {})
  BY SoundIf, StaticSound, Ratings, PlainDict
<1>3. StaticItems(ScriptItems(c.lang, c.calls, c.encodings))
  BY ScriptSound DEF IsContent
<1>4. StaticItems(RunOf(a.name, c))
  BY <1>2, <1>3, CommonSound, PhpSound, PeSound, ElfSound, OfficeSound, UnpackSound, DecodeSound, DisasmSound, FingerprintSound,
     LnkSound, PdfSound, ContainerSound, RestSound, GoSymbolSound DEF RunOf, StaticItems
<1> QED BY <1>1, <1>4 DEF AnalyzeWith, StaticItems
-----------------------------------------------------------------------------
(* The normalizers: what each makes of a report is a list of items of the  *)
(* lanes it is for, and those that name the pid of a process that started  *)
(* name one of the report.                                                 *)
Quiet(object) == "status" \notin DOMAIN object /\ "pid" \notin DOMAIN object

LEMMA QuietPair == ASSUME NEW k, NEW v, k # "status", k # "pid" PROVE Quiet(k :> v) /\ Quiet(Opt(k, v))
  BY PairKeys, OptKeys DEF Quiet

LEMMA QuietJoin == ASSUME NEW d, NEW e, Quiet(d), Quiet(e) PROVE Quiet(d @@ e)
  BY JoinKeys DEF Quiet

LEMMA RuntimeSound ==
    ASSUME NEW lane, NEW L, lane \in L, lane # "static", NEW P, NEW tool, NEW artifact, NEW operation, NEW object, NEW details,
           Plain(details), "status" \notin DOMAIN object, NEW conf, Rated(conf),
           (artifact = "process" /\ operation = "spawn" /\ "pid" \in DOMAIN object)
              => "hidden" \in DOMAIN object \/ object["pid"] \in P
    PROVE  Sound(EvidenceItem(lane, tool, artifact, operation, object, details, conf), L, P)
<1>1. PICK it : it = EvidenceItem(lane, tool, artifact, operation, object, details, conf)
  OBVIOUS
<1>2. /\ it.lane = lane /\ it.tool = tool /\ it.artifact = artifact /\ it.operation = operation
      /\ it.object = object /\ it.details = details /\ it.conf = conf /\ it.t = NoTime /\ Shaped(it)
  BY <1>1 DEF EvidenceItem, Shaped
<1>3. Sound(it, L, P)
  BY <1>2 DEF Sound, Plain, Runtime, Starts, Hidden, Has
<1> QED BY <1>1, <1>3

LEMMA QuietSound ==
    ASSUME NEW lane, NEW L, lane \in L, lane # "static", NEW P, NEW tool, NEW artifact, NEW operation, NEW object, Quiet(object),
           NEW details, Plain(details), NEW conf, Rated(conf)
    PROVE  Sound(EvidenceItem(lane, tool, artifact, operation, object, details, conf), L, P)
  BY RuntimeSound, Ratings DEF Quiet

(* The same item, with its actor, its offset and its place. *)
LEMMA PlacedSound ==
    ASSUME NEW it, NEW L, NEW P, Sound(it, L, P), Runtime(it), NEW subject, NEW t, NEW at
    PROVE  /\ Sound(By(it, subject), L, P) /\ Runtime(By(it, subject))
           /\ Sound(When(By(it, subject), t), L, P) /\ Runtime(When(By(it, subject), t))
           /\ Sound(Located(By(it, subject), at), L, P) /\ Sound(Located(it, at), L, P)
           /\ Sound(Located(When(By(it, subject), t), at), L, P)
<1>1. PICK x : x = By(it, subject)
  OBVIOUS
<1>2. x.lane = it.lane /\ Sound(x, L, P)
  BY <1>1, BySound DEF By, Sound, Shaped
<1>3. PICK y : y = When(x, t)
  OBVIOUS
<1>4. y.lane = it.lane /\ Sound(y, L, P)
  BY <1>2, <1>3, WhenSound DEF When, Sound, Shaped, Runtime
<1>5. ASSUME NEW z, z.lane = it.lane, Sound(z, L, P) PROVE Sound(Located(z, at), L, P)
  BY <1>5, LocatedSound DEF Runtime
<1>6. Runtime(x) /\ Runtime(y)
  BY <1>2, <1>4 DEF Runtime
<1> QED BY <1>1, <1>2, <1>3, <1>4, <1>5, <1>6

LEMMA CapeIs == ASSUME NEW artifact, NEW operation, NEW object, NEW details, NEW conf, NEW L, NEW P,
                       Sound(Cape(artifact, operation, object, details, conf), L, P)
                PROVE  Runtime(Cape(artifact, operation, object, details, conf))
  BY DEF Cape, EvidenceItem, Runtime

LEMMA ProcessSound == ASSUME NEW r, IsCape(r) PROVE AllSound(ProcessItems(r), {"dynamic"}, Pids(Range(r.processes)))
<1> DEFINE named == {i \in DOMAIN r.processes : r.processes[i].name # "None"}
           NameOf(pid) == LET of == {i \in named : r.processes[i].pid = pid /\ pid # "None"}
                          IN  IF of = {} THEN "None" ELSE r.processes[Max(of)].name
           Parent(proc) == IF proc.parent_name # "None" THEN proc.parent_name ELSE NameOf(proc.ppid)
           At(proc) == IF proc.base = NoAddr THEN Dict
                       ELSE ("virtual_address" :> proc.base) @@ ("module_base" :> proc.base)
                            @@ Opt("module", proc.name) @@ Opt("pid", proc.pid)
                            @@ Opt("artifact_sha256", IF proc.name \in r.names THEN r.target ELSE "None")
           Made(proc) == Cape("process", "spawn", Opt("pid", proc.pid) @@ Opt("name", proc.name), Dict, 90)
           Spawn(proc) == Located(When(By(Made(proc), Opt("pid", proc.ppid) @@ Opt("name", Parent(proc))), proc.t), At(proc))
<1>1. ProcessItems(r) = MapSeq(Spawn, r.processes)
  BY Zenon DEF ProcessItems
<1>2. ASSUME NEW i \in DOMAIN r.processes PROVE Sound(Made(r.processes[i]), {"dynamic"}, Pids(Range(r.processes))) /\ Runtime(Made(r.processes[i]))
  <2>1. PICK p : p = r.processes[i] /\ p \in Range(r.processes)
    BY DEF Range
  <2>2. PICK object : object = Opt("pid", p.pid) @@ Opt("name", p.name)
    OBVIOUS
  <2>3. "status" \notin DOMAIN object
    BY <2>2, JoinKeys, OptKeys
  <2>4. "pid" \in DOMAIN object => object["pid"] = p.pid
    BY <2>2, JoinKeys, JoinIs, OptKeys, OptIs
  <2>5. p.pid \in Pids(Range(r.processes))
    BY <2>1 DEF Pids
  <2>6. Sound(Cape("process", "spawn", object, Dict, 90), {"dynamic"}, Pids(Range(r.processes)))
    BY <2>3, <2>4, <2>5, RuntimeSound, Ratings, PlainDict DEF Cape
  <2> QED BY <2>1, <2>2, <2>6, CapeIs
<1> HIDE DEF Made, At, Parent, NameOf
<1>3. ASSUME NEW i \in DOMAIN r.processes PROVE Sound(Spawn(r.processes[i]), {"dynamic"}, Pids(Range(r.processes)))
  BY <1>2, PlacedSound
<1>4. IsList(r.processes)
  BY DEF IsCape
<1> HIDE DEF Spawn
<1> QED BY <1>1, <1>3, <1>4, SoundMap DEF MapSeq

LEMMA EventsList == ASSUME NEW r, IsCape(r) PROVE IsList(ApiEvents(r))
<1> DEFINE Flat(calls) == MapSeq(LAMBDA c : [call |-> c, proc |-> NoProcess], calls)
           OfProc(p)   == MapSeq(LAMBDA c : [call |-> c, proc |-> p], p.calls)
           nested      == Flatten(MapSeq(OfProc, r.processes))
           Named(api)  == [api |-> api, caller |-> NoAddr, base |-> NoAddr, module |-> "None",
                           module_sha256 |-> "None", is_target_module |-> FALSE, t |-> NoTime]
           cases == << <<r.api_calls # <<>>, Flat(r.api_calls)>>, <<nested # <<>>, nested>> >>
           rest == Flat(MapSeq(Named, r.apistats))
<1>1. ApiEvents(r) = Upto(FirstCase(cases, rest), MaxApiEvents)
  BY Zenon DEF ApiEvents
<1>2. ASSUME NEW calls, IsList(calls) PROVE IsList(Flat(calls))
  BY <1>2, ListMap DEF MapSeq
<1>3. IsList(r.api_calls) /\ IsList(r.apistats) /\ IsList(r.processes) /\ \A i \in DOMAIN r.processes : IsList(r.processes[i].calls)
  BY ListHas DEF IsCape
<1>4. ASSUME NEW i \in DOMAIN r.processes PROVE IsList(OfProc(r.processes[i]))
  BY <1>3, ListMap DEF MapSeq
<1>5. IsList(MapSeq(Named, r.apistats))
  BY <1>3, ListMap DEF MapSeq
<1>6. IsList(rest)
  BY <1>2, <1>5
<1> HIDE DEF OfProc
<1>7. IsList(nested)
  BY <1>3, <1>4, FlatMap DEF MapSeq
<1>8. IsList(Flat(r.api_calls))
  BY <1>2, <1>3
<1> HIDE DEF Flat, nested, rest
<1>9. IsList(FirstCase(cases, rest))
  <2>1. DOMAIN cases = {1, 2} /\ cases[1][2] = Flat(r.api_calls) /\ cases[2][2] = nested
    OBVIOUS
  <2> HIDE DEF cases
  <2>2. FirstCase(cases, rest) = rest \/ \E i \in DOMAIN cases : FirstCase(cases, rest) = cases[i][2]
    BY <2>1, FirstCaseIs
  <2> QED BY <1>6, <1>7, <1>8, <2>1, <2>2
<1> HIDE DEF cases
<1>10. MaxApiEvents \in Nat
  BY LimitAssumption
<1> QED BY <1>1, <1>9, <1>10, ListUpto

LEMMA ApiSound == ASSUME NEW r, IsCape(r), NEW P PROVE AllSound(ApiItems(r), {"dynamic"}, P)
<1> DEFINE Item(e) == Located(When(By(Cape("api_call", "exec", "api" :> e.call.api, Dict, 70),
                                 Opt("pid", e.proc.pid) @@ Opt("name", e.proc.name)
                                 @@ ("analyzer" :> "windows.cape")), e.call.t),
                         CallLocation(r, e.call, e.proc))
<1>1. PICK events : events = Filter(ApiEvents(r), LAMBDA e : e.call.api # "None") /\ IsList(events)
  BY EventsList, FilterIs DEF Filter
<1>2. ApiItems(r) = MapSeq(Item, events)
  BY <1>1, Zenon DEF ApiItems
<1>3. ASSUME NEW api PROVE Sound(Cape("api_call", "exec", "api" :> api, Dict, 70), {"dynamic"}, P)
                           /\ Runtime(Cape("api_call", "exec", "api" :> api, Dict, 70))
  <2>1. Sound(Cape("api_call", "exec", "api" :> api, Dict, 70), {"dynamic"}, P)
    BY QuietPair, QuietSound, Ratings, PlainDict DEF Cape
  <2> QED BY <2>1, CapeIs
<1>4. ASSUME NEW e PROVE Sound(Item(e), {"dynamic"}, P)
  BY <1>3, PlacedSound
<1> HIDE DEF Item
<1> QED BY <1>1, <1>2, <1>4, SoundMap DEF MapSeq

LEMMA CapeSound == ASSUME NEW r, IsCape(r) PROVE AllSound(NormalizeCape(r), {"dynamic"}, Pids(Range(r.processes)))
<1> DEFINE P == Pids(Range(r.processes))
           Bare(it) == By(it, "analyzer" :> "windows.cape")
           Host(h) == When(Bare(Cape("network", "connect",
                            "kind" :> "domain" @@ "value" :> h.host @@ "host" :> h.host, "ioc" :> "yes", 85)), h.t)
           File(f) == When(Bare(Cape("file", "create", Opt("path", f.name), Dict, 80)), f.t)
           Key(k)  == When(Bare(Cape("registry", "write", Opt("key", k.key), Dict, 75)), k.t)
<1>1. NormalizeCape(r) = ProcessItems(r) \o ApiItems(r) \o MapSeq(Host, r.hosts) \o MapSeq(File, r.dropped) \o MapSeq(Key, r.regkeys)
  BY Zenon DEF NormalizeCape
<1>2. IsList(r.hosts) /\ IsList(r.dropped) /\ IsList(r.regkeys)
  BY DEF IsCape
<1> HIDE DEF P
<1>3. ASSUME NEW artifact, NEW operation, NEW object, Quiet(object), NEW details, Plain(details), NEW conf, Rated(conf), NEW t
      PROVE  Sound(When(Bare(Cape(artifact, operation, object, details, conf)), t), {"dynamic"}, P)
  <2>1. Sound(Cape(artifact, operation, object, details, conf), {"dynamic"}, P)
    BY <1>3, QuietSound, Ratings DEF Cape
  <2> QED BY <2>1, CapeIs, PlacedSound
<1> HIDE DEF Bare
<1>4. ASSUME NEW h PROVE Sound(Host(h), {"dynamic"}, P)
  <2>1. Quiet("kind" :> "domain" @@ "value" :> h.host @@ "host" :> h.host) /\ Plain("ioc" :> "yes")
    BY QuietPair, QuietJoin, PlainPair
  <2> QED BY <1>3, <2>1, Ratings
<1>5. ASSUME NEW f PROVE Sound(File(f), {"dynamic"}, P) /\ Sound(Key(f), {"dynamic"}, P)
  BY <1>3, QuietPair, PlainDict, Ratings
<1> HIDE DEF Host, File, Key
<1>6. AllSound(MapSeq(Host, r.hosts), {"dynamic"}, P)
  BY <1>2, <1>4, SoundMap DEF MapSeq
<1>7. AllSound(MapSeq(File, r.dropped), {"dynamic"}, P) /\ AllSound(MapSeq(Key, r.regkeys), {"dynamic"}, P)
  BY <1>2, <1>5, SoundMap DEF MapSeq
<1>8. AllSound(ProcessItems(r), {"dynamic"}, P) /\ AllSound(ApiItems(r), {"dynamic"}, P)
  BY ProcessSound, ApiSound DEF P
<1> QED BY <1>1, <1>6, <1>7, <1>8, SoundConcat DEF P, MapSeq

LEMMA Vol3Sound ==
    ASSUME NEW artifact, NEW operation, NEW object, NEW details, Plain(details), "status" \notin DOMAIN object,
           "pid" \in DOMAIN object => "hidden" \in DOMAIN object, NEW conf, Rated(conf), NEW P, NEW subject, NEW at
    PROVE  Sound(Located(By(Vol3(artifact, operation, object, details, conf), subject), at), {"memory"}, P)
<1>1. Sound(Vol3(artifact, operation, object, details, conf), {"memory"}, P)
  BY RuntimeSound, Ratings DEF Vol3
<1>2. Runtime(Vol3(artifact, operation, object, details, conf))
  BY DEF Vol3, EvidenceItem, Runtime
<1> QED BY <1>1, <1>2, PlacedSound

LEMMA RowsList == ASSUME NEW s, IsList(s.rows) PROVE IsList(SectionRows(s)) /\ Range(SectionRows(s)) \subseteq Range(s.rows)
<1>1. MaxRows \in Nat
  BY LimitAssumption
<1> QED BY <1>1, ListUpto DEF SectionRows

(* Only the rows of a process list or scan are of processes that started,
   and of these only one with the lower-case column has the tree's key. *)
Naming(s, P) ==
    s.plugin \in {"PsList", "PsScan"} => \A row \in Range(SectionRows(s)) : row.column = "pid" => row.pid \in P

LEMMA RowSound ==
    ASSUME NEW s, IsList(s.rows), \A row \in Range(s.rows) : row.column \in {"PID", "pid"}, NEW P, Naming(s, P)
    PROVE  AllSound(RowItems(s), {"memory"}, P)
<1> DEFINE p == PluginMap(s.plugin)
           Item(row) == Located(By(Vol3(p[1], p[2],
                         Opt(row.column, row.pid) @@ Opt("PPID", row.ppid) @@ Opt("ImageFileName", row.name)
                           @@ Opt("ForeignAddr", row.foreign),
                         ("plugin" :> s.plugin) @@ Opt("attack_hint", p[3]), 80),
                         ("analyzer" :> s.plugin) @@ Opt("pid", row.pid)), RowLocation(row, FALSE))
<1>1. RowItems(s) = MapSeq(Item, SectionRows(s))
  BY Zenon DEF RowItems
<1>2. p[1] = "process" /\ p[2] = "spawn" => s.plugin \in {"PsList", "PsScan"}
  BY DEF PluginMap
<1> HIDE DEF p
<1>3. ASSUME NEW row \in Range(SectionRows(s)) PROVE Sound(Item(row), {"memory"}, P)
  <2>1. PICK rest : rest = Opt("PPID", row.ppid) @@ Opt("ImageFileName", row.name) @@ Opt("ForeignAddr", row.foreign)
                    /\ Quiet(rest)
    BY QuietPair, QuietJoin
  <2>2. PICK object : object = Opt(row.column, row.pid) @@ Opt("PPID", row.ppid) @@ Opt("ImageFileName", row.name)
                                 @@ Opt("ForeignAddr", row.foreign)
    OBVIOUS
  <2>3. row.column \in {"PID", "pid"}
    BY RowsList
  <2>4. \A k : k \in DOMAIN object => \/ k \in DOMAIN Opt(row.column, row.pid)
                                      \/ k \in DOMAIN rest
    BY <2>1, <2>2, JoinKeys
  <2>5. "status" \notin DOMAIN object /\ ("pid" \in DOMAIN object => "pid" \in DOMAIN Opt(row.column, row.pid) /\ row.column = "pid")
    BY <2>1, <2>3, <2>4, OptKeys DEF Quiet
  <2>6. "pid" \in DOMAIN object => object["pid"] = row.pid
    BY <2>2, <2>5, JoinIs, JoinKeys, OptIs
  <2>7. PICK artifact, operation, details : artifact = p[1] /\ operation = p[2]
                                            /\ details = ("plugin" :> s.plugin) @@ Opt("attack_hint", p[3])
    OBVIOUS
  <2>8. Plain(details)
    BY <2>7, PlainPair, PlainJoin
  <2>9. artifact = "process" /\ operation = "spawn" /\ "pid" \in DOMAIN object => object["pid"] \in P
    BY <1>2, <2>5, <2>6, <2>7 DEF Naming
  <2>10. Sound(Vol3(artifact, operation, object, details, 80), {"memory"}, P)
    BY <2>5, <2>8, <2>9, RuntimeSound, Ratings DEF Vol3
  <2>11. Runtime(Vol3(artifact, operation, object, details, 80))
    BY DEF Vol3, EvidenceItem, Runtime
  <2> QED BY <2>2, <2>7, <2>10, <2>11, PlacedSound
<1> HIDE DEF Item
<1>4. \A i \in DOMAIN SectionRows(s) : Sound(Item(SectionRows(s)[i]), {"memory"}, P)
  BY <1>3, RowsList, ListHas
<1> QED BY <1>1, <1>4, RowsList, SoundMap DEF MapSeq

LEMMA HookSound == ASSUME NEW s, IsList(s.rows), NEW P PROVE AllSound(ApiHooks(s), {"memory"}, P)
<1> DEFINE Item(row) == Located(By(Vol3("api_call", "inject",
                         "hooked" :> row.fn @@ "process" :> row.name,
                         "plugin" :> "ApiHooks" @@ "hook" :> "yes"
                           @@ "attack_hint" :> (IF row.fn \in CredHookApis THEN "T1056.004" ELSE "T1055"), 82),
                         "analyzer" :> "windows.apihooks" @@ "process" :> row.name), RowLocation(row, TRUE))
<1>1. ApiHooks(s) = MapSeq(Item, SectionRows(s))
  BY Zenon DEF ApiHooks
<1>2. ASSUME NEW row PROVE Sound(Item(row), {"memory"}, P)
  <2>1. PICK object : object = ("hooked" :> row.fn @@ "process" :> row.name)
    OBVIOUS
  <2>2. Quiet(object)
    BY <2>1, QuietPair, QuietJoin
  <2>3. PICK hint : hint = IF row.fn \in CredHookApis THEN "T1056.004" ELSE "T1055"
    OBVIOUS
  <2>4. PICK details : details = ("plugin" :> "ApiHooks" @@ "hook" :> "yes" @@ "attack_hint" :> hint)
    OBVIOUS
  <2>5. Plain(details)
    BY <2>4, PlainPair, PlainJoin
  <2> QED BY <2>1, <2>2, <2>3, <2>4, <2>5, Vol3Sound, Ratings, ZenonT(40) DEF Quiet
<1> HIDE DEF Item
<1> QED BY <1>1, <1>2, RowsList, SoundMap DEF MapSeq

LEMMA ConfigSound == ASSUME NEW s, IsList(s.rows), NEW P PROVE AllSound(ExtractedConfig(s), {"memory"}, P)
<1> DEFINE Carved(artifact, operation, object, details, conf, row) ==
            Located(By(Vol3(artifact, operation, object,
                          details @@ "memory_extracted" :> "yes" @@ "plugin" :> "config_extract", conf),
                     "analyzer" :> "memory.config"
                       @@ Opt("pid", IF row.column = "PID" THEN row.pid ELSE "None")), RowLocation(row, FALSE))
           Item(row) ==
            CASE row.kind = "c2"  -> Carved("network", "connect", "kind" :> "url" @@ "value" :> row.value
                                            @@ "host" :> row.value, "ioc" :> "yes", 86, row)
              [] row.kind = "key" -> Carved("string", "decode", "layer" :> "memory"
                                            @@ "key_material" :> row.value, Dict, 80, row)
              [] row.kind = "ransom" -> Carved("file", "write", "capability" :> "ransomware"
                                            @@ "encrypted_count" :> row.value, Dict, 90, row)
           I == {i \in DOMAIN SectionRows(s) : SectionRows(s)[i].kind \in {"c2", "key", "ransom"} /\ SectionRows(s)[i].value # "None"}
<1>1. PICK rows : rows = Picked(SectionRows(s), I)
  OBVIOUS
<1>2. ExtractedConfig(s) = MapSeq(Item, rows)
  BY <1>1, Zenon DEF ExtractedConfig, Filter
<1>3. IsList(rows) /\ \A i \in DOMAIN rows : rows[i].kind \in {"c2", "key", "ransom"}
  <2>1. IsList(rows) /\ Range(rows) = {SectionRows(s)[i] : i \in I \cap DOMAIN SectionRows(s)}
    <3> HIDE DEF I
    <3> QED BY <1>1, RowsList, ListPicked
  <2>2. \A x \in Range(rows) : x.kind \in {"c2", "key", "ransom"}
    BY <2>1
  <2> QED BY <2>1, <2>2, ListHas
<1> HIDE DEF I
<1>4. ASSUME NEW artifact, NEW operation, NEW object, Quiet(object), NEW details, Plain(details), NEW conf, Rated(conf), NEW row
      PROVE  Sound(Carved(artifact, operation, object, details, conf, row), {"memory"}, P)
  <2>1. PICK more : more = details @@ "memory_extracted" :> "yes" @@ "plugin" :> "config_extract"
    OBVIOUS
  <2>2. Plain("memory_extracted" :> "yes") /\ Plain("plugin" :> "config_extract")
    BY PlainPair
  <2>3. Plain(more)
    BY <1>4, <2>1, <2>2, PlainJoin
  <2> QED BY <1>4, <2>1, <2>3, Vol3Sound, Ratings DEF Quiet
<1> HIDE DEF Carved
<1>5. ASSUME NEW row PROVE /\ Quiet("kind" :> "url" @@ "value" :> row.value @@ "host" :> row.value)
                           /\ Quiet("layer" :> "memory" @@ "key_material" :> row.value)
                           /\ Quiet("capability" :> "ransomware" @@ "encrypted_count" :> row.value)
  BY QuietPair, QuietJoin
<1>6. Plain("ioc" :> "yes") /\ Plain(Dict)
  BY PlainPair, PlainDict
<1>7. ASSUME NEW row, row.kind \in {"c2", "key", "ransom"} PROVE Sound(Item(row), {"memory"}, P)
  <2>1. CASE row.kind = "c2"
    BY <1>4, <1>5, <1>6, <2>1, Ratings
  <2>2. CASE row.kind = "key"
    BY <1>4, <1>5, <1>6, <2>2, Ratings
  <2>3. CASE row.kind = "ransom"
    BY <1>4, <1>5, <1>6, <2>3, Ratings
  <2> QED BY <1>7, <2>1, <2>2, <2>3
<1> HIDE DEF Item
<1> QED BY <1>2, <1>3, <1>7, SoundMap DEF MapSeq

LEMMA SectionsList == ASSUME NEW sections, IsMemory(sections), NEW plugin PROVE IsList(RowsOf(sections, plugin))
<1>1. PICK those : those = Filter(sections, LAMBDA s : s.plugin = plugin) /\ IsList(those) /\ Range(those) \subseteq Range(sections)
  BY FilterIs DEF Filter, IsMemory
<1>2. ASSUME NEW i \in DOMAIN those PROVE IsList(SectionRows(those[i]))
  <2>1. IsList(those[i].rows)
    BY <1>1, ListHas DEF IsMemory
  <2> QED BY <2>1, RowsList
<1> QED BY <1>1, <1>2, FlatMap DEF RowsOf, MapSeq

LEMMA HiddenFinite == ASSUME NEW sections, IsMemory(sections) PROVE IsFiniteSet(HiddenPids(sections))
<1>1. PICK rows : rows = RowsOf(sections, "PsScan") /\ IsList(rows)
  BY SectionsList
<1>2. PICK of : of = [i \in DOMAIN rows |-> rows[i].pid]
  OBVIOUS
<1>3. IsFiniteSet(Range(of))
  <2>1. IsList(of)
    BY <1>1, <1>2, ListMap
  <2> QED BY <2>1, ListFinite
<1>4. HiddenPids(sections) \subseteq Range(of)
  BY <1>1, <1>2 DEF HiddenPids, PidsOf, Range
<1> QED BY <1>3, <1>4, FS_Subset

LEMMA UnlinkedSound == ASSUME NEW sections, IsMemory(sections), NEW P PROVE AllSound(HiddenProcesses(sections), {"memory"}, P)
<1> DEFINE scanned == RowsOf(sections, "PsScan")
           Last2(p) == scanned[Max({i \in DOMAIN scanned : scanned[i].pid = p})]
           Item(p) == Located(By(Vol3("process", "spawn",
                       "pid" :> p @@ "name" :> Last2(p).name @@ "hidden" :> "yes",
                       "plugin" :> "PsScan" @@ "hidden" :> "yes" @@ "attack_hint" :> "T1014", 85),
                       "analyzer" :> "psscan vs pslist" @@ Opt("pid", Last2(p).ppid)), "pid" :> p)
<1>1. HiddenProcesses(sections) = MapSeq(Item, ListOf(HiddenPids(sections)))
  BY Zenon DEF HiddenProcesses
<1> HIDE DEF scanned, Last2
<1>2. ASSUME NEW p PROVE Sound(Item(p), {"memory"}, P)
  <2>1. PICK name : name = Last2(p).name
    OBVIOUS
  <2>2. PICK object : object = ("pid" :> p @@ "name" :> name @@ "hidden" :> "yes")
    OBVIOUS
  <2>3. "status" \notin DOMAIN object /\ "hidden" \in DOMAIN object
    BY <2>2, JoinKeys, PairKeys
  <2>4. PICK details : details = ("plugin" :> "PsScan" @@ "hidden" :> "yes" @@ "attack_hint" :> "T1014")
    OBVIOUS
  <2>5. Plain(details)
    BY <2>4, PlainPair, PlainJoin
  <2> QED BY <2>1, <2>2, <2>3, <2>4, <2>5, Vol3Sound, Ratings
<1> HIDE DEF Item
<1>3. IsList(ListOf(HiddenPids(sections)))
  BY HiddenFinite, ListOfIs
<1> QED BY <1>1, <1>2, <1>3, SoundMap DEF MapSeq

LEMMA MemorySound ==
    ASSUME NEW sections, IsMemory(sections), NEW P, \A s \in Range(sections) : Naming(s, P)
    PROVE  AllSound(NormalizeMemory(sections), {"memory"}, P)
<1>1. ASSUME NEW i \in DOMAIN sections PROVE AllSound(SectionItems(sections[i]), {"memory"}, P)
  <2>1. IsList(sections[i].rows) /\ Naming(sections[i], P) /\ \A row \in Range(sections[i].rows) : row.column \in {"PID", "pid"}
    BY ListHas DEF IsMemory
  <2> QED BY <2>1, HookSound, ConfigSound, RowSound DEF SectionItems
<1>2. AllSound(Flatten(MapSeq(SectionItems, sections)), {"memory"}, P)
  BY <1>1, ListsMap, SoundFlat DEF MapSeq, IsMemory
<1> QED BY <1>2, UnlinkedSound, SoundConcat DEF NormalizeMemory
LEMMA TraceSound ==
    ASSUME NEW trace, IsList(trace.lines), trace.kind \in {"linux", "php", "shell"}, NEW P
    PROVE  AllSound(NormalizeTrace(trace), {"dynamic", "memory", "enrich"}, P)
<1> DEFINE L == {"dynamic", "memory", "enrich"}
           Call(l) == By(EvidenceItem("dynamic", "linux", SyscallMap[l.call][1], SyscallMap[l.call][2],
                                      "syscall" :> l.call @@ Opt("args", l.token), Dict, 80),
                         "analyzer" :> "dynamic.linux" @@ "pid" :> "unknown")
           Php(l) == By(EvidenceItem("dynamic", "php", "api_call", "exec", "function" :> l.call, Opt("args", l.token), 90),
                        "analyzer" :> "dynamic.php" @@ "pid" :> "php")
           Shell(l) == By(EvidenceItem("dynamic", "script", "process", "spawn",
                                       "command" :> l.call @@ Opt("args", l.token), Dict, 85),
                          "analyzer" :> "dynamic.script" @@ "pid" :> "shell")
<1>1. PICK calls : calls = Filter(trace.lines, LAMBDA l : l.call \in DOMAIN SyscallMap) /\ IsList(calls)
  BY FilterIs DEF Filter
<1>2. PICK lines : lines = Filter(trace.lines, LAMBDA l : l.call # "None") /\ IsList(lines)
  BY FilterIs DEF Filter
<1>3. NormalizeStrace(trace.lines) = MapSeq(Call, calls)
  BY <1>1, Zenon DEF NormalizeStrace
<1>4. NormalizePhpTrace(trace.lines) = MapSeq(Php, lines) /\ NormalizeShellTrace(trace.lines) = MapSeq(Shell, lines)
  BY <1>2, Zenon DEF NormalizePhpTrace, NormalizeShellTrace
<1>5. ASSUME NEW tool, NEW artifact, NEW operation, NEW object, Quiet(object), NEW details, Plain(details), NEW conf, Rated(conf), NEW subject
      PROVE  Sound(By(EvidenceItem("dynamic", tool, artifact, operation, object, details, conf), subject), L, P)
  BY <1>5, QuietSound, Ratings, BySound
<1>6. ASSUME NEW l PROVE Sound(Call(l), L, P)
  <2>1. Quiet("syscall" :> l.call @@ Opt("args", l.token))
    BY QuietPair, QuietJoin
  <2> QED BY <1>5, <2>1, PlainDict, Ratings
<1>7. ASSUME NEW l PROVE Sound(Php(l), L, P)
  BY <1>5, QuietPair, PlainPair, Ratings
<1>8. ASSUME NEW l PROVE Sound(Shell(l), L, P)
  <2>1. Quiet("command" :> l.call @@ Opt("args", l.token))
    BY QuietPair, QuietJoin
  <2> QED BY <1>5, <2>1, PlainDict, Ratings
<1> HIDE DEF Call, Php, Shell
<1>9. AllSound(MapSeq(Call, calls), L, P)
  BY <1>1, <1>6, SoundMap DEF MapSeq
<1>10. AllSound(MapSeq(Php, lines), L, P) /\ AllSound(MapSeq(Shell, lines), L, P)
  BY <1>2, <1>7, <1>8, SoundMap DEF MapSeq
<1> QED BY <1>3, <1>4, <1>9, <1>10 DEF NormalizeTrace, MapSeq

LEMMA CanarySound ==
    ASSUME NEW items, NEW canaries, IsList(canaries), NEW P
    PROVE  AllSound(DetectCanaries(items, canaries), {"dynamic", "memory", "enrich"}, P)
<1> DEFINE L == {"dynamic", "memory", "enrich"}
           Seeing(c) == {i \in DOMAIN items : c.token \in Range(items[i].object) \union Range(items[i].details)}
           Item(c) == By(EvidenceItem("enrich", "canary", "file", "read", "canary_kind" :> c.kind,
                         "canary_kind" :> c.kind,
                         IF c.kind = "browser_history" THEN 90 ELSE 95), "analyzer" :> "enrich.canary")
<1>1. PICK seen : seen = Filter(canaries, LAMBDA c : Seeing(c) # {}) /\ IsList(seen)
  BY FilterIs DEF Filter
<1>2. DetectCanaries(items, canaries) = MapSeq(Item, seen)
  BY <1>1, Zenon DEF DetectCanaries
<1>3. ASSUME NEW c PROVE Sound(Item(c), L, P)
  <2>1. ASSUME NEW conf, Rated(conf) PROVE Sound(EvidenceItem("enrich", "canary", "file", "read", "canary_kind" :> c.kind, "canary_kind" :> c.kind, conf), L, P)
    BY <2>1, QuietPair, PlainPair, QuietSound
  <2> QED BY <2>1, BySound, Ratings
<1> HIDE DEF Item
<1> QED BY <1>1, <1>2, <1>3, SoundMap DEF MapSeq

LEMMA DiffSound ==
    ASSUME NEW before, NEW after, IsList(after), NEW f, NEW rows, rows = DiffProcesses(before, after),
           f = [i \in DOMAIN rows |-> EvidenceItem("memory", "diffsnap", "process", "spawn",
                                                    "pid" :> rows[i].pid @@ "name" :> rows[i].name, Dict, 70)]
    PROVE  AllSound(KeptSeq(f), {"dynamic", "memory", "enrich"}, Pids(Range(after)))
<1>1. IsList(rows) /\ Range(rows) \subseteq Range(after)
  BY FilterIs DEF DiffProcesses, Filter
<1>2. ASSUME NEW i \in DOMAIN rows PROVE Sound(f[i], {"dynamic", "memory", "enrich"}, Pids(Range(after)))
  <2>1. rows[i].pid \in Pids(Range(after))
    BY <1>1, ListHas DEF Pids
  <2>2. PICK object : object = ("pid" :> rows[i].pid @@ "name" :> rows[i].name)
    OBVIOUS
  <2>3. "status" \notin DOMAIN object
    BY <2>2, JoinKeys, PairKeys
  <2>4. object["pid"] = rows[i].pid
    BY <2>2, JoinIs, PairKeys, PairIs
  <2>5. Sound(EvidenceItem("memory", "diffsnap", "process", "spawn", object, Dict, 70), {"dynamic", "memory", "enrich"}, Pids(Range(after)))
    BY <2>1, <2>3, <2>4, RuntimeSound, Ratings, PlainDict
  <2> QED BY <2>2, <2>5
<1>3. f = [i \in DOMAIN rows |-> f[i]]
  OBVIOUS
<1> QED BY <1>1, <1>2, <1>3, SoundMap

LEMMA RuntimeReportSound ==
    ASSUME NEW r, IsRuntime(r), ~RuntimeRefused(r)
    PROVE  AllSound(NormalizeRuntime(r), {"dynamic", "memory", "enrich"}, Pids(Range(r.after)))
<1> DEFINE L == {"dynamic", "memory", "enrich"}
           P == Pids(Range(r.after))
           Branch(row) == Located(EvidenceItem("dynamic", "cpu_trace", "instruction", "branch",
                                          "target" :> row.target, Dict, 80),
                             "instruction_address" :> row.address @@ Opt("module", row.module))
           New(p) == EvidenceItem("memory", "diffsnap", "process", "spawn", "pid" :> p.pid @@ "name" :> p.name, Dict, 70)
           items == Flatten(MapSeq(NormalizeTrace, r.traces)) \o MapSeq(Branch, r.cpu)
                    \o MapSeq(New, DiffProcesses(r.before, r.after))
<1>1. NormalizeRuntime(r) = items \o DetectCanaries(Extend(<<>>, items), r.canaries)
  BY Zenon DEF NormalizeRuntime
<1>2. IsList(r.traces) /\ IsList(r.cpu) /\ IsList(r.after) /\ IsList(r.canaries)
  BY DEF IsRuntime
<1>3. AllSound(Flatten(MapSeq(NormalizeTrace, r.traces)), L, P)
  <2>1. ASSUME NEW i \in DOMAIN r.traces PROVE AllSound(NormalizeTrace(r.traces[i]), L, P)
    <3>1. IsList(r.traces[i].lines) /\ r.traces[i].kind \in {"linux", "php", "shell"}
      BY <1>2, ListHas DEF IsRuntime, RuntimeRefused
    <3> QED BY <3>1, TraceSound
  <2> HIDE DEF L, P
  <2> QED BY <1>2, <2>1, ListsMap, SoundFlat DEF MapSeq
<1>4. AllSound(MapSeq(New, DiffProcesses(r.before, r.after)), L, P)
  BY <1>2, DiffSound DEF MapSeq
<1>5. ASSUME NEW row PROVE Sound(Branch(row), L, P)
  <2>1. Sound(EvidenceItem("dynamic", "cpu_trace", "instruction", "branch", "target" :> row.target, Dict, 80), L, P)
    BY QuietPair, QuietSound, Ratings, PlainDict
  <2>2. Runtime(EvidenceItem("dynamic", "cpu_trace", "instruction", "branch", "target" :> row.target, Dict, 80))
    BY DEF EvidenceItem, Runtime
  <2> QED BY <2>1, <2>2, PlacedSound
<1> HIDE DEF Branch, New
<1>6. AllSound(MapSeq(Branch, r.cpu), L, P)
  <2> HIDE DEF L, P
  <2> QED BY <1>2, <1>5, SoundMap DEF MapSeq
<1>7. AllSound(DetectCanaries(Extend(<<>>, items), r.canaries), L, P)
  <2> HIDE DEF items
  <2> QED BY <1>2, CanarySound
<1>8. AllSound(items, L, P)
  <2> HIDE DEF L, P
  <2> QED BY <1>3, <1>4, <1>6, SoundConcat DEF MapSeq
<1> HIDE DEF items
<1> QED BY <1>1, <1>7, <1>8, SoundConcat

LEMMA EnrichSound ==
    ASSUME NEW items, IsList(items), NEW snapshot, IsFiniteSet(snapshot.indicators), \A r \in snapshot.indicators : r.conf \in Nat, NEW P
    PROVE  AllSound(EnrichSnapshot(items, snapshot), {"enrich"}, P)
<1> DEFINE L == {"enrich"}
           Known(it) == {r \in snapshot.indicators : Is(it.object, "kind", r.kind) /\ Is(it.object, "value", r.value)}
           Worth(r) == LET c == IF r.conf > 80 THEN 80 ELSE r.conf IN IF snapshot.stale THEN c \div 2 ELSE c
           Item(r) == EvidenceItem("enrich", "intelligence", "indicator", "lookup",
                                "kind" :> r.kind @@ "value" :> r.value,
                                Opt("stale", IF snapshot.stale THEN "yes" ELSE "None"), Worth(r))
<1>1. EnrichSnapshot(items, snapshot) = Flatten(MapSeq(LAMBDA it : MapSeq(Item, ListOf(Known(it))), items))
  BY Zenon DEF EnrichSnapshot
<1>6. ASSUME NEW r \in snapshot.indicators PROVE Rated(Worth(r))
  <2>1. PICK n \in Nat : n = r.conf
    OBVIOUS
  <2> QED BY <2>1 DEF Rated
<1> HIDE DEF Worth
<1>2. ASSUME NEW r \in snapshot.indicators PROVE Sound(Item(r), L, P)
  <2>1. Quiet("kind" :> r.kind @@ "value" :> r.value)
    BY QuietPair, QuietJoin
  <2>2. ASSUME NEW v PROVE Plain(Opt("stale", v))
    BY PlainPair
  <2> QED BY <1>6, <2>1, <2>2, QuietSound
<1> HIDE DEF Item
<1>3. ASSUME NEW it
      PROVE  IsList(ListOf(Known(it))) /\ \A i \in DOMAIN ListOf(Known(it)) : ListOf(Known(it))[i] \in snapshot.indicators
  <2>1. IsFiniteSet(Known(it))
    BY FS_Subset
  <2>2. PICK those : those = ListOf(Known(it)) /\ IsList(those) /\ Range(those) = Known(it)
    BY <2>1, ListOfIs
  <2>3. \A i \in DOMAIN those : those[i] \in snapshot.indicators
    BY <2>2, ListHas
  <2> QED BY <2>2, <2>3
<1> HIDE DEF Known, L
<1>4. ASSUME NEW it PROVE AllSound(MapSeq(Item, ListOf(Known(it))), L, P)
  BY <1>2, <1>3, SoundMap DEF MapSeq
<1>5. AllSound(Flatten(MapSeq(LAMBDA it : MapSeq(Item, ListOf(Known(it))), items)), L, P)
  BY <1>4, ListsMap, SoundFlat DEF MapSeq
<1> QED BY <1>1, <1>5 DEF L

-----------------------------------------------------------------------------
(* The score. *)
ThreeStandings == {"speculative", "inferred", "observed"}

LEMMA RankIs == /\ StandingRank("speculative") = 1 /\ StandingRank("inferred") = 2 /\ StandingRank("observed") = 3
<1>1. \A i \in 1..3 : i = 1 \/ i = 2 \/ i = 3
  OBVIOUS
<1>2. Standings[1] = "speculative" /\ Standings[2] = "inferred" /\ Standings[3] = "observed"
  BY DEF Standings
<1> QED BY <1>1, <1>2 DEF StandingRank

LEMMA StrongestIs ==
    ASSUME NEW S, S \subseteq ThreeStandings
    PROVE  /\ Strongest(S) \in ThreeStandings /\ (S # {} => Strongest(S) \in S)
           /\ \A r \in S : StandingRank(r) <= StandingRank(Strongest(S))
<1>1. CASE S = {}
  BY <1>1 DEF Strongest, ThreeStandings
<1>2. CASE S # {}
  <2>1. \E s \in S : \A r \in S : StandingRank(r) <= StandingRank(s)
    <3>1. CASE "observed" \in S
      BY <3>1, RankIs DEF ThreeStandings
    <3>2. CASE "observed" \notin S /\ "inferred" \in S
      BY <3>2, RankIs DEF ThreeStandings
    <3>3. CASE "observed" \notin S /\ "inferred" \notin S
      <4>1. S = {"speculative"}
        BY <1>2, <3>3 DEF ThreeStandings
      <4>2. StandingRank("speculative") <= StandingRank("speculative")
        BY RankIs
      <4> QED BY <4>1, <4>2, Zenon
    <3> QED BY <3>1, <3>2, <3>3
  <2>2. Strongest(S) = CHOOSE s \in S : \A r \in S : StandingRank(r) <= StandingRank(s)
    BY <1>2 DEF Strongest
  <2> QED BY <2>1, <2>2 DEF ThreeStandings
<1> QED BY <1>1, <1>2

(* The mappings of a list of evidence, whatever it holds. *)
Standing3(map) == \A t \in DOMAIN map : map[t].status \in ThreeStandings

LEMMA MapStanding == ASSUME NEW s PROVE Standing3(MapEvidence(s))
<1>1. \A it : ProvenanceOf(it) \in ThreeStandings
  BY DEF ProvenanceOf, ThreeStandings
<1>2. ASSUME NEW I PROVE Strongest({ProvenanceOf(s[i]) : i \in I}) \in ThreeStandings
  <2>1. {ProvenanceOf(s[i]) : i \in I} \subseteq ThreeStandings
    BY <1>1
  <2> QED BY <2>1, StrongestIs
<1> QED BY <1>2 DEF MapEvidence, Standing3

LEMMA PointsIs ==
    ASSUME NEW map, Standing3(map), NEW axis \in DOMAIN AxisWeights
    PROVE  Points(axis, map) \in Nat /\ Points(axis, map) >= 5
<1>1. AxisWeights[axis] \in {9, 10, 11, 14, 16, 24, 40}
  BY DEF AxisWeights
<1>2. ASSUME axis \notin {"technique", "family"}
      PROVE  Strongest({map[t].status : t \in Anchors(axis, map)}) \in ThreeStandings
  <2>1. Anchors(axis, map) \subseteq DOMAIN map
    BY <1>2 DEF Anchors, AxisWeights, OfTactic
  <2>2. {map[t].status : t \in Anchors(axis, map)} \subseteq ThreeStandings
    BY <2>1 DEF Standing3
  <2> QED BY <2>2, StrongestIs
<1>3. \A s \in ThreeStandings : StandingFactor[s] \in {60, 100, 115}
  BY DEF StandingFactor, ThreeStandings
<1>4. \A w \in {9, 10, 11, 14, 16, 24, 40}, f \in {60, 100, 115} : (w * f + 50) \div 100 \in Nat /\ (w * f + 50) \div 100 >= 5
  OBVIOUS
<1>5. CASE axis \in {"technique", "family"}
  BY <1>1, <1>5 DEF Points
<1>6. CASE axis \notin {"technique", "family"}
  <2>1. PICK st \in ThreeStandings : st = Strongest({map[t].status : t \in Anchors(axis, map)})
    BY <1>2, <1>6
  <2>2. Points(axis, map) = (AxisWeights[axis] * StandingFactor[st] + 50) \div 100
    BY <1>6, <2>1 DEF Points
  <2> QED BY <1>1, <1>3, <1>4, <2>2
<1> QED BY <1>5, <1>6

LEMMA CompressedIs == ASSUME NEW raw PROVE Compressed(raw) \in 80..100
<1>0. \A n \in Nat : IsFiniteSet(1..n) /\ Cardinality(1..n) = n
  BY FS_Interval
<1>1. PICK n \in Nat : n = 20
  OBVIOUS
<1>2. PICK S : S = {i \in DOMAIN Steps : Steps[i] <= raw}
  OBVIOUS
<1>3. DOMAIN Steps = 1..n
  BY <1>1 DEF Steps
<1>4. IsFiniteSet(1..n) /\ Cardinality(1..n) = n
  BY <1>0
<1>5. IsFiniteSet(S) /\ Cardinality(S) \in Nat /\ Cardinality(S) <= n
  BY <1>2, <1>3, <1>4, FS_Subset, FS_CardinalityType
<1>6. Compressed(raw) = 80 + Cardinality(S)
  BY <1>2 DEF Compressed, Knee
<1> QED BY <1>1, <1>5, <1>6

LEMMA PresentIs == ASSUME NEW facts, NEW map PROVE Present(facts, map) \subseteq DOMAIN AxisWeights /\ IsFiniteSet(DOMAIN AxisWeights)
<1>1. Present(facts, map) \subseteq DOMAIN AxisWeights
  BY DEF Present, AxisWeights
<1>2. PICK keys : keys = <<"technique", "ransomware", "inhibit_recovery", "webshell", "injection", "credential_access",
             "persistence", "c2", "exec_sinks", "discovery", "evasion", "obfuscation", "collection", "family">>
  OBVIOUS
<1>3. keys \in Seq(DOMAIN AxisWeights) /\ Range(keys) = DOMAIN AxisWeights
  BY <1>2 DEF AxisWeights, Range
<1> QED BY <1>1, <1>3, ListIs, ListFinite

(* What is taken off, told as a factor of its own, keeps the sum right. *)
IsTable(p) == p = [a \in DOMAIN p |-> p[a]] /\ IsFiniteSet(DOMAIN p) /\ \A a \in DOMAIN p : p[a] \in Int

LEMMA TableIs == ASSUME NEW S, NEW f, f = [a \in S |-> f[a]], IsFiniteSet(S), \A a \in S : f[a] \in Int PROVE IsTable(f)
<1>1. S = DOMAIN f
  OBVIOUS
<1>2. f = [a \in DOMAIN f |-> f[a]]
  BY <1>1
<1> QED BY <1>1, <1>2, Zenon DEF IsTable

LEMMA MoreAdds ==
    ASSUME NEW p, IsTable(p), NEW k, k \notin DOMAIN p, NEW n \in Int
    PROVE  /\ SumFunction(p @@ (k :> n)) = SumFunction(p) + n /\ IsTable(p @@ (k :> n))
           /\ DOMAIN (p @@ (k :> n)) = DOMAIN p \union {k}
<1>1. PICK e : e = (k :> n)
  OBVIOUS
<1>2. DOMAIN (k :> n) = {k}
  BY PairKeys
<1>3. (k :> n)[k] = n
  BY PairIs
<1>4. PICK q : q = p @@ e
  OBVIOUS
<1>5. q = Merged(p, e)
  BY <1>4 DEF @@
<1>6. DOMAIN q = DOMAIN p \union {k} /\ q[k] = n /\ (\A a \in DOMAIN p : q[a] = p[a]) /\ q = [a \in DOMAIN q |-> q[a]]
  BY <1>1, <1>2, <1>3, <1>5 DEF Merged
<1>7. SumFunction(q) = SumFunction(p) + q[k]
  BY <1>6, SumAdd DEF IsTable
<1>8. IsFiniteSet(DOMAIN q)
  BY <1>6, FS_AddElement DEF IsTable
<1>9. \A a \in DOMAIN q : q[a] \in Int
  BY <1>6 DEF IsTable
<1>10. IsTable(q)
  BY <1>6, <1>8, <1>9, Zenon DEF IsTable
<1> QED BY <1>1, <1>4, <1>6, <1>7, <1>10

LEMMA NoMore == ASSUME NEW p, IsTable(p) PROVE p @@ Dict = p
<1>1. Merged(p, Dict) = [a \in DOMAIN p |-> p[a]]
  BY DEF Merged, Dict
<1> QED BY <1>1 DEF @@, IsTable

CompOf(raw) == IF raw > Knee THEN Compressed(raw) ELSE raw

LEMMA CompIs == ASSUME NEW raw \in Nat PROVE CompOf(raw) \in 0..100 /\ (raw >= 5 => CompOf(raw) >= 5)
  BY CompressedIs DEF CompOf, Knee

LEMMA ShrunkAdds ==
    ASSUME NEW p, IsTable(p), "diminishing" \notin DOMAIN p, SumFunction(p) \in Nat,
           NEW q, q = p @@ Diminishing(SumFunction(p))
    PROVE  SumFunction(q) = CompOf(SumFunction(p)) /\ IsTable(q) /\ DOMAIN q \subseteq DOMAIN p \union {"diminishing"}
<1>0. PICK raw \in Nat : raw = SumFunction(p)
  OBVIOUS
<1>1. CASE raw > Knee
  <2>1. PICK n \in Int : n = Compressed(raw) - raw
    BY CompressedIs
  <2>2. q = p @@ ("diminishing" :> n) /\ CompOf(raw) = Compressed(raw)
    BY <1>0, <1>1, <2>1 DEF Diminishing, CompOf
  <2>3. SumFunction(q) = raw + n /\ IsTable(q) /\ DOMAIN q = DOMAIN p \union {"diminishing"}
    <3>1. SumFunction(p @@ ("diminishing" :> n)) = SumFunction(p) + n /\ IsTable(p @@ ("diminishing" :> n))
          /\ DOMAIN (p @@ ("diminishing" :> n)) = DOMAIN p \union {"diminishing"}
      BY MoreAdds
    <3> QED BY <1>0, <2>2, <3>1, Zenon
  <2>4. raw + n = Compressed(raw)
    BY <2>1, CompressedIs
  <2> QED BY <1>0, <2>2, <2>3, <2>4
<1>2. CASE ~(raw > Knee)
  <2>1. Diminishing(raw) = Dict /\ CompOf(raw) = raw
    BY <1>2 DEF Diminishing, CompOf
  <2>2. q = p
    <3>1. q = p @@ Dict
      BY <1>0, <2>1, Zenon
    <3> QED BY <3>1, NoMore
  <2> QED BY <1>0, <2>1, <2>2
<1> QED BY <1>1, <1>2

(* A score that is no lower than four is lowered by four. *)
LEMMA LoweredIs == ASSUME NEW comp \in 0..100
                   PROVE  /\ comp >= 5 => Max({0, Min({96, comp - 4})}) = comp + (-4) /\ comp + (-4) \in 0..100
                          /\ Min({100, comp}) = comp
<1>1. Min({100, comp}) = comp
  BY DEF Min
<1>2. ASSUME comp >= 5 PROVE Max({0, Min({96, comp - 4})}) = comp + (-4) /\ comp + (-4) \in 0..100
  <2>1. PICK c \in 0..96 : c = comp - 4 /\ c = comp + (-4)
    BY <1>2
  <2>2. Min({96, c}) = c
    BY DEF Min
  <2>3. Max({0, c}) = c
    BY DEF Max
  <2> QED BY <2>1, <2>2, <2>3
<1> QED BY <1>1, <1>2

LEMMA ScoreAdds ==
    ASSUME NEW facts, NEW map, Standing3(map)
    PROVE  LET m == Maliciousness(facts, map) IN m.score \in 0..100 /\ SumFunction(m.factors) = m.score
<1>1. PICK axes, seen : axes = Present(facts, map) /\ seen = \E i \in DOMAIN facts : Runtime(facts[i])
  OBVIOUS
<1>2. PICK points : points = [a \in axes |-> Points(a, map)]
  OBVIOUS
<1>3. PICK raw : raw = SumFunction(points)
  OBVIOUS
<1>4. PICK comp : comp = (IF raw > Knee THEN Compressed(raw) ELSE raw)
  OBVIOUS
<1>5. PICK table, score :
         /\ table = points @@ Diminishing(raw) @@ (IF ~seen /\ axes # {} THEN "static only" :> -4 ELSE Dict)
         /\ score = (IF ~seen /\ axes # {} THEN Max({0, Min({96, comp - 4})}) ELSE Min({100, comp}))
  OBVIOUS
<1>6. Maliciousness(facts, map) = [factors |-> table, score |-> score]
  BY <1>1, <1>2, <1>3, <1>4, <1>5, Zenon DEF Maliciousness
<1>7. IsFiniteSet(axes) /\ "diminishing" \notin axes /\ "static only" \notin axes
  <2>1. "diminishing" \notin DOMAIN AxisWeights /\ "static only" \notin DOMAIN AxisWeights
    BY DEF AxisWeights
  <2> QED BY <1>1, <2>1, PresentIs, FS_Subset
<1>8. \A a \in axes : points[a] \in Nat /\ points[a] >= 5
  BY <1>1, <1>2, PresentIs, PointsIs
<1>9. DOMAIN points = axes /\ points = [a \in DOMAIN points |-> points[a]]
  BY <1>2
<1>10. raw \in Nat /\ (axes # {} => raw >= 5)
  <2>1. raw \in Nat /\ \A a \in axes : points[a] <= raw
    BY <1>3, <1>7, <1>8, <1>9, SumNat
  <2> QED BY <1>8, <2>1
<1>11. PICK shrunk : shrunk = points @@ Diminishing(raw)
  OBVIOUS
<1>12. comp = CompOf(raw) /\ comp \in 0..100 /\ (axes # {} => comp >= 5)
  BY <1>4, <1>10, CompIs, Zenon DEF CompOf
<1>13. SumFunction(shrunk) = comp /\ IsTable(shrunk) /\ "static only" \notin DOMAIN shrunk
  <2>0. points = [a \in axes |-> points[a]] /\ \A a \in axes : points[a] \in Int
    BY <1>2, <1>8
  <2>1. IsTable(points)
    BY <1>7, <2>0, TableIs
  <2>2. SumFunction(shrunk) = CompOf(SumFunction(points)) /\ IsTable(shrunk) /\ DOMAIN shrunk \subseteq axes \union {"diminishing"}
    <3>1. shrunk = points @@ Diminishing(SumFunction(points)) /\ "diminishing" \notin DOMAIN points /\ SumFunction(points) \in Nat
      BY <1>3, <1>7, <1>9, <1>10, <1>11, Zenon
    <3> QED BY <1>9, <2>1, <3>1, ShrunkAdds
  <2> QED BY <1>3, <1>7, <1>12, <2>2
<1>14. ASSUME ~seen /\ axes # {} PROVE score \in 0..100 /\ SumFunction(table) = score
  <2>1. PICK n \in Int : n = -4
    OBVIOUS
  <2>2. table = shrunk @@ ("static only" :> n) /\ score = Max({0, Min({96, comp - 4})})
    BY <1>5, <1>11, <1>14, <2>1, Zenon
  <2>3. SumFunction(table) = comp + n
    BY <1>13, <2>2, MoreAdds
  <2>4. Max({0, Min({96, comp - 4})}) = comp + n /\ comp + n \in 0..100
    BY <1>12, <1>14, <2>1, LoweredIs
  <2> QED BY <2>2, <2>3, <2>4, Zenon
<1>15. ASSUME ~(~seen /\ axes # {}) PROVE score \in 0..100 /\ SumFunction(table) = score
  <2>1. table = shrunk @@ Dict /\ score = Min({100, comp})
    BY <1>5, <1>11, <1>15, Zenon
  <2>2. table = shrunk
    BY <1>13, <2>1, NoMore, Zenon
  <2> QED BY <1>12, <1>13, <2>1, <2>2, LoweredIs, Zenon
<1>16. score \in 0..100 /\ SumFunction(table) = score
  BY <1>14, <1>15, Zenon
<1>17. Maliciousness(facts, map).score = score /\ Maliciousness(facts, map).factors = table
  BY <1>6
<1> QED BY <1>16, <1>17, Zenon

LEMMA SummaryScore ==
    ASSUME NEW s, NEW map, NEW phases, NEW iso, NEW summary, summary = BuildSummary(s, map, phases, iso)
    PROVE  /\ summary.score = Maliciousness(s, map).score /\ summary.factors = Maliciousness(s, map).factors
           /\ summary.runtime_observed = RuntimeObserved(phases) /\ summary.maturity = EvidenceMaturity(s)
           /\ summary.highest_observed = HighestObserved(phases) /\ summary.highest_inferred = HighestInferred(phases)
<1> DEFINE mode == IF iso THEN "static + dynamic" ELSE "static only"
           label == FirstCase(<< <<FamilyHint(s) # "unknown" /\ RuntimeObserved(phases), "High">>,
                                 <<FamilyHint(s) # "unknown", "Medium">> >>, "none")
<1>1. summary = [analysis_mode |-> mode, runtime_observed |-> RuntimeObserved(phases),
                 highest_observed |-> HighestObserved(phases), highest_inferred |-> HighestInferred(phases),
                 family |-> FamilyHint(s), family_label |-> label, primary |-> PrimaryCapability(s, map),
                 risk |-> Risk(s, map).risk, likelihood |-> Risk(s, map).likelihood,
                 score |-> Maliciousness(s, map).score, factors |-> Maliciousness(s, map).factors,
                 maturity |-> EvidenceMaturity(s)]
  BY Zenon DEF BuildSummary
<1> HIDE DEF mode, label
<1> QED BY <1>1

(* The factors that are shown add up to the score that is shown: only
   Reconstruct makes a result, and it takes both from Maliciousness. *)
THEOREM ScoreExplained == Spec => []ScoreIsExplained
<1>1. Init => ScoreIsExplained
  BY DEF Init, ScoreIsExplained
<1>2. ASSUME ScoreIsExplained, [Next]_vars PROVE ScoreIsExplained'
  <2>1. CASE out' = out
    BY <1>2, <2>1 DEF ScoreIsExplained
  <2>2. CASE Reconstruct
    <3>1. out'.summary = BuildSummary(store, MapEvidence(store), BuildNarrative(MapEvidence(store)), isolated)
      BY <2>2 DEF Reconstruct, Conclude
    <3>2. PICK m : m = Maliciousness(store, MapEvidence(store))
      OBVIOUS
    <3>3. out'.summary.score = m.score /\ out'.summary.factors = m.factors
      BY <3>1, <3>2, SummaryScore
    <3>4. m.score \in 0..100 /\ SumFunction(m.factors) = m.score
      BY <3>2, MapStanding, ScoreAdds
    <3> QED BY <3>3, <3>4 DEF ScoreIsExplained
  <2> QED
    BY <1>2, <2>1, <2>2 DEF Next, vars, dispatched, evidence, collected, result, Triage, Dispatch, Analyze, Collect, Decompile,
       StartBackend, StageCape, StageMemory, StageTraces, StageDumps, Merge, BackendFails, Enrich, PersistRun, Ask, Propose
<1> QED BY <1>1, <1>2, PTL DEF Spec

-----------------------------------------------------------------------------
(* What is true of an item that is kept, beside the items S: as above, and *)
(* one that is tied to a function of the sample lies in it.                *)
Lanes == {"dynamic", "memory", "enrich"}

Placed(it, S, F) ==
    /\ Runtime(it)
    /\ IF "artifact_sha256" \in DOMAIN it.at THEN it.at["artifact_sha256"] = F.sha256
       ELSE "module" \in DOMAIN it.at => it.at["module"] = F.name
    /\ \E f \in S :
          /\ f.lane = "static" /\ Is(f.object, "function", it.details["address_correlations"])
          /\ \/ "rva" \in DOMAIN it.at /\ Covers(f, "rva", it.at["rva"])
             \/ "module_base" \notin DOMAIN it.at /\ Covers(f, "virtual_address", it.at["instruction_address"])

Held(it, S, P, F) ==
    /\ Shaped(it) /\ it.lane \in {"static"} \union Lanes /\ Rated(it.conf)
    /\ it.t # NoTime => Runtime(it)
    /\ "library_artifact" \in DOMAIN it.details => Benign(it)
    /\ it.lane = "static" => Sized(it.at)
    /\ Runtime(it) => /\ "status" \notin DOMAIN it.object
                      /\ Starts(it) => Hidden(it) \/ it.object["pid"] \in P
    /\ "address_correlations" \in DOMAIN it.details => Placed(it, S, F)

AllHeld(s, S, P, F) == IsList(s) /\ \A it \in Range(s) : Held(it, S, P, F)

LEMMA SoundHeld == ASSUME NEW F, NEW it, NEW L, L \subseteq {"static"} \union Lanes, NEW Q, Sound(it, L, Q), NEW P,
                          Q \subseteq P \/ it.lane = "static", NEW S
                   PROVE  Held(it, S, P, F)
  BY DEF Sound, Held, Runtime

LEMMA HeldMore == ASSUME NEW F, NEW it, NEW S, NEW P, Held(it, S, P, F), NEW T, S \subseteq T PROVE Held(it, T, P, F)
<1>1. ASSUME Placed(it, S, F) PROVE Placed(it, T, F)
  BY <1>1 DEF Placed
<1> QED BY <1>1 DEF Held

LEMMA AllSoundHeld == ASSUME NEW F, NEW s, NEW L, L \subseteq {"static"} \union Lanes, NEW Q, AllSound(s, L, Q), NEW P,
                             Q \subseteq P \/ L = {"static"}, NEW S
                      PROVE  AllHeld(s, S, P, F)
<1>1. ASSUME NEW it \in Range(s) PROVE Held(it, S, P, F)
  <2>1. Sound(it, L, Q)
    BY ListHas DEF AllSound
  <2>2. L = {"static"} => it.lane = "static"
    BY <2>1 DEF Sound
  <2> QED BY <2>1, <2>2, SoundHeld
<1> QED BY <1>1 DEF AllHeld, AllSound

LEMMA HeldConcat == ASSUME NEW F, NEW s, NEW t, NEW S, NEW P, AllHeld(s, S, P, F), AllHeld(t, S, P, F) PROVE AllHeld(s \o t, S, P, F)
<1>1. PICK q : q = s \o t
  OBVIOUS
<1>2. IsList(q) /\ Range(q) = Range(s) \union Range(t)
  BY <1>1, ListConcat DEF AllHeld
<1> QED BY <1>1, <1>2 DEF AllHeld

LEMMA HeldFlat == ASSUME NEW F, NEW ss, IsList(ss), NEW S, NEW P, \A i \in DOMAIN ss : AllHeld(ss[i], S, P, F)
                  PROVE  AllHeld(Flatten(ss), S, P, F)
<1>1. PICK q : q = Flatten(ss)
  OBVIOUS
<1>2. IsList(q) /\ Range(q) = UNION {Range(ss[i]) : i \in DOMAIN ss}
  BY <1>1, ListFlatten DEF AllHeld
<1> QED BY <1>1, <1>2 DEF AllHeld

-----------------------------------------------------------------------------
(* correlation.py: what an item is tied to *)
LEMMA BelongsIs ==
    ASSUME NEW it, NEW file, BelongsToSample(it, file)
    PROVE  IF "artifact_sha256" \in DOMAIN it.at THEN it.at["artifact_sha256"] = file.sha256
           ELSE "module" \in DOMAIN it.at => it.at["module"] = file.name
<1> DEFINE hash == Is(it.at, "artifact_sha256", file.sha256)
           module == Is(it.at, "module", file.name)
           path == Is(it.details, "module_path", file.name)
           rest == \/ \E k \in {"name", "process"} : Is(it.subject, k, file.name)
                   \/ Is(it.object, "process", file.name)
           cases == << <<"artifact_sha256" \in DOMAIN it.at, hash>>,
                       <<"module" \in DOMAIN it.at, module>>,
                       <<Has(it.details, "module_path"), path>> >>
<1>1. FirstCase(cases, rest)
  BY Zenon DEF BelongsToSample
<1>2. DOMAIN cases = {1, 2, 3}
  OBVIOUS
<1>3. /\ cases[1][1] <=> "artifact_sha256" \in DOMAIN it.at
      /\ cases[2][1] <=> "module" \in DOMAIN it.at
  BY ZenonT(30)
<1>4. (cases[1][2] <=> hash) /\ (cases[2][2] <=> module)
  BY ZenonT(30)
<1>5. \/ (FirstCase(cases, rest) <=> rest) /\ (\A i \in {1, 2, 3} : ~cases[i][1])
      \/ \E i \in {1, 2, 3} : /\ cases[i][1] /\ (FirstCase(cases, rest) <=> cases[i][2])
                              /\ \A j \in {1, 2, 3} : cases[j][1] => i <= j
  <2> HIDE DEF cases, rest
  <2> QED BY <1>2, FirstCaseIs
<1> HIDE DEF cases, rest
<1>6. CASE "artifact_sha256" \in DOMAIN it.at
  <2>1. hash
    BY <1>1, <1>3, <1>4, <1>5, <1>6
  <2> QED BY <1>6, <2>1 DEF Is
<1>7. CASE "artifact_sha256" \notin DOMAIN it.at /\ "module" \in DOMAIN it.at
  <2>1. module
    BY <1>1, <1>3, <1>4, <1>5, <1>7
  <2> QED BY <1>7, <2>1 DEF Is
<1> QED BY <1>6, <1>7

LEMMA MatchingIs ==
    ASSUME NEW s, NEW at, NEW i \in MatchingFunctions(s, at)
    PROVE  /\ i \in DOMAIN s /\ IsFunction(s[i])
           /\ \/ "rva" \in DOMAIN at /\ Covers(s[i], "rva", at["rva"])
              \/ "module_base" \notin DOMAIN at /\ Covers(s[i], "virtual_address", at["instruction_address"])
<1> DEFINE Of(key, address) == {j \in DOMAIN s : IsFunction(s[j]) /\ Covers(s[j], key, address)}
           near == IF "rva" \in DOMAIN at THEN Of("rva", at["rva"]) ELSE {}
           far == IF "instruction_address" \in DOMAIN at THEN Of("virtual_address", at["instruction_address"]) ELSE {}
           cases == << <<"rva" \in DOMAIN at, near>>, <<"module_base" \in DOMAIN at, {}>> >>
<1>1. MatchingFunctions(s, at) = FirstCase(cases, far)
  BY Zenon DEF MatchingFunctions
<1>2. DOMAIN cases = {1, 2} /\ cases[1][2] = near /\ cases[2][2] = {}
  OBVIOUS
<1>3. (cases[1][1] <=> "rva" \in DOMAIN at) /\ (cases[2][1] <=> "module_base" \in DOMAIN at)
  BY ZenonT(30)
<1>4. ASSUME i \in near PROVE i \in DOMAIN s /\ IsFunction(s[i]) /\ "rva" \in DOMAIN at /\ Covers(s[i], "rva", at["rva"])
  BY <1>4
<1>5. ASSUME i \in far PROVE i \in DOMAIN s /\ IsFunction(s[i]) /\ Covers(s[i], "virtual_address", at["instruction_address"])
  BY <1>5
<1> HIDE DEF cases, near, far
<1>6. \/ FirstCase(cases, far) = far /\ (\A k \in {1, 2} : ~cases[k][1])
      \/ \E k \in {1, 2} : cases[k][1] /\ FirstCase(cases, far) = cases[k][2]
  BY <1>2, FirstCaseIs
<1> QED BY <1>1, <1>2, <1>3, <1>4, <1>5, <1>6

LEMMA SmallestIs ==
    ASSUME NEW s, NEW H, H \subseteq DOMAIN s, H # {}, \A i \in H : Span(s[i]) \in Nat
    PROVE  (CHOOSE i \in H : \A j \in H : Span(s[i]) <= Span(s[j])) \in H
<1> DEFINE T == {Span(s[i]) : i \in H}
<1>1. T \subseteq Nat /\ T # {}
  OBVIOUS
<1>2. \E i \in H : \A j \in H : Span(s[i]) <= Span(s[j])
  <2>1. PICK x \in T : \A y \in T : x <= y
    <3> HIDE DEF T
    <3> QED BY <1>1, LeastNat
  <2> QED BY <2>1
<1> QED BY <1>2

Tied(s, H, it) ==
    [it EXCEPT !.details = it.details @@ ("address_correlations" :>
        s[CHOOSE i \in H : \A j \in H : Span(s[i]) <= Span(s[j])].object["function"])]

(* Annotate: a list as long as the one it is given; the items that are not
   tied stay what they are. *)
LEMMA AnnotateIs ==
    ASSUME NEW s, NEW items, IsList(items), NEW file
    PROVE  /\ IsList(Annotate(s, items, file)) /\ DOMAIN Annotate(s, items, file) = DOMAIN items
           /\ \A n \in DOMAIN items :
                 \/ Annotate(s, items, file)[n] = items[n]
                 \/ \E H : /\ H = Matched(s, items[n], file) /\ H # {}
                           /\ Annotate(s, items, file)[n] =
                                Tied(s, H, items[n])
<1> DEFINE hit == [n \in DOMAIN items |-> Matched(s, items[n], file)]
           Before(n) == Cardinality({m \in 1..(n - 1) : hit[m] # {}})
           Smallest(H) == s[CHOOSE i \in H : \A j \in H : Span(s[i]) <= Span(s[j])]
           tied == [n \in DOMAIN items |->
                      IF hit[n] = {} \/ Before(n) >= MaxCorrelations THEN items[n]
                      ELSE [items[n] EXCEPT !.details = @ @@ ("address_correlations" :> Smallest(hit[n]).object["function"])]]
<1>1. Annotate(s, items, file) = tied
  BY Zenon DEF Annotate
<1>2. \A n \in DOMAIN items : hit[n] = Matched(s, items[n], file)
  OBVIOUS
<1> HIDE DEF hit, Before
<1>3. tied = [n \in DOMAIN items |-> tied[n]] /\ DOMAIN tied = DOMAIN items
  OBVIOUS
<1>4. ASSUME NEW n \in DOMAIN items
      PROVE  \/ tied[n] = items[n]
             \/ hit[n] # {} /\ tied[n] = [items[n] EXCEPT !.details = items[n].details @@
                                           ("address_correlations" :> Smallest(hit[n]).object["function"])]
  <2> HIDE DEF Smallest
  <2> QED OBVIOUS
<1> HIDE DEF tied
<1>5. IsList(tied)
  BY <1>3, ListMap
<1>6. ASSUME NEW n \in DOMAIN items
      PROVE  \/ tied[n] = items[n]
             \/ hit[n] # {} /\ tied[n] = Tied(s, hit[n], items[n])
  BY <1>4, Zenon DEF Tied
<1> QED BY <1>1, <1>2, <1>3, <1>5, <1>6, Zenon

LEMMA TiedHeld ==
    ASSUME NEW F, NEW s, NEW Q, AllHeld(s, Range(s), Q, F), NEW it, NEW L, L \subseteq Lanes, NEW P, Sound(it, L, P),
           NEW H, H = Matched(s, it, F), H # {}, NEW x,
           x = Tied(s, H, it)
    PROVE  Held(x, Range(s), P, F)
<1>1. /\ Runtime(it) /\ "instruction_address" \in DOMAIN it.at /\ BelongsToSample(it, F)
      /\ H = MatchingFunctions(s, it.at)
  BY DEF Matched
<1>2. PICK f : f = (CHOOSE i \in H : \A j \in H : Span(s[i]) <= Span(s[j]))
  OBVIOUS
<1>3. \A i \in H : i \in DOMAIN s /\ IsFunction(s[i]) /\ Span(s[i]) \in Nat
  <2>1. ASSUME NEW i \in H PROVE i \in DOMAIN s /\ IsFunction(s[i])
    BY <1>1, MatchingIs
  <2>2. ASSUME NEW i \in H PROVE Span(s[i]) \in Nat
    <3>1. Held(s[i], Range(s), Q, F)
      BY <2>1, ListHas DEF AllHeld
    <3> QED BY <2>1, <3>1 DEF Held, IsFunction, Sized, Span
  <2> QED BY <2>1, <2>2
<1>4. f \in H
  BY <1>2, <1>3, SmallestIs
<1>5. f \in DOMAIN s /\ IsFunction(s[f]) /\ s[f] \in Range(s)
  BY <1>3, <1>4 DEF Range
<1>6. \/ "rva" \in DOMAIN it.at /\ Covers(s[f], "rva", it.at["rva"])
      \/ "module_base" \notin DOMAIN it.at /\ Covers(s[f], "virtual_address", it.at["instruction_address"])
  BY <1>1, <1>4, MatchingIs
<1>7. IF "artifact_sha256" \in DOMAIN it.at THEN it.at["artifact_sha256"] = F.sha256
      ELSE "module" \in DOMAIN it.at => it.at["module"] = F.name
  BY <1>1, BelongsIs
<1>8. PICK name, more : name = s[f].object["function"] /\ more = ("address_correlations" :> name)
  OBVIOUS
<1>9. PICK details : details = it.details @@ more
  OBVIOUS
<1>10. x = [it EXCEPT !.details = details]
  BY <1>2, <1>8, <1>9 DEF Tied
<1>11. /\ x.lane = it.lane /\ x.tool = it.tool /\ x.artifact = it.artifact /\ x.operation = it.operation
       /\ x.subject = it.subject /\ x.object = it.object /\ x.details = details /\ x.conf = it.conf
       /\ x.at = it.at /\ x.t = it.t /\ Shaped(x)
  BY <1>10 DEF Sound, Shaped
<1>12. /\ details["address_correlations"] = name
       /\ "library_artifact" \in DOMAIN details => "library_artifact" \in DOMAIN it.details
       /\ "hidden" \in DOMAIN it.details => "hidden" \in DOMAIN details
  <2>1. "address_correlations" \notin DOMAIN it.details
    BY DEF Sound
  <2>2. \A k : k \in DOMAIN more <=> k = "address_correlations"
    BY <1>8, PairKeys
  <2>3. more["address_correlations"] = name
    BY <1>8, PairIs
  <2>4. \A k : k \in DOMAIN details <=> k \in DOMAIN it.details \/ k \in DOMAIN more
    BY <1>9, JoinKeys
  <2>5. \A k \in DOMAIN more : k \notin DOMAIN it.details => details[k] = more[k]
    BY <1>9, JoinIs
  <2> QED BY <2>1, <2>2, <2>3, <2>4, <2>5
<1>13. Is(s[f].object, "function", name) /\ s[f].lane = "static"
  BY <1>5, <1>8 DEF IsFunction, Is, Has
<1>14. Placed(x, Range(s), F)
  BY <1>1, <1>5, <1>6, <1>7, <1>11, <1>12, <1>13 DEF Placed, Runtime
<1>15. ~Benign(it)
  BY <1>1 DEF Benign, Runtime
<1>16. x.lane \in Lanes /\ x.lane # "static"
  BY <1>1, <1>11 DEF Sound, Runtime
<1> QED BY <1>1, <1>11, <1>12, <1>14, <1>15, <1>16 DEF Held, Sound, Runtime, Starts, Hidden, Has

LEMMA AnnotateHeld ==
    ASSUME NEW F, NEW s, NEW Q, AllHeld(s, Range(s), Q, F), NEW items, NEW L, L \subseteq Lanes, NEW P, AllSound(items, L, P),
           NEW R, P \subseteq R
    PROVE  AllHeld(Annotate(s, items, F), Range(s), R, F)
<1>1. PICK a : a = Annotate(s, items, F)
  OBVIOUS
<1>2. IsList(items)
  BY DEF AllSound
<1>3. /\ IsList(a) /\ DOMAIN a = DOMAIN items
      /\ \A n \in DOMAIN items :
            \/ a[n] = items[n]
            \/ \E H : H = Matched(s, items[n], F) /\ H # {} /\ a[n] = Tied(s, H, items[n])
  BY <1>1, <1>2, AnnotateIs, ZenonT(40)
<1>4. ASSUME NEW n \in DOMAIN a PROVE Held(a[n], Range(s), R, F)
  <2>1. Sound(items[n], L, P)
    BY <1>3 DEF AllSound
  <2>2. CASE a[n] = items[n]
    BY <2>1, <2>2, SoundHeld
  <2>3. CASE a[n] # items[n]
    <3>1. PICK H : H = Matched(s, items[n], F) /\ H # {} /\ a[n] = Tied(s, H, items[n])
      BY <1>3, <2>3
    <3>2. Held(a[n], Range(s), P, F)
      BY <2>1, <3>1, TiedHeld
    <3> QED BY <3>2 DEF Held
  <2> QED BY <2>2, <2>3
<1>5. \A it \in Range(a) : Held(it, Range(s), R, F)
  BY <1>3, <1>4, ListHas
<1> QED BY <1>1, <1>3, <1>5 DEF AllHeld

-----------------------------------------------------------------------------
(* The store: what is appended is new, and nothing is lost. *)
LEMMA IdsAre == ASSUME NEW s PROVE Ids(s) = {Id(it) : it \in Range(s)}
  BY DEF Ids, Range

LEMMA TailOf ==
    ASSUME NEW s, NEW p, IsList(s), IsList(p)
    PROVE  SubSeq(s \o p, Len(s) + 1, Len(s \o p)) = p
<1>1. PICK X : X = Range(s) \cup Range(p) /\ s \in Seq(X) /\ p \in Seq(X)
  <2>1. Range(s) \subseteq Range(s) \cup Range(p) /\ Range(p) \subseteq Range(s) \cup Range(p)
    OBVIOUS
  <2> QED BY <2>1, SeqMonotonic DEF IsList
<1>2. PICK m, n : m \in Nat /\ n \in Nat /\ m = Len(s) /\ n = Len(p)
  BY <1>1
<1>3. PICK q : q = s \o p
  OBVIOUS
<1>4. q \in Seq(X) /\ Len(q) = m + n /\ \A i \in 1..n : q[m + i] = p[i]
  BY <1>1, <1>2, <1>3, ConcatProperties
<1>5. \A i \in (m + 1)..(m + n) : q[i] \in X
  BY <1>2, <1>4
<1>6. PICK r : r = SubSeq(q, m + 1, m + n)
  OBVIOUS
<1>7. r \in Seq(X) /\ Len(r) = n /\ \A i \in 1..n : r[i] = q[m + i]
  <2>1. PICK a, b : a \in Int /\ b \in Int /\ a = m + 1 /\ b = m + n
    BY <1>2
  <2>2. r = SubSeq(q, a, b) /\ \A i \in a..b : q[i] \in X
    BY <1>5, <1>6, <2>1
  <2>3. SubSeq(q, a, b) \in Seq(X) /\ Len(SubSeq(q, a, b)) = (IF a <= b THEN b - a + 1 ELSE 0)
        /\ \A i \in 1..(b - a + 1) : SubSeq(q, a, b)[i] = q[a + i - 1]
    BY <2>1, <2>2, SubSeqProperties
  <2>4. r \in Seq(X) /\ Len(r) = n
    BY <1>2, <2>1, <2>2, <2>3
  <2>5. ASSUME NEW i \in 1..n PROVE r[i] = q[m + i]
    <3>1. i \in 1..(b - a + 1) /\ a + i - 1 = m + i
      BY <1>2, <2>1
    <3>2. q[a + i - 1] = q[m + i]
      BY <3>1
    <3>3. r[i] = q[a + i - 1]
      BY <2>2, <2>3, <3>1
    <3> QED BY <3>2, <3>3
  <2> QED BY <2>4, <2>5
<1>8. r = p
  <2>1. \A i \in 1..n : r[i] = p[i]
    BY <1>4, <1>7
  <2>2. r = [i \in 1..n |-> r[i]] /\ p = [i \in 1..n |-> p[i]]
    BY <1>1, <1>2, <1>7
  <2>3. [i \in 1..n |-> r[i]] = [i \in 1..n |-> p[i]]
    BY <2>1
  <2> QED BY <2>2, <2>3
<1> QED BY <1>2, <1>3, <1>4, <1>6, <1>8

LEMMA ExtendIs ==
    ASSUME NEW s, NEW t, IsList(s), IsList(t)
    PROVE  \E p : /\ IsList(p) /\ Extend(s, t) = s \o p /\ Range(p) \subseteq Range(t)
                  /\ Ids(s) \cup Ids(p) = Ids(s) \cup Ids(t)
<1> DEFINE ids == MapSeq(Id, t)
           fresh == {i \in DOMAIN t : ids[i] \notin Ids(s) /\ \A j \in 1..(i - 1) : ids[j] # ids[i]}
<1>1. PICK f : f = [i \in DOMAIN t |-> Id(t[i])]
  OBVIOUS
<1>2. ids = f
  <2>1. f = [i \in DOMAIN t |-> f[i]]
    BY <1>1
  <2>2. KeptSeq(f) = f
    BY <2>1, ListMap
  <2> QED BY <1>1, <2>2 DEF MapSeq
<1>3. Extend(s, t) = s \o Picked(t, fresh)
  BY Zenon DEF Extend
<1>4. \A i \in DOMAIN t : ids[i] = Id(t[i])
  BY <1>1, <1>2
<1> HIDE DEF ids
<1>5. PICK p : p = Picked(t, fresh)
  OBVIOUS
<1>6. IsList(p) /\ Range(p) = {t[i] : i \in fresh}
  <2>1. fresh \cap DOMAIN t = fresh
    OBVIOUS
  <2> HIDE DEF fresh
  <2> QED BY <1>5, <2>1, ListPicked
<1>7. Range(p) \subseteq Range(t)
  BY <1>6, ListHas
<1>8. ASSUME NEW it \in Range(t), Id(it) \notin Ids(s) PROVE Id(it) \in Ids(p)
  <2>1. PICK i \in DOMAIN t : t[i] = it
    BY ListHas
  <2>2. DOMAIN t = 1..Len(t) /\ Len(t) \in Nat
    BY ListHas
  <2> DEFINE T == {j \in DOMAIN t : ids[j] = Id(it)}
  <2>3. T \subseteq Nat /\ T # {}
    BY <1>4, <2>1, <2>2
  <2>4. PICK j \in T : \A k \in T : j <= k
    <3> HIDE DEF T
    <3> QED BY <2>3, LeastNat
  <2>5. ASSUME NEW k \in 1..(j - 1) PROVE ids[k] # ids[j]
    <3>1. k \in DOMAIN t /\ ~(j <= k)
      BY <2>2, <2>4
    <3> QED BY <2>4, <3>1
  <2>6. j \in fresh
    BY <1>8, <2>4, <2>5
  <2>7. Id(t[j]) = Id(it) /\ t[j] \in Range(p)
    BY <1>4, <1>6, <2>4, <2>6
  <2> QED BY <2>7, IdsAre
<1>9. Ids(s) \cup Ids(p) = Ids(s) \cup Ids(t)
  <2>1. \A x \in Ids(p) : x \in Ids(t)
    BY <1>7, IdsAre
  <2>2. \A x \in Ids(t) : x \in Ids(s) \/ x \in Ids(p)
    BY <1>8, IdsAre
  <2> QED BY <2>1, <2>2
<1> QED BY <1>3, <1>5, <1>6, <1>7, <1>9

LEMMA IdsJoin == ASSUME NEW s, NEW p, IsList(s), IsList(p) PROVE Ids(s \o p) = Ids(s) \cup Ids(p)
<1>1. PICK q : q = s \o p
  OBVIOUS
<1>2. Range(q) = Range(s) \cup Range(p)
  BY <1>1, ListConcat
<1>3. Ids(q) = Ids(s) \cup Ids(p)
  BY <1>2, IdsAre
<1> QED BY <1>1, <1>3

LEMMA ReloadIs == ASSUME NEW s, IsList(s) PROVE IsList(Reload(s)) /\ Range(Reload(s)) \subseteq Range(s) /\ Ids(Reload(s)) = Ids(s)
<1>1. PICK e : e = <<>>
  OBVIOUS
<1>2. IsList(e) /\ Range(e) = {} /\ Ids(e) = {}
  BY <1>1, ListEmpty, IdsAre
<1>3. PICK p : IsList(p) /\ Extend(e, s) = e \o p /\ Range(p) \subseteq Range(s) /\ Ids(e) \cup Ids(p) = Ids(e) \cup Ids(s)
  BY <1>2, ExtendIs
<1>4. PICK q : q = e \o p
  OBVIOUS
<1>5. IsList(q) /\ Range(q) = Range(e) \cup Range(p) /\ Ids(q) = Ids(e) \cup Ids(p)
  <2>1. IsList(q) /\ Range(q) = Range(e) \cup Range(p)
    BY <1>2, <1>3, <1>4, ListConcat
  <2>2. Ids(q) = Ids(e) \cup Ids(p)
    BY <1>2, <1>3, <1>4, IdsJoin
  <2> QED BY <2>1, <2>2
<1> QED BY <1>1, <1>2, <1>3, <1>4, <1>5 DEF Reload

-----------------------------------------------------------------------------
(* What was fed: the ids of the feed. *)
Fed(f, s) == IsList(f) /\ {f[i].id : i \in DOMAIN f} = Ids(s)

LEMMA FedMore ==
    ASSUME NEW s, NEW t, IsList(s), IsList(t), NEW f, Fed(f, s), NEW e, e = Extend(s, t)
    PROVE  /\ Fed(f \o MapSeq(FormatEvent, SubSeq(e, Len(s) + 1, Len(e))), e)
           /\ IsList(e) /\ Range(s) \subseteq Range(e) /\ Range(e) \subseteq Range(s) \cup Range(t)
           /\ Ids(e) = Ids(s) \cup Ids(t)
<1>1. PICK p : /\ IsList(p) /\ e = s \o p /\ Range(p) \subseteq Range(t) /\ Ids(s) \cup Ids(p) = Ids(s) \cup Ids(t)
  BY ExtendIs
<1>2. IsList(e) /\ Range(e) = Range(s) \cup Range(p) /\ Ids(e) = Ids(s) \cup Ids(t)
  BY <1>1, ListConcat, IdsJoin
<1>3. SubSeq(e, Len(s) + 1, Len(e)) = p
  BY <1>1, TailOf
<1>4. PICK g : g = [i \in DOMAIN p |-> FormatEvent(p[i])]
  OBVIOUS
<1>5. MapSeq(FormatEvent, p) = g /\ IsList(g) /\ DOMAIN g = DOMAIN p
  <2>1. g = [i \in DOMAIN p |-> g[i]]
    BY <1>4
  <2>2. IsList(g) /\ KeptSeq(g) = g /\ DOMAIN g = DOMAIN p
    BY <1>1, <2>1, ListMap
  <2> QED BY <1>4, <2>2 DEF MapSeq
<1>6. \A i \in DOMAIN g : g[i].id = Id(p[i])
  BY <1>4 DEF FormatEvent
<1>7. PICK h : h = f \o g
  OBVIOUS
<1>8. IsList(h) /\ Range(h) = Range(f) \cup Range(g)
  BY <1>5, <1>7, ListConcat DEF Fed
<1>9. {h[i].id : i \in DOMAIN h} = Ids(e)
  <2>1. {x.id : x \in Range(h)} = {h[i].id : i \in DOMAIN h}
    BY DEF Range
  <2>2. {x.id : x \in Range(f)} = Ids(s)
    BY DEF Range, Fed
  <2>3. {x.id : x \in Range(g)} = Ids(p)
    BY <1>5, <1>6 DEF Range, Ids
  <2> QED BY <1>1, <1>2, <1>8, <2>1, <2>2, <2>3
<1>10. Fed(h, e)
  BY <1>8, <1>9 DEF Fed
<1>11. f \o MapSeq(FormatEvent, SubSeq(e, Len(s) + 1, Len(e))) = h
  BY <1>3, <1>5, <1>7, Zenon
<1> QED BY <1>1, <1>2, <1>10, <1>11

LEMMA AddHeld ==
    ASSUME NEW P, NEW F, NEW s, AllHeld(s, Range(s), P, F), NEW t, AllHeld(t, Range(s), P, F), NEW f, Fed(f, s),
           NEW e, e = Extend(s, t)
    PROVE  /\ AllHeld(e, Range(e), P, F) /\ Fed(f \o MapSeq(FormatEvent, SubSeq(e, Len(s) + 1, Len(e))), e)
           /\ Range(s) \subseteq Range(e) /\ Range(e) \subseteq Range(s) \cup Range(t)
           /\ Ids(e) = Ids(s) \cup Ids(t)
<1>1. IsList(s) /\ IsList(t)
  BY DEF AllHeld
<1>2. PICK g : g = f \o MapSeq(FormatEvent, SubSeq(e, Len(s) + 1, Len(e)))
  OBVIOUS
<1>3. /\ Fed(g, e) /\ IsList(e) /\ Range(s) \subseteq Range(e) /\ Range(e) \subseteq Range(s) \cup Range(t)
      /\ Ids(e) = Ids(s) \cup Ids(t)
  <2> HIDE DEF Fed
  <2> QED BY <1>1, <1>2, FedMore, Zenon
<1>4. ASSUME NEW it \in Range(e) PROVE Held(it, Range(e), P, F)
  <2>1. Held(it, Range(s), P, F)
    BY <1>3 DEF AllHeld
  <2> QED BY <1>3, <2>1, HeldMore
<1> QED BY <1>2, <1>3, <1>4 DEF AllHeld

LEMMA StagedHeld ==
    ASSUME NEW S, NEW P, NEW F, NEW s, AllHeld(s, S, P, F), NEW ss, IsList(ss), \A i \in DOMAIN ss : AllHeld(ss[i], S, P, F)
    PROVE  /\ AllHeld(Extend(s, Flatten(ss)), S, P, F)
           /\ \A it \in Range(Extend(s, Flatten(ss))) : it \in Range(s) \/ \E i \in DOMAIN ss : it \in Range(ss[i])
           /\ \A id : id \in Ids(Extend(s, Flatten(ss))) <=> id \in Ids(s) \/ \E i \in DOMAIN ss : id \in Ids(ss[i])
<1>1. PICK t : t = Flatten(ss)
  OBVIOUS
<1>2. AllHeld(t, S, P, F)
  BY <1>1, HeldFlat
<1>3. \A i \in DOMAIN ss : IsList(ss[i])
  BY DEF AllHeld
<1>4. IsList(t) /\ Range(t) = UNION {Range(ss[i]) : i \in DOMAIN ss}
  BY <1>1, <1>3, ListFlatten
<1>5. PICK p : /\ IsList(p) /\ Extend(s, t) = s \o p /\ Range(p) \subseteq Range(t)
               /\ Ids(s) \cup Ids(p) = Ids(s) \cup Ids(t)
  BY <1>4, ExtendIs DEF AllHeld
<1>6. PICK e : e = s \o p
  OBVIOUS
<1>7. IsList(e) /\ Range(e) = Range(s) \cup Range(p) /\ Ids(e) = Ids(s) \cup Ids(t)
  <2>1. IsList(e) /\ Range(e) = Range(s) \cup Range(p)
    BY <1>5, <1>6, ListConcat DEF AllHeld
  <2>2. Ids(e) = Ids(s) \cup Ids(p)
    BY <1>5, <1>6, IdsJoin DEF AllHeld
  <2> QED BY <1>5, <2>1, <2>2
<1>8. AllHeld(e, S, P, F)
  BY <1>2, <1>5, <1>7 DEF AllHeld
<1>9. \A it \in Range(e) : it \in Range(s) \/ \E i \in DOMAIN ss : it \in Range(ss[i])
  BY <1>4, <1>5, <1>7
<1>10. ASSUME NEW id PROVE id \in Ids(t) <=> \E i \in DOMAIN ss : id \in Ids(ss[i])
  BY <1>4, IdsAre
<1>11. \A id : id \in Ids(e) <=> id \in Ids(s) \/ \E i \in DOMAIN ss : id \in Ids(ss[i])
  BY <1>7, <1>10
<1> QED BY <1>1, <1>5, <1>6, <1>8, <1>9, <1>11

LEMMA FilterHas == ASSUME NEW s, IsList(s), NEW I
                   PROVE  IsList(Picked(s, I)) /\ \A i \in DOMAIN Picked(s, I) : \E j \in I \cap DOMAIN s : Picked(s, I)[i] = s[j]
<1>1. PICK r : r = Picked(s, I)
  OBVIOUS
<1>2. IsList(r) /\ Range(r) = {s[i] : i \in I \cap DOMAIN s}
  BY <1>1, ListPicked
<1>3. \A i \in DOMAIN r : r[i] \in Range(r)
  BY <1>2, ListHas
<1> QED BY <1>1, <1>2, <1>3

-----------------------------------------------------------------------------
(* The processes the reports of a run saw start, by their pids. *)
Started == SeenStarting \union NamedStarting

Sighted(s) == \E it \in Range(s) : Runtime(it)

AtBackend == {"cape", "memory", "trace", "dump", "merge"}

(* What the analyzers returned is evidence of the static lane. *)
Gathered == IsList(selected) /\ IsList(results) /\ \A i \in DOMAIN results : StaticItems(results[i].items)

(* Every item of the store, and every staged one, is what an analyzer or a
   normalizer makes of a report, and the ones that saw the sample run come
   from a run. *)
Kept ==
    /\ AllHeld(store, Range(store), Started, Subject)
    /\ AllHeld(staged.items, Range(store), Started, Subject)
    /\ Fed(feed, store)
    /\ pc \in AtBackend => backend # "none"
    /\ Sighted(store) \/ Sighted(staged.items) => backend # "none" /\ Captured

(* A result is concluded from the store that is there. *)
Concluded ==
    /\ out # None => /\ pc \in {"persist", "done", "answered"}
                     /\ out = Conclude(store, sample.raw, isolated)
    /\ pc \in {"done", "answered"} => saved = store
    /\ answer # None => pc = "answered"

Inv == call \in Calls /\ Gathered /\ Kept /\ Concluded

LEMMA GivenIs ==
    ASSUME call \in Calls
    PROVE  /\ IsContent(sample.content) /\ IsFiniteSet(sample.raw) /\ IsList(call.plugins)
           /\ IsList(call.bundle.cape) /\ IsList(call.bundle.memory) /\ IsList(call.bundle.trace) /\ IsList(call.bundle.dump)
           /\ \A r \in Range(call.bundle.cape) : IsCape(r)
           /\ \A r \in Range(call.bundle.memory) : IsMemory(r.sections)
           /\ \A r \in Range(call.bundle.dump) : IsMemory(r.sections)
           /\ \A r \in Range(call.bundle.trace) : IsRuntime(r)
           /\ call.decompiled # None => IsDocument(call.decompiled)
           /\ call.snapshot # None => /\ IsFiniteSet(call.snapshot.indicators)
                                      /\ \A r \in call.snapshot.indicators : r.conf \in Nat
<1>1. /\ call.bundle["cape"] = call.bundle.cape /\ call.bundle["memory"] = call.bundle.memory
      /\ call.bundle["trace"] = call.bundle.trace /\ call.bundle["dump"] = call.bundle.dump
  OBVIOUS
<1> QED BY <1>1, CallAssumption DEF sample

(* The rows of a memory report, or of an image, name what is started. *)
LEMMA NamingStarted ==
    ASSUME NEW r, r \in Range(call.bundle.memory) \union Range(call.bundle.dump), NEW s \in Range(r.sections)
    PROVE  Naming(s, Started)
<1> SUFFICES ASSUME s.plugin \in {"PsList", "PsScan"}, NEW row \in Range(SectionRows(s)), row.column = "pid"
             PROVE  row.pid \in Started
  BY DEF Naming
<1>1. row \in ReportRows(r, {"PsList", "PsScan"})
  BY DEF ReportRows
<1>2. row.pid \in Pids({x \in ReportRows(r, {"PsList", "PsScan"}) : x.column = "pid"})
  BY <1>1 DEF Pids
<1> QED BY <1>2 DEF Started, NamedStarting

LEMMA InvInit == Init => Inv
<1> SUFFICES ASSUME Init PROVE Inv
  OBVIOUS
<1>1. store = <<>> /\ staged.items = <<>> /\ feed = <<>> /\ pc = "triage"
  BY DEF Init, NothingStaged
<1>2. PICK e : e = <<>>
  OBVIOUS
<1>3. IsList(e) /\ Range(e) = {} /\ Ids(e) = {} /\ {e[i].id : i \in DOMAIN e} = {}
  BY <1>2, ListEmpty, IdsAre
<1>4. Gathered
  BY <1>2, <1>3 DEF Init, Gathered
<1>5. AllHeld(e, Range(store), Started, Subject) /\ Fed(e, e) /\ ~Sighted(e)
  BY <1>3 DEF AllHeld, Fed, Sighted
<1>6. Kept
  BY <1>1, <1>2, <1>5 DEF Kept, AtBackend
<1>7. Concluded
  BY DEF Init, Concluded
<1> QED BY <1>4, <1>6, <1>7 DEF Inv, Init

(* What the file that is looked at, and its call, stay. *)
LEMMA CallStays ==
    ASSUME call' = call
    PROVE  /\ Started' = Started /\ Subject' = Subject /\ backend' = backend /\ (Captured' <=> Captured)
           /\ sample' = sample /\ (call \in Calls)' = (call \in Calls)
  BY DEF Started, SeenStarting, NamedStarting, Subject, backend, Captured, sample, fmt

LEMMA ConcludedStays ==
    ASSUME Concluded, call' = call, UNCHANGED <<store, bundle, out, saved, answer, pc>>
    PROVE  Concluded'
<1>1. sample' = sample /\ isolated' = isolated
  BY DEF sample, isolated
<1> QED BY <1>1 DEF Concluded

(* Before a result is concluded there is none. *)
LEMMA ConcludedBefore ==
    ASSUME Concluded, call' = call, UNCHANGED <<out, saved, answer>>,
           pc \notin {"persist", "done", "answered"}, pc' \notin {"done", "answered"}
    PROVE  Concluded'
  BY DEF Concluded

LEMMA KeptStays ==
    ASSUME Kept, call' = call, UNCHANGED <<store, feed, staged>>, pc' \in AtBackend => backend # "none"
    PROVE  Kept'
  BY CallStays DEF Kept

(* The store takes more evidence. *)
LEMMA KeptMore ==
    ASSUME Kept, call' = call, UNCHANGED staged,
           NEW items, NEW names, Add(items, names), AllHeld(items, Range(store), Started, Subject),
           Sighted(items) => backend # "none" /\ Captured, pc' \in AtBackend => backend # "none"
    PROVE  Kept'
<1>1. PICK P, F, s, f, t : P = Started /\ F = Subject /\ s = store /\ f = feed /\ t = staged.items
  OBVIOUS
<1>2. PICK e, g : e = Extend(s, items) /\ g = f \o MapSeq(FormatEvent, SubSeq(e, Len(s) + 1, Len(e)))
  OBVIOUS
<1>3. store' = e /\ feed' = g
  BY <1>1, <1>2, Zenon DEF Add
<1>4. AllHeld(s, Range(s), P, F) /\ AllHeld(t, Range(s), P, F) /\ Fed(f, s) /\ AllHeld(items, Range(s), P, F)
  BY <1>1, Zenon DEF Kept
<1>5. /\ AllHeld(e, Range(e), P, F) /\ Fed(g, e)
      /\ Range(s) \subseteq Range(e) /\ Range(e) \subseteq Range(s) \cup Range(items)
  BY <1>2, <1>4, AddHeld, ZenonT(40)
<1>6. AllHeld(t, Range(e), P, F)
  BY <1>4, <1>5, HeldMore DEF AllHeld
<1>7. Sighted(e) \/ Sighted(t) => backend # "none" /\ Captured
  BY <1>1, <1>5 DEF Kept, Sighted
<1>8. store' = e /\ feed' = g /\ staged'.items = t /\ Started' = P /\ Subject' = F
  BY <1>1, <1>3, CallStays
<1> QED BY <1>5, <1>6, <1>7, <1>8, CallStays DEF Kept

(* Where a subscriber raises, some of the items were added. *)
LEMMA SomeAdded ==
    ASSUME NEW items, IsList(items), AddSome(items)
    PROVE  \E some : IsList(some) /\ Range(some) \subseteq Range(items) /\ Add(some, <<>>)
<1>1. PICK n \in 0..Len(items) : Add(Upto(items, n), <<>>)
  BY DEF AddSome
<1>2. IsList(Upto(items, n)) /\ Range(Upto(items, n)) \subseteq Range(items)
  BY ListUpto
<1> QED BY <1>1, <1>2

LEMMA KeptSome ==
    ASSUME Kept, call' = call, UNCHANGED staged,
           NEW items, AddSome(items), AllHeld(items, Range(store), Started, Subject),
           Sighted(items) => backend # "none" /\ Captured, pc' \notin AtBackend
    PROVE  Kept'
<1>1. PICK some : IsList(some) /\ Range(some) \subseteq Range(items) /\ Add(some, <<>>)
  BY SomeAdded DEF AllHeld
<1>2. PICK names : Add(some, names)
  BY <1>1
<1>3. AllHeld(some, Range(store), Started, Subject) /\ (Sighted(some) => Sighted(items))
  BY <1>1 DEF AllHeld, Sighted
<1> QED BY <1>2, <1>3, KeptMore

(* What is staged: more evidence of the run. *)
LEMMA KeptStaged ==
    ASSUME Kept, call' = call, UNCHANGED <<store, feed>>,
           NEW found, NEW name, IsList(found), Staging(found, name),
           \A i \in DOMAIN found : AllHeld(found[i], Range(store), Started, Subject) /\ (Sighted(found[i]) => Captured),
           backend # "none"
    PROVE  Kept'
<1>1. PICK P, F, s, t : P = Started /\ F = Subject /\ s = store /\ t = staged.items
  OBVIOUS
<1>2. PICK e : e = Extend(t, Flatten(found))
  OBVIOUS
<1>3. staged'.items = e
  BY <1>1, <1>2 DEF Staging
<1>4. AllHeld(t, Range(s), P, F) /\ \A i \in DOMAIN found : AllHeld(found[i], Range(s), P, F)
  <2>1. AllHeld(t, Range(s), P, F)
    BY <1>1, Zenon DEF Kept
  <2>2. ASSUME NEW i \in DOMAIN found PROVE AllHeld(found[i], Range(s), P, F)
    <3>1. AllHeld(found[i], Range(store), Started, Subject)
      BY <2>2
    <3> QED BY <1>1, <3>1, Zenon
  <2> QED BY <2>1, <2>2
<1>5. /\ AllHeld(e, Range(s), P, F)
      /\ \A it \in Range(e) : it \in Range(t) \/ \E i \in DOMAIN found : it \in Range(found[i])
  BY <1>2, <1>4, StagedHeld
<1>6. Sighted(e) => Sighted(t) \/ \E i \in DOMAIN found : Sighted(found[i])
  BY <1>5 DEF Sighted
<1>7. Sighted(store) \/ Sighted(e) => backend # "none" /\ Captured
  BY <1>1, <1>6 DEF Kept
<1>8. AllHeld(s, Range(s), P, F) /\ Fed(feed, s)
  BY <1>1, Zenon DEF Kept
<1>9. store' = s /\ feed' = feed /\ staged'.items = e /\ Started' = P /\ Subject' = F
  BY <1>1, <1>3, CallStays
<1> QED BY <1>1, <1>5, <1>7, <1>8, <1>9, CallStays DEF Kept

(* Static evidence is kept as it is, and sees nothing run. *)
LEMMA StaticKept ==
    ASSUME NEW items, StaticItems(items)
    PROVE  AllHeld(items, Range(store), Started, Subject) /\ ~Sighted(items)
<1>1. AllHeld(items, Range(store), Started, Subject)
  BY AllSoundHeld DEF StaticItems
<1>2. ASSUME NEW it \in Range(items) PROVE ~Runtime(it)
  <2>1. Sound(it, {"static"}, {})
    BY ListHas DEF StaticItems, AllSound
  <2> QED BY <2>1 DEF Sound, Runtime
<1> QED BY <1>1, <1>2 DEF Sighted

LEMMA ListSixteen ==
    ASSUME NEW a1, NEW a2, NEW a3, NEW a4, NEW a5, NEW a6, NEW a7, NEW a8, NEW a9, NEW a10, NEW a11, NEW a12, NEW a13, NEW a14, NEW a15, NEW a16
    PROVE  IsList(<<a1, a2, a3, a4, a5, a6, a7, a8, a9, a10, a11, a12, a13, a14, a15, a16>>)
<1>1. <<a1, a2, a3, a4, a5, a6, a7, a8, a9, a10, a11, a12, a13, a14, a15, a16>>
         \in Seq({a1, a2, a3, a4, a5, a6, a7, a8, a9, a10, a11, a12, a13, a14, a15, a16})
  OBVIOUS
<1> QED BY <1>1, ListIs

LEMMA RegistryList == ASSUME NEW plugins, IsList(plugins) PROVE IsList(Registry(plugins))
<1>1. IsList(Builtins)
  BY ListSixteen, Zenon DEF Builtins
<1>2. PICK l : l = plugins \o Builtins /\ IsList(l)
  BY <1>1, ListConcat
<1> QED BY <1>2, ListPicked DEF Registry, Register

LEMMA GatheredNext == ASSUME Inv, [Next]_vars PROVE Gathered'
<1> USE DEF Inv
<1>1. CASE UNCHANGED dispatched
  BY <1>1 DEF dispatched, Gathered
<1>2. CASE Triage
  BY <1>2 DEF Triage, Gathered
<1>3. CASE Dispatch
  <2>0. PICK tag \in tags : \E I : selected' = selected \o Picked(ForFormat(Registry(call.plugins), tag), I)
    BY <1>3, Zenon DEF Dispatch, Filter
  <2>1. PICK I : selected' = selected \o Picked(ForFormat(Registry(call.plugins), tag), I)
    BY <2>0, Zenon
  <2>2. IsList(Registry(call.plugins))
    BY GivenIs, RegistryList
  <2>3. PICK l : l = ForFormat(Registry(call.plugins), tag) /\ IsList(l)
    BY <2>2, ListPicked DEF ForFormat, Filter
  <2>4. PICK m : m = Picked(l, I) /\ IsList(m)
    BY <2>3, ListPicked
  <2>5. PICK n : n = selected \o m /\ IsList(n)
    BY <2>4, ListConcat DEF Gathered
  <2>6. selected' = n
    BY <2>1, <2>3, <2>4, <2>5, Zenon
  <2>7. results' = results
    BY <1>3 DEF Dispatch
  <2> QED BY <2>5, <2>6, <2>7 DEF Gathered
<1>4. CASE Analyze
  <2>1. CASE UNCHANGED results
    BY <1>4, <2>1 DEF Analyze, Gathered
  <2>2. CASE results' = [i \in DOMAIN selected |-> [name |-> selected[i].name,
                            items |-> AnalyzeWith(selected[i], sample.content, call.failing)]]
    <3>1. PICK r : r = results'
      OBVIOUS
    <3>2. /\ r = [i \in DOMAIN selected |-> r[i]]
          /\ \A i \in DOMAIN selected : r[i].items = AnalyzeWith(selected[i], sample.content, call.failing)
      BY <2>2, <3>1
    <3>3. IsList(r) /\ DOMAIN r = DOMAIN selected
      BY <3>2, ListMap DEF Gathered
    <3>4. IsContent(sample.content)
      BY GivenIs
    <3>5. \A i \in DOMAIN r : StaticItems(r[i].items)
      BY <3>2, <3>3, <3>4, AnalyzerSound
    <3>6. selected' = selected
      BY <1>4 DEF Analyze
    <3> QED BY <3>1, <3>3, <3>5, <3>6 DEF Gathered
  <2> QED BY <1>4, <2>1, <2>2, Zenon DEF Analyze
<1>5. CASE Collect /\ results' = Tail(results)
  <2>1. PICK r : r = results /\ IsList(r) /\ r # <<>> /\ results' = Tail(r) /\ \A i \in DOMAIN r : StaticItems(r[i].items)
    BY <1>5 DEF Collect, Gathered
  <2>2. PICK X : X = Range(r) /\ r \in Seq(X)
    BY <2>1 DEF IsList
  <2>3. PICK q : q = Tail(r)
    OBVIOUS
  <2>4. q \in Seq(X) /\ Len(q) = Len(r) - 1 /\ \A i \in 1..Len(q) : q[i] = r[i + 1]
    BY <2>1, <2>2, <2>3, HeadTailProperties
  <2>5. IsList(q)
    BY <2>4, ListIs
  <2>6. ASSUME NEW i \in DOMAIN q PROVE StaticItems(q[i].items)
    <3>1. DOMAIN q = 1..Len(q) /\ Len(q) \in Nat /\ DOMAIN r = 1..Len(r) /\ Len(r) \in Nat
      BY <2>2, <2>4
    <3>2. i + 1 \in DOMAIN r /\ q[i] = r[i + 1]
      BY <2>4, <3>1
    <3> QED BY <2>1, <3>2
  <2>7. selected' = selected
    BY <1>5 DEF Collect
  <2> QED BY <2>1, <2>3, <2>5, <2>6, <2>7 DEF Gathered
<1>6. CASE Collect /\ results' = results
  <2>1. selected' = selected
    BY <1>6 DEF Collect
  <2> QED BY <1>6, <2>1 DEF Gathered
<1>7. Collect => results' = Tail(results) \/ results' = results
  BY DEF Collect
<1> QED
  BY <1>1, <1>2, <1>3, <1>4, <1>5, <1>6, <1>7 DEF Next, vars, Decompile, StartBackend, StageCape, StageMemory, StageTraces, StageDumps, Merge,
     BackendFails, Enrich, Reconstruct, PersistRun, Ask, Propose

LEMMA ConcludedNext == ASSUME Inv, [Next]_vars PROVE Concluded'
<1> USE DEF Inv
<1>1. CASE UNCHANGED vars
  <2>1. call' = call /\ UNCHANGED <<store, bundle, out, saved, answer, pc>>
    BY <1>1 DEF vars, dispatched, evidence, collected, result
  <2> QED BY <2>1, ConcludedStays
<1>2. CASE \/ Triage \/ Dispatch \/ Analyze \/ Collect \/ Decompile
           \/ StartBackend \/ StageCape \/ StageMemory \/ StageTraces \/ StageDumps \/ Merge \/ BackendFails \/ Enrich
  <2>1. /\ call' = call /\ UNCHANGED <<out, saved, answer>> /\ pc \notin {"persist", "done", "answered"}
        /\ pc' \notin {"done", "answered"}
    BY <1>2 DEF Triage, Dispatch, Analyze, Collect, Decompile, StartBackend, StageCape, StageMemory, StageTraces, StageDumps,
       Merge, BackendFails, Enrich, dispatched, result
  <2> QED BY <2>1, ConcludedBefore
<1>3. CASE Reconstruct
  <2>1. sample' = sample /\ isolated' = isolated /\ store' = store
    BY <1>3 DEF Reconstruct, dispatched, evidence, collected, sample, isolated
  <2>2. out' = Conclude(store, sample.raw, isolated) /\ pc' = "persist" /\ answer' = answer /\ pc = "conclude"
    BY <1>3, Zenon DEF Reconstruct
  <2> QED BY <2>1, <2>2 DEF Concluded
<1>4. CASE PersistRun
  <2>1. sample' = sample /\ isolated' = isolated /\ store' = store
    BY <1>4 DEF PersistRun, dispatched, evidence, collected, sample, isolated
  <2>2. out' = out /\ pc' = "done" /\ answer' = answer /\ pc = "persist" /\ saved' = store
    BY <1>4 DEF PersistRun
  <2> QED BY <2>1, <2>2 DEF Concluded
<1>5. CASE Ask \/ Propose
  <2>1. sample' = sample /\ isolated' = isolated /\ store' = store
    BY <1>5 DEF Ask, Propose, dispatched, evidence, collected, sample, isolated
  <2>2. out' = out /\ saved' = saved /\ pc = "done" /\ pc' = "answered"
    BY <1>5 DEF Ask, Propose
  <2> QED BY <2>1, <2>2 DEF Concluded
<1> QED BY <1>1, <1>2, <1>3, <1>4, <1>5 DEF Next

(* What each step of the backend stages. *)
Stages ==
    \E found, name :
        /\ IsList(found) /\ Staging(found, name)
        /\ \A i \in DOMAIN found : /\ AllHeld(found[i], Range(store), Started, Subject)
                                   /\ Sighted(found[i]) => Captured

LEMMA Correlates ==
    ASSUME Kept, NEW items, NEW L, L \subseteq Lanes, NEW P, AllSound(items, L, P), P \subseteq Started
    PROVE  AllHeld(Correlated(items), Range(store), Started, Subject)
  BY AnnotateHeld DEF Kept, Correlated

LEMMA CapeStaged == ASSUME Inv, StageCape PROVE Stages
<1>1. PICK rows : rows = call.bundle.cape /\ IsList(rows) /\ \A r \in Range(rows) : IsCape(r)
  BY GivenIs DEF Inv
<1>2. PICK I : I = {i \in DOMAIN rows : Ingested("dynamic", rows[i], sample, fmt)}
  OBVIOUS
<1>3. PICK taken : taken = Picked(rows, I)
  OBVIOUS
<1>4. IsList(taken) /\ \A i \in DOMAIN taken : taken[i] \in Range(rows) /\ Ingested("dynamic", taken[i], sample, fmt)
  BY <1>1, <1>2, <1>3, FilterHas, ListHas
<1>5. PICK found : found = [i \in DOMAIN taken |-> Correlated(NormalizeCape(taken[i]))]
  OBVIOUS
<1>6. IsList(found) /\ DOMAIN found = DOMAIN taken /\ KeptSeq(found) = found
  BY <1>4, <1>5, ListMap
<1>7. Staging(found, "dynamic.windows.cape(replay)")
  <2>1. Staging(MapSeq(LAMBDA r : Correlated(NormalizeCape(r)), Filter(rows, LAMBDA r : Ingested("dynamic", r, sample, fmt))),
                "dynamic.windows.cape(replay)")
    BY <1>1, Zenon DEF StageCape
  <2>2. Staging(MapSeq(LAMBDA r : Correlated(NormalizeCape(r)), taken), "dynamic.windows.cape(replay)")
    BY <1>2, <1>3, <2>1, Zenon DEF Filter
  <2> QED BY <1>5, <1>6, <2>2, Zenon DEF MapSeq
<1>8. ASSUME NEW i \in DOMAIN found
      PROVE  AllHeld(found[i], Range(store), Started, Subject) /\ (Sighted(found[i]) => Captured)
  <2>1. PICK r : r = taken[i] /\ r \in Range(call.bundle.cape) /\ IsCape(r) /\ Ingested("dynamic", r, sample, fmt)
    BY <1>1, <1>4, <1>6
  <2>2. AllSound(NormalizeCape(r), {"dynamic"}, Pids(Range(r.processes)))
    BY <2>1, CapeSound
  <2>3. Pids(Range(r.processes)) \subseteq Started
    BY <2>1 DEF Started, SeenStarting
  <2>4. AllHeld(Correlated(NormalizeCape(r)), Range(store), Started, Subject)
    <3>1. {"dynamic"} \subseteq Lanes
      BY DEF Lanes
    <3> QED BY <2>2, <2>3, <3>1, Correlates DEF Inv
  <2>5. Captured
    <3>1. r.target = sample.sha256 /\ r \in Range(call.bundle["cape"])
      BY <2>1 DEF Ingested, Declares
    <3> QED BY <3>1 DEF Captured
  <2>6. found[i] = Correlated(NormalizeCape(r))
    BY <1>5, <1>6, <2>1
  <2> QED BY <2>4, <2>5, <2>6
<1> QED BY <1>6, <1>7, <1>8 DEF Stages

LEMMA MemoryStaged == ASSUME Inv, StageMemory PROVE Stages
<1>1. PICK rows : rows = call.bundle.memory /\ IsList(rows) /\ \A r \in Range(rows) : IsMemory(r.sections)
  BY GivenIs DEF Inv
<1>2. PICK I : I = {i \in DOMAIN rows : Ingested("memory", rows[i], sample, fmt)}
  OBVIOUS
<1>3. PICK taken : taken = Picked(rows, I)
  OBVIOUS
<1>4. IsList(taken) /\ \A i \in DOMAIN taken : taken[i] \in Range(rows) /\ Ingested("memory", taken[i], sample, fmt)
  BY <1>1, <1>2, <1>3, FilterHas, ListHas
<1>5. PICK found : found = [i \in DOMAIN taken |-> Correlated(NormalizeMemory(taken[i].sections))]
  OBVIOUS
<1>6. IsList(found) /\ DOMAIN found = DOMAIN taken /\ KeptSeq(found) = found
  BY <1>4, <1>5, ListMap
<1>7. Staging(found, "memory.vol3(replay)")
  <2>1. Staging(MapSeq(LAMBDA r : Correlated(NormalizeMemory(r.sections)), Filter(rows, LAMBDA r : Ingested("memory", r, sample, fmt))),
                "memory.vol3(replay)")
    BY <1>1, Zenon DEF StageMemory
  <2>2. Staging(MapSeq(LAMBDA r : Correlated(NormalizeMemory(r.sections)), taken), "memory.vol3(replay)")
    BY <1>2, <1>3, <2>1, Zenon DEF Filter
  <2> QED BY <1>5, <1>6, <2>2, Zenon DEF MapSeq
<1>8. ASSUME NEW i \in DOMAIN found
      PROVE  AllHeld(found[i], Range(store), Started, Subject) /\ (Sighted(found[i]) => Captured)
  <2>1. PICK r : r = taken[i] /\ r \in Range(call.bundle.memory) /\ IsMemory(r.sections) /\ Ingested("memory", r, sample, fmt)
    BY <1>1, <1>4, <1>6
  <2>2. AllSound(NormalizeMemory(r.sections), {"memory"}, Started)
    BY <2>1, NamingStarted, MemorySound
  <2>4. AllHeld(Correlated(NormalizeMemory(r.sections)), Range(store), Started, Subject)
    <3>1. {"memory"} \subseteq Lanes
      BY DEF Lanes
    <3> QED BY <2>2, <3>1, Correlates DEF Inv
  <2>5. Captured
    <3>1. r.target = sample.sha256 /\ r \in Range(call.bundle["memory"])
      BY <2>1 DEF Ingested, Declares
    <3> QED BY <3>1 DEF Captured
  <2>6. found[i] = Correlated(NormalizeMemory(r.sections))
    BY <1>5, <1>6, <2>1
  <2> QED BY <2>4, <2>5, <2>6
<1> QED BY <1>6, <1>7, <1>8 DEF Stages

LEMMA TracesStaged == ASSUME Inv, StageTraces PROVE Stages
<1>1. PICK taken : taken = call.bundle.trace /\ IsList(taken) /\ \A r \in Range(taken) : IsRuntime(r)
  BY GivenIs DEF Inv
<1>2. PICK found : found = [i \in DOMAIN taken |-> Correlated(NormalizeRuntime(taken[i]))]
  OBVIOUS
<1>3. IsList(found) /\ DOMAIN found = DOMAIN taken /\ KeptSeq(found) = found
  BY <1>1, <1>2, ListMap
<1>4. Staging(found, "dynamic.runtime")
  <2>1. Staging(MapSeq(LAMBDA r : Correlated(NormalizeRuntime(r)), taken), "dynamic.runtime")
    BY <1>1, Zenon DEF StageTraces
  <2> QED BY <1>2, <1>3, <2>1, Zenon DEF MapSeq
<1>5. ASSUME NEW i \in DOMAIN found
      PROVE  AllHeld(found[i], Range(store), Started, Subject) /\ (Sighted(found[i]) => Captured)
  <2>1. PICK r : r = taken[i] /\ r \in Range(call.bundle.trace) /\ IsRuntime(r) /\ Declares(r, sample) /\ ~RuntimeRefused(r)
    BY <1>1, <1>3, ListHas DEF StageTraces
  <2>2. AllSound(NormalizeRuntime(r), Lanes, Pids(Range(r.after)))
    BY <2>1, RuntimeReportSound DEF Lanes
  <2>3. Pids(Range(r.after)) \subseteq Started
    BY <2>1 DEF Started, SeenStarting
  <2>4. AllHeld(Correlated(NormalizeRuntime(r)), Range(store), Started, Subject)
    BY <2>2, <2>3, Correlates DEF Inv
  <2>5. Captured
    <3>1. r.target = sample.sha256 /\ r \in Range(call.bundle["trace"])
      BY <2>1 DEF Declares
    <3> QED BY <3>1 DEF Captured
  <2>6. found[i] = Correlated(NormalizeRuntime(r))
    BY <1>2, <1>3, <2>1
  <2> QED BY <2>4, <2>5, <2>6
<1> QED BY <1>3, <1>4, <1>5 DEF Stages

LEMMA DumpsStaged == ASSUME Inv, StageDumps PROVE Stages
<1>1. PICK rows : rows = call.bundle.dump /\ IsList(rows) /\ \A r \in Range(rows) : IsMemory(r.sections)
  BY GivenIs DEF Inv
<1>2. PICK I : I = {i \in DOMAIN rows : call.platform /\ rows[i].read}
  OBVIOUS
<1>3. PICK taken : taken = Picked(rows, I)
  OBVIOUS
<1>4. IsList(taken) /\ \A i \in DOMAIN taken : taken[i] \in Range(rows) /\ call.platform /\ taken[i].read
  <2>1. IsList(taken) /\ \A i \in DOMAIN taken : \E j \in I \cap DOMAIN rows : taken[i] = rows[j]
    BY <1>1, <1>3, FilterHas
  <2>2. \A j \in I : call.platform /\ rows[j].read
    BY <1>2, ZenonT(30)
  <2>3. \A j \in DOMAIN rows : rows[j] \in Range(rows)
    BY <1>1, ListHas
  <2>4. ASSUME NEW i \in DOMAIN taken PROVE taken[i] \in Range(rows) /\ call.platform /\ taken[i].read
    <3>1. PICK j \in I \cap DOMAIN rows : taken[i] = rows[j]
      BY <2>1
    <3>2. call.platform /\ rows[j].read
      BY <2>2, <3>1, Zenon
    <3>3. taken[i].read <=> rows[j].read
      BY <3>1, Zenon
    <3>4. taken[i] \in Range(rows)
      BY <2>3, <3>1
    <3> QED BY <3>2, <3>3, <3>4, Zenon
  <2> QED BY <2>1, <2>4, Zenon
<1>5. PICK found : found = [i \in DOMAIN taken |-> NormalizeMemory(taken[i].sections)]
  OBVIOUS
<1>6. IsList(found) /\ DOMAIN found = DOMAIN taken /\ KeptSeq(found) = found
  BY <1>4, <1>5, ListMap
<1>7. Staging(found, "memory.vol3(image)")
  <2>1. Staging(MapSeq(LAMBDA d : NormalizeMemory(d.sections), Filter(rows, LAMBDA d : call.platform /\ d.read)),
                "memory.vol3(image)")
    BY <1>1, Zenon DEF StageDumps
  <2>2. Staging(MapSeq(LAMBDA d : NormalizeMemory(d.sections), taken), "memory.vol3(image)")
    BY <1>2, <1>3, <2>1, Zenon DEF Filter
  <2> QED BY <1>5, <1>6, <2>2, Zenon DEF MapSeq
<1>8. ASSUME NEW i \in DOMAIN found
      PROVE  AllHeld(found[i], Range(store), Started, Subject) /\ (Sighted(found[i]) => Captured)
  <2>1. PICK d : d = taken[i] /\ d \in Range(call.bundle.dump) /\ IsMemory(d.sections)
    BY <1>1, <1>4, <1>6
  <2>2. AllSound(NormalizeMemory(d.sections), {"memory"}, Started)
    BY <2>1, NamingStarted, MemorySound
  <2>3. AllHeld(NormalizeMemory(d.sections), Range(store), Started, Subject)
    <3>1. {"memory"} \subseteq {"static"} \union Lanes
      BY DEF Lanes
    <3> QED BY <2>2, <3>1, AllSoundHeld
  <2>4. Captured
    BY <1>4, <1>6, <2>1, Zenon DEF Captured
  <2>5. found[i] = NormalizeMemory(d.sections)
    BY <1>5, <1>6, <2>1
  <2> QED BY <2>3, <2>4, <2>5
<1> QED BY <1>6, <1>7, <1>8 DEF Stages

LEMMA KeptNext == ASSUME Inv, [Next]_vars PROVE Kept'
<1> USE DEF Inv
<1>1. CASE UNCHANGED vars
  <2>1. call' = call /\ UNCHANGED <<store, feed, staged>> /\ pc' = pc
    BY <1>1 DEF vars, dispatched, evidence, collected
  <2> QED BY <2>1, KeptStays DEF Kept
<1>2. CASE Triage \/ Dispatch \/ Analyze \/ Reconstruct \/ PersistRun \/ Ask \/ Propose
  <2>1. call' = call /\ UNCHANGED <<store, feed, staged>> /\ pc' \notin AtBackend
    BY <1>2 DEF Triage, Dispatch, Analyze, Reconstruct, PersistRun, Ask, Propose, dispatched, evidence, collected, AtBackend
  <2> QED BY <2>1, KeptStays
<1>3. CASE Collect
  <2>1. PICK items : items = Head(results).items /\ ((\E names : Add(items, names)) \/ AddSome(items))
    BY <1>3 DEF Collect
  <2>2. call' = call /\ staged' = staged /\ pc' \notin AtBackend
    BY <1>3 DEF Collect, collected, AtBackend
  <2>3. StaticItems(items)
    <3>1. Head(results) = results[1] /\ 1 \in DOMAIN results
      <4>1. results # <<>> /\ IsList(results)
        BY <1>3 DEF Collect, Gathered
      <4> QED BY <4>1, HeadTailProperties DEF IsList
    <3> QED BY <2>1, <3>1 DEF Gathered
  <2> QED BY <2>1, <2>2, <2>3, StaticKept, KeptMore, KeptSome
<1>4. CASE Decompile
  <2>1. CASE UNCHANGED evidence
    <3>1. call' = call /\ UNCHANGED <<store, feed, staged>> /\ pc' \notin AtBackend
      BY <1>4, <2>1 DEF Decompile, dispatched, evidence, collected, AtBackend
    <3> QED BY <3>1, KeptStays
  <2>2. CASE /\ call.decompiled # None
             /\ Add(GhidraItems(call.decompiled), <<"static.ghidra">>) \/ AddSome(GhidraItems(call.decompiled))
    <3>1. call' = call /\ staged' = staged /\ pc' \notin AtBackend
      BY <1>4 DEF Decompile, dispatched, collected, AtBackend
    <3>2. StaticItems(GhidraItems(call.decompiled))
      BY <2>2, GivenIs, GhidraSound
    <3>3. PICK items : StaticItems(items) /\ ((\E names : Add(items, names)) \/ AddSome(items))
      BY <2>2, <3>2
    <3> QED BY <3>1, <3>3, StaticKept, KeptMore, KeptSome
  <2> QED BY <1>4, <2>1, <2>2 DEF Decompile
<1>5. CASE StartBackend
  <2>1. call' = call /\ UNCHANGED <<store, feed, staged>> /\ (pc' \in AtBackend => backend # "none")
    BY <1>5 DEF StartBackend, dispatched, evidence, collected, AtBackend
  <2> QED BY <2>1, KeptStays
<1>6. CASE BackendFails
  <2>1. PICK s, f, e : s = store /\ f = feed /\ e = <<>>
    OBVIOUS
  <2>2. call' = call /\ store' = s /\ feed' = f /\ staged'.items = e /\ pc' \notin AtBackend
    BY <1>6, <2>1 DEF BackendFails, dispatched, evidence, AtBackend, NothingStaged
  <2>3. AllHeld(e, Range(s), Started, Subject) /\ ~Sighted(e)
    BY <2>1, ListEmpty DEF AllHeld, Sighted
  <2> QED BY <2>1, <2>2, <2>3, CallStays DEF Kept
<1>7. CASE Enrich
  <2>1. CASE UNCHANGED evidence
    <3>1. call' = call /\ UNCHANGED <<store, feed, staged>> /\ pc' \notin AtBackend
      BY <1>7, <2>1 DEF Enrich, dispatched, evidence, collected, AtBackend
    <3> QED BY <3>1, KeptStays
  <2>2. CASE /\ call.snapshot # None
             /\ Add(EnrichSnapshot(store, call.snapshot), <<>>) \/ AddSome(EnrichSnapshot(store, call.snapshot))
    <3>1. call' = call /\ staged' = staged /\ pc' \notin AtBackend
      BY <1>7 DEF Enrich, dispatched, collected, AtBackend
    <3>2. AllSound(EnrichSnapshot(store, call.snapshot), {"enrich"}, Started)
      BY <2>2, GivenIs, EnrichSound DEF Kept, AllHeld
    <3>3. PICK items : AllSound(items, {"enrich"}, Started) /\ ((\E names : Add(items, names)) \/ AddSome(items))
      BY <2>2, <3>2
    <3>4. AllHeld(items, Range(store), Started, Subject)
      <4>1. {"enrich"} \subseteq {"static"} \union Lanes
        BY DEF Lanes
      <4> QED BY <3>3, <4>1, AllSoundHeld
    <3>5. ASSUME NEW it \in Range(items) PROVE ~Runtime(it)
      <4>1. Sound(it, {"enrich"}, Started)
        BY <3>3, ListHas DEF AllSound
      <4> QED BY <4>1 DEF Sound, Runtime
    <3> QED BY <3>1, <3>3, <3>4, <3>5, KeptMore, KeptSome DEF Sighted
  <2> QED BY <1>7, <2>1, <2>2 DEF Enrich
<1>8. CASE Merge
  <2>0. IsList(staged.items)
    BY DEF Kept, AllHeld
  <2>1. PICK P, F, s, f, t, e : /\ P = Started /\ F = Subject /\ s = store /\ f = feed /\ e = <<>>
                                /\ IsList(t) /\ Range(t) \subseteq Range(staged.items) /\ \E names : Add(t, names)
    <3>1. (\E names : Add(staged.items, names)) \/ AddSome(staged.items)
      BY <1>8 DEF Merge
    <3>2. PICK t : IsList(t) /\ Range(t) \subseteq Range(staged.items) /\ \E names : Add(t, names)
      BY <2>0, <3>1, SomeAdded
    <3> QED BY <3>2
  <2>2. PICK names : Add(t, names)
    BY <2>1
  <2>3. PICK x, g : x = Extend(s, t) /\ g = f \o MapSeq(FormatEvent, SubSeq(x, Len(s) + 1, Len(x)))
    OBVIOUS
  <2>4. store' = x /\ feed' = g
    BY <2>1, <2>2, <2>3, Zenon DEF Add
  <2>5. AllHeld(s, Range(s), P, F) /\ AllHeld(t, Range(s), P, F) /\ Fed(f, s)
    <3>1. AllHeld(staged.items, Range(store), Started, Subject) /\ AllHeld(store, Range(store), Started, Subject) /\ Fed(feed, store)
      BY DEF Kept
    <3>2. AllHeld(t, Range(store), Started, Subject)
      BY <2>1, <3>1 DEF AllHeld
    <3> QED BY <2>1, <3>1, <3>2, Zenon
  <2>6. /\ AllHeld(x, Range(x), P, F) /\ Fed(g, x) /\ Range(x) \subseteq Range(s) \cup Range(t)
    BY <2>3, <2>5, AddHeld, Zenon
  <2>7. Sighted(x) => backend # "none" /\ Captured
    BY <2>1, <2>6 DEF Kept, Sighted
  <2>8. AllHeld(e, Range(x), P, F) /\ ~Sighted(e)
    BY <2>1, ListEmpty DEF AllHeld, Sighted
  <2>9. call' = call /\ staged'.items = e /\ pc' \notin AtBackend
    BY <1>8, <2>1 DEF Merge, dispatched, AtBackend, NothingStaged
  <2>10. Started' = P /\ Subject' = F
    BY <2>1, <2>9, CallStays
  <2> QED BY <2>4, <2>6, <2>7, <2>8, <2>9, <2>10, CallStays DEF Kept
<1>9. CASE StageCape \/ StageMemory \/ StageTraces \/ StageDumps
  <2>1. call' = call /\ UNCHANGED <<store, feed>> /\ backend # "none"
    BY <1>9 DEF StageCape, StageMemory, StageTraces, StageDumps, dispatched, evidence, Kept, AtBackend
  <2>2. Stages
    <3>1. CASE StageCape
      BY <1>9, <3>1, CapeStaged
    <3>2. CASE StageMemory
      BY <1>9, <3>2, MemoryStaged
    <3>3. CASE StageTraces
      BY <1>9, <3>3, TracesStaged
    <3>4. CASE StageDumps
      BY <1>9, <3>4, DumpsStaged
    <3> QED BY <1>9, <3>1, <3>2, <3>3, <3>4
  <2> QED BY <2>1, <2>2, KeptStaged DEF Stages
<1> QED BY <1>1, <1>2, <1>3, <1>4, <1>5, <1>6, <1>7, <1>8, <1>9 DEF Next

(* The inductive invariant: what is kept, staged and concluded hang
   together at every step. *)
THEOREM Consistent == Spec => []Inv
<1>1. Init => Inv
  BY InvInit
<1>2. ASSUME Inv, [Next]_vars PROVE Inv'
  <2>1. call' = call
    BY <1>2 DEF Next, vars, dispatched, Triage, Dispatch, Analyze, Collect, Decompile, StartBackend, StageCape, StageMemory,
       StageTraces, StageDumps, Merge, BackendFails, Enrich, Reconstruct, PersistRun, Ask, Propose
  <2>2. Gathered' /\ Kept' /\ Concluded'
    BY <1>2, GatheredNext, KeptNext, ConcludedNext
  <2> QED BY <1>2, <2>1, <2>2 DEF Inv
<1> QED BY <1>1, <1>2, PTL DEF Spec

(* An address is tied only to a function of the sample that it lies in,
   and nothing known of where it is says otherwise, whatever was found by
   whom and in which order it was appended. *)
THEOREM AddressesMatch == Spec => []AddressesMatchTheSample
<1>1. ASSUME Inv PROVE AddressesMatchTheSample
  <2> SUFFICES ASSUME NEW it \in Range(store), Has(it.details, "address_correlations")
               PROVE  Placed(it, Range(store), Subject)
    <3>1. Subject.sha256 = sample.sha256 /\ Subject.name = sample.name
      BY DEF Subject
    <3> QED BY <3>1, SMTT(60) DEF AddressesMatchTheSample, Placed
  <2> QED BY <1>1 DEF Inv, Kept, AllHeld, Held, Has
<1> QED BY <1>1, Consistent, PTL

-----------------------------------------------------------------------------
(* yara_gen.py *)
LEMMA PrefixFinite == ASSUME NEW s, IsList(s), NEW n \in Nat PROVE IsFiniteSet(Range(SubSeq(s, 1, Min({n, Len(s)}))))
<1>1. PICK L : L = Len(s) /\ L \in Nat /\ DOMAIN s = 1..L
  BY ListHas
<1>2. PICK m : m = Min({n, L}) /\ m \in Nat /\ m <= L
  BY <1>1, MinIs
<1>3. \A i \in 1..m : s[i] \in Range(s)
  BY <1>1, <1>2, ListHas
<1>4. SubSeq(s, 1, m) \in Seq(Range(s))
  <2>1. PICK a : a = 1 /\ a \in Int /\ m \in Int /\ \A i \in a..m : s[i] \in Range(s)
    BY <1>2, <1>3
  <2>2. SubSeq(s, a, m) \in Seq(Range(s))
    BY <2>1, SubSeqProperties
  <2> QED BY <2>1, <2>2
<1>5. IsList(SubSeq(s, 1, m))
  BY <1>4, ListIs
<1> QED BY <1>1, <1>2, <1>5, ListFinite

LEMMA CandidatesFinite == ASSUME NEW s, IsList(s), NEW raw, IsFiniteSet(raw)
                          PROVE  IsFiniteSet(Range(CandidateStrings(s, raw)))
<1> DEFINE Of(d, k)  == IF Has(d, k) THEN {d[k]} ELSE {}
           Named(it) == {tok \in Of(it.details, "decoded_preview") \union Of(it.object, "sink")
                              \union Of(it.object, "value") : ~Has_(tok, "stop")}
                     \union Of(it.object, "yara_rule")
           named  == UNION {Named(s[i]) : i \in DOMAIN s}
           known  == ListOf(IF Cardinality(named) < 2 THEN named \union raw ELSE named)
           Rank(n) == Filter(known, LAMBDA tok : Specificity(tok) = n)
           ranked == Flatten(MapSeq(Rank, <<6, 5, 4, 3, 2, 1, 0>>))
<1>1. CandidateStrings(s, raw) = SubSeq(ranked, 1, Min({MaxStrings, Len(ranked)}))
  BY Zenon DEF CandidateStrings
<1>2. ASSUME NEW it PROVE IsFiniteSet(Named(it))
  <2>1. ASSUME NEW d, NEW k PROVE IsFiniteSet(Of(d, k))
    BY FS_EmptySet, FS_Singleton
  <2> HIDE DEF Of
  <2>2. PICK A, B, C, D : /\ A = Of(it.details, "decoded_preview") /\ B = Of(it.object, "sink")
                          /\ C = Of(it.object, "value") /\ D = Of(it.object, "yara_rule")
    OBVIOUS
  <2>3. IsFiniteSet(A \union B \union C)
    BY <2>1, <2>2, FS_Union
  <2>4. IsFiniteSet({tok \in A \union B \union C : ~Has_(tok, "stop")})
    BY <2>3, FS_Subset
  <2> QED BY <2>1, <2>2, <2>4, FS_Union
<1> HIDE DEF Named
<1>3. IsFiniteSet(named)
  <2>1. PICK f : f = [i \in DOMAIN s |-> Named(s[i])]
    OBVIOUS
  <2>2. IsFiniteSet(DOMAIN s)
    BY ListHas, FS_Interval
  <2>3. \A i \in DOMAIN s : IsFiniteSet(f[i])
    BY <1>2, <2>1
  <2>4. named = UNION {f[i] : i \in DOMAIN s}
    BY <2>1
  <2> QED BY <2>2, <2>3, <2>4, FiniteUnion
<1> HIDE DEF named
<1>4. IsList(known)
  <2>1. IsFiniteSet(IF Cardinality(named) < 2 THEN named \union raw ELSE named)
    BY <1>3, FS_Union
  <2> QED BY <2>1, ListOfIs
<1> HIDE DEF known
<1>5. ASSUME NEW n PROVE IsList(Rank(n))
  BY <1>4, FilterIs DEF Filter
<1> HIDE DEF Rank
<1>6. IsList(ranked)
  <2>1. PICK r : r = <<6, 5, 4, 3, 2, 1, 0>>
    OBVIOUS
  <2>2. IsList(r)
    <3>1. r \in Seq(Int)
      BY <2>1
    <3> QED BY <3>1, ListIs
  <2>3. PICK f : f = [i \in DOMAIN r |-> Rank(r[i])]
    OBVIOUS
  <2>4. f = [i \in DOMAIN r |-> f[i]] /\ \A i \in DOMAIN r : IsList(f[i])
    BY <1>5, <2>3
  <2>5. IsList(Flatten(KeptSeq(f)))
    BY <2>2, <2>4, FlatMap
  <2>6. ranked = Flatten(KeptSeq(f))
    BY <2>1, <2>3, Zenon DEF MapSeq
  <2> QED BY <2>5, <2>6
<1> HIDE DEF ranked
<1> QED BY <1>1, <1>6, PrefixFinite, SignatureAssumption

LEMMA CleanIs ==
    ASSUME NEW rule, IsFiniteSet(rule.strings), rule.condition_min \in Nat, NEW corpus, NEW r \in MakeClean(rule, corpus)
    PROVE  IsFiniteSet(r.strings) /\ r.condition_min \in Nat /\ \A doc \in corpus : ~MatchesDoc(r, doc)
<1> DEFINE kept  == {tok \in rule.strings : \A doc \in corpus : <<tok, "raw">> \notin doc}
           start == Min({rule.condition_min, Cardinality(kept)})
           With(n) == [strings |-> kept, condition_min |-> n]
           clean == {n \in start..Cardinality(kept) : PassesCleanCorpus({With(n)}, corpus)}
<1>1. MakeClean(rule, corpus) = IF kept = {} \/ clean = {} THEN {} ELSE {With(Min(clean))}
  BY Zenon DEF MakeClean
<1>2. IsFiniteSet(kept) /\ Cardinality(kept) \in Nat
  BY FS_Subset, FS_CardinalityType
<1> HIDE DEF kept
<1>3. start \in Nat
  <2>1. PICK c : c = Cardinality(kept) /\ c \in Nat
    BY <1>2
  <2>2. Min({rule.condition_min, c}) \in Nat
    BY <2>1, MinIs
  <2> QED BY <2>1, <2>2
<1> HIDE DEF start
<1>4. clean \subseteq Nat
  BY <1>2, <1>3
<1>5. \A n \in clean : PassesCleanCorpus({With(n)}, corpus)
  OBVIOUS
<1> HIDE DEF clean
<1>6. clean # {} /\ r = With(Min(clean))
  BY <1>1
<1>7. PICK n : n = Min(clean) /\ n \in clean /\ n \in Nat
  BY <1>4, <1>6, MinIs
<1>8. r = With(n) /\ PassesCleanCorpus({r}, corpus)
  BY <1>5, <1>6, <1>7
<1> QED BY <1>2, <1>7, <1>8 DEF PassesCleanCorpus

LEMMA YaraIs ==
    ASSUME NEW s, IsList(s), NEW raw, IsFiniteSet(raw), NEW corpus, NEW r \in GenerateYara(s, raw, corpus)
    PROVE  IsFiniteSet(r.strings) /\ r.condition_min \in Nat /\ \A doc \in corpus : ~MatchesDoc(r, doc)
<1>1. PICK strings : strings = Range(CandidateStrings(s, raw)) /\ IsFiniteSet(strings)
  BY CandidatesFinite
<1>2. PICK n : n = Min({2, Cardinality(strings)}) /\ n \in Nat
  <2>1. PICK c : c = Cardinality(strings) /\ c \in Nat
    BY <1>1, FS_CardinalityType
  <2> QED BY <2>1, MinIs
<1>3. PICK rule : rule = [strings |-> strings, condition_min |-> n]
  OBVIOUS
<1>4. r \in MakeClean(rule, corpus)
  BY <1>1, <1>2, <1>3, Zenon DEF GenerateYara
<1> QED BY <1>1, <1>2, <1>3, <1>4, CleanIs

(* A rule that ships matches no clean document: the loop stops only at a
   threshold that no clean document reaches. *)
THEOREM CleanRules == Spec => []CleanRuleShips
<1>1. ASSUME Inv PROVE CleanRuleShips
  <2> SUFFICES ASSUME out # None, NEW rule \in out.yara, NEW doc \in Corpus
               PROVE  Cardinality({tok \in rule.strings : \/ <<tok, "raw">> \in doc
                                                          \/ <<tok, "wide">> \in doc /\ ~Has_(tok, "binary")})
                        < rule.condition_min
    BY Zenon DEF CleanRuleShips
  <2>1. out.yara = GenerateYara(store, sample.raw, Corpus)
    BY <1>1 DEF Inv, Concluded, Conclude
  <2>2. IsList(store) /\ IsFiniteSet(sample.raw)
    BY <1>1, GivenIs DEF Inv, Kept, AllHeld
  <2>3. IsFiniteSet(rule.strings) /\ rule.condition_min \in Nat /\ ~MatchesDoc(rule, doc)
    BY <2>1, <2>2, YaraIs
  <2>4. PICK hit : hit = {tok \in rule.strings : InDoc(tok, doc)}
    OBVIOUS
  <2>5. Cardinality(hit) \in Nat /\ ~(Cardinality(hit) >= rule.condition_min)
    BY <2>3, <2>4, FS_Subset, FS_CardinalityType DEF MatchesDoc
  <2>6. hit = {tok \in rule.strings : <<tok, "raw">> \in doc \/ (<<tok, "wide">> \in doc /\ ~Has_(tok, "binary"))}
    BY <2>4 DEF InDoc
  <2> QED BY <2>3, <2>5, <2>6
<1> QED BY <1>1, Consistent, PTL

-----------------------------------------------------------------------------
(* attack_map.py: the evidence a technique rests on *)
Attributing(s, t) == {i \in DOMAIN s : t \in Techniques(s[i])}

(* bayes.py: what each lane adds to the log-odds of a technique *)
Through(s, t, lane) == {i \in Attributing(s, t) : LaneOf(s[i]) = lane}
LaneDeltas(s, t) ==
    [lane \in {LaneOf(s[i]) : i \in Attributing(s, t)} |-> Pooled([i \in Through(s, t, lane) |-> Support(s[i], t)])]

MappingOf(s, t) ==
    [tactic |-> TacticOf(t),
     cites  |-> {Id(s[i]) : i \in Attributing(s, t)},
     status |-> Strongest({ProvenanceOf(s[i]) : i \in Attributing(s, t)}),
     lanes  |-> {LaneOf(s[i]) : i \in Attributing(s, t)},
     conf   |-> Fuse(LaneDeltas(s, t))]

LEMMA MapWhole ==
    ASSUME NEW s, IsList(s)
    PROVE  /\ \A t : t \in DOMAIN MapEvidence(s) <=> Attributing(s, t) # {}
           /\ MapEvidence(s) = [t \in DOMAIN MapEvidence(s) |-> MappingOf(s, t)]
<1> DEFINE tech == MapSeq(Techniques, s)
           At(t) == {i \in DOMAIN s : t \in tech[i]}
           Lns(t) == {LaneOf(s[i]) : i \in At(t)}
           In(t, lane) == {i \in At(t) : LaneOf(s[i]) = lane}
           Deltas(t) == [lane \in Lns(t) |-> Pooled([i \in In(t, lane) |-> Support(s[i], t)])]
           Cites(t) == {Id(s[i]) : i \in At(t)}
           Status(t) == Strongest({ProvenanceOf(s[i]) : i \in At(t)})
           Mapping(t) == [tactic |-> TacticOf(t), cites |-> Cites(t), status |-> Status(t), lanes |-> Lns(t), conf |-> Fuse(Deltas(t))]
           m == [t \in UNION Range(tech) |-> Mapping(t)]
<1>1. MapEvidence(s) = m
  BY Zenon DEF MapEvidence
<1>2. IsList(tech) /\ DOMAIN tech = DOMAIN s /\ \A i \in DOMAIN s : tech[i] = Techniques(s[i])
  <2>1. PICK f : f = [i \in DOMAIN s |-> Techniques(s[i])]
    OBVIOUS
  <2>2. f = [i \in DOMAIN s |-> f[i]]
    BY <2>1
  <2>3. IsList(f) /\ KeptSeq(f) = f /\ DOMAIN f = DOMAIN s
    BY <2>2, ListMap
  <2>4. tech = f
    BY <2>1, <2>3 DEF MapSeq
  <2> QED BY <2>1, <2>3, <2>4
<1> HIDE DEF tech
<1>3. ASSUME NEW t PROVE At(t) = Attributing(s, t)
  BY <1>2 DEF Attributing
<1> HIDE DEF At
<1>4. ASSUME NEW t PROVE t \in UNION Range(tech) <=> Attributing(s, t) # {}
  BY <1>2 DEF Attributing, Range
<1>5. ASSUME NEW t PROVE Mapping(t) = MappingOf(s, t)
  <2>1. \A lane : In(t, lane) = Through(s, t, lane)
    BY <1>3, Zenon DEF Through
  <2>2. Cites(t) = {Id(s[i]) : i \in Attributing(s, t)} /\ Lns(t) = {LaneOf(s[i]) : i \in Attributing(s, t)}
        /\ Status(t) = Strongest({ProvenanceOf(s[i]) : i \in Attributing(s, t)})
    BY <1>3, Zenon
  <2> HIDE DEF In
  <2>3. Deltas(t) = LaneDeltas(s, t)
    BY <2>1, <2>2, Zenon DEF LaneDeltas
  <2> HIDE DEF Cites, Lns, Status, Deltas
  <2> QED BY <2>2, <2>3, Zenon DEF MappingOf
<1> HIDE DEF Mapping
<1>6. DOMAIN m = UNION Range(tech) /\ m = [t \in DOMAIN m |-> MappingOf(s, t)]
  BY <1>5, Zenon
<1> HIDE DEF m
<1>7. \A t : t \in DOMAIN m <=> Attributing(s, t) # {}
  BY <1>4, <1>6
<1> QED BY <1>1, <1>6, <1>7, Zenon

LEMMA MapIs ==
    ASSUME NEW s, IsList(s)
    PROVE  /\ \A t : t \in DOMAIN MapEvidence(s) <=> Attributing(s, t) # {}
           /\ \A t \in DOMAIN MapEvidence(s) :
                 /\ MapEvidence(s)[t].tactic = TacticOf(t)
                 /\ MapEvidence(s)[t].cites  = {Id(s[i]) : i \in Attributing(s, t)}
                 /\ MapEvidence(s)[t].status = Strongest({ProvenanceOf(s[i]) : i \in Attributing(s, t)})
                 /\ MapEvidence(s)[t].lanes  = {LaneOf(s[i]) : i \in Attributing(s, t)}
                 /\ MapEvidence(s)[t].conf   = Fuse(LaneDeltas(s, t))
<1>1. ASSUME NEW t \in DOMAIN MapEvidence(s) PROVE MapEvidence(s)[t] = MappingOf(s, t)
  BY MapWhole
<1>2. ASSUME NEW t
      PROVE  /\ MappingOf(s, t).tactic = TacticOf(t)
             /\ MappingOf(s, t).cites  = {Id(s[i]) : i \in Attributing(s, t)}
             /\ MappingOf(s, t).status = Strongest({ProvenanceOf(s[i]) : i \in Attributing(s, t)})
             /\ MappingOf(s, t).lanes  = {LaneOf(s[i]) : i \in Attributing(s, t)}
             /\ MappingOf(s, t).conf   = Fuse(LaneDeltas(s, t))
  <2>1. PICK a, b, c, d, e : /\ a = TacticOf(t) /\ b = {Id(s[i]) : i \in Attributing(s, t)}
                             /\ c = Strongest({ProvenanceOf(s[i]) : i \in Attributing(s, t)})
                             /\ d = {LaneOf(s[i]) : i \in Attributing(s, t)} /\ e = Fuse(LaneDeltas(s, t))
    OBVIOUS
  <2>2. MappingOf(s, t) = [tactic |-> a, cites |-> b, status |-> c, lanes |-> d, conf |-> e]
    BY <2>1, Zenon DEF MappingOf
  <2>3. /\ MappingOf(s, t).tactic = a /\ MappingOf(s, t).cites = b /\ MappingOf(s, t).status = c
        /\ MappingOf(s, t).lanes = d /\ MappingOf(s, t).conf = e
    BY <2>2
  <2> QED BY <2>1, <2>3, Zenon
<1>3. \A t : t \in DOMAIN MapEvidence(s) <=> Attributing(s, t) # {}
  BY MapWhole
<1> QED BY <1>1, <1>2, <1>3, Zenon

LEMMA StatusIs == ASSUME NEW s, NEW I
                  PROVE  Strongest({ProvenanceOf(s[i]) : i \in I}) = "observed" <=> \E i \in I : Runtime(s[i])
<1>1. PICK S : S = {ProvenanceOf(s[i]) : i \in I}
  OBVIOUS
<1>2. S \subseteq ThreeStandings
  BY <1>1 DEF ProvenanceOf, ThreeStandings
<1>3. \A i \in I : ProvenanceOf(s[i]) = "observed" <=> Runtime(s[i])
  BY DEF ProvenanceOf
<1>4. Strongest(S) = "observed" <=> "observed" \in S
  <2>1. Strongest(S) \in ThreeStandings /\ (S # {} => Strongest(S) \in S) /\ \A r \in S : StandingRank(r) <= StandingRank(Strongest(S))
    BY <1>2, StrongestIs
  <2>2. "observed" \in S => Strongest(S) = "observed"
    BY <2>1, RankIs DEF ThreeStandings
  <2>3. S = {} => Strongest(S) = "speculative"
    BY DEF Strongest
  <2> QED BY <2>1, <2>2, <2>3
<1> QED BY <1>1, <1>3, <1>4

LEMMA ObservedIs == ASSUME NEW s, IsList(s), NEW t \in DOMAIN MapEvidence(s)
                    PROVE  MapEvidence(s)[t].status = "observed" <=> \E i \in Attributing(s, t) : Runtime(s[i])
<1>1. MapEvidence(s)[t].status = Strongest({ProvenanceOf(s[i]) : i \in Attributing(s, t)})
  BY MapIs
<1> QED BY <1>1, StatusIs

-----------------------------------------------------------------------------
(* narrative.py: every technique has a phase *)
LEMMA PhaseIs == ASSUME NEW t, NEW tactic PROVE PhaseOf(t, tactic) \in Range(Lifecycle)
<1> DEFINE cases == << <<t \in {"T1055", "T1055.001", "T1055.002", "T1055.003", "T1055.004",
                               "T1055.012", "T1620"}, "injection">>,
                       <<tactic = "defense-evasion", "unpack/deobfuscate">>,
                       <<tactic = "privilege-escalation", "injection">>,
                       <<tactic = "reconnaissance", "discovery">>,
                       <<tactic \in Range(Lifecycle), tactic>> >>
<1>1. PhaseOf(t, tactic) = FirstCase(cases, "execution")
  BY Zenon DEF PhaseOf
<1>2. DOMAIN cases = {1, 2, 3, 4, 5} /\ cases[1][2] = "injection" /\ cases[2][2] = "unpack/deobfuscate"
      /\ cases[3][2] = "injection" /\ cases[4][2] = "discovery" /\ cases[5][2] = tactic
  OBVIOUS
<1>3. cases[5][1] <=> tactic \in Range(Lifecycle)
  BY ZenonT(30)
<1> HIDE DEF cases
<1>4. /\ Lifecycle[1] = "execution" /\ Lifecycle[2] = "unpack/deobfuscate" /\ Lifecycle[3] = "injection"
      /\ Lifecycle[4] = "discovery" /\ DOMAIN Lifecycle = 1..10
  BY DEF Lifecycle
<1>5. {"execution", "unpack/deobfuscate", "injection", "discovery"} \subseteq Range(Lifecycle)
  BY <1>4 DEF Range
<1>6. FirstCase(cases, "execution") = "execution"
      \/ \E k \in {1, 2, 3, 4, 5} : cases[k][1] /\ FirstCase(cases, "execution") = cases[k][2]
  BY <1>2, FirstCaseIs
<1> QED BY <1>1, <1>2, <1>3, <1>5, <1>6

LEMMA NarrativeIs ==
    ASSUME NEW s, IsList(s), NEW phases, phases = BuildNarrative(MapEvidence(s))
    PROVE  RuntimeObserved(phases) <=> \E t \in DOMAIN MapEvidence(s) : MapEvidence(s)[t].status = "observed"
<1>1. PICK map : map = MapEvidence(s) /\ Standing3(map)
  BY MapStanding
<1> DEFINE Here(n) == {t \in DOMAIN map : PhaseOf(t, map[t].tactic) = Lifecycle[n]}
<1>2. /\ DOMAIN phases = DOMAIN Lifecycle
      /\ \A n \in DOMAIN Lifecycle : /\ phases[n].reached <=> Here(n) # {}
                                     /\ phases[n].status = Strongest({map[t].status : t \in Here(n)})
  BY <1>1, ZenonT(60) DEF BuildNarrative
<1>3. ASSUME NEW n \in DOMAIN Lifecycle
      PROVE  phases[n].reached /\ phases[n].status = "observed" <=> \E t \in Here(n) : map[t].status = "observed"
  <2>1. PICK S : S = {map[t].status : t \in Here(n)} /\ S \subseteq ThreeStandings
    BY <1>1 DEF Standing3
  <2>2. Strongest(S) \in ThreeStandings /\ (S # {} => Strongest(S) \in S) /\ \A r \in S : StandingRank(r) <= StandingRank(Strongest(S))
    BY <2>1, StrongestIs
  <2>3. "observed" \in S => Strongest(S) = "observed"
    BY <2>2, RankIs DEF ThreeStandings
  <2>4. (S # {}) <=> (Here(n) # {})
    BY <2>1
  <2>5. "observed" \in S <=> \E t \in Here(n) : map[t].status = "observed"
    BY <2>1
  <2>6. (phases[n].reached <=> Here(n) # {}) /\ phases[n].status = Strongest(S)
    BY <1>2, <2>1
  <2> HIDE DEF Here
  <2> QED BY <2>2, <2>3, <2>4, <2>5, <2>6
<1>4. ASSUME NEW t \in DOMAIN map PROVE \E n \in DOMAIN Lifecycle : t \in Here(n)
  BY PhaseIs DEF Range
<1>5. RuntimeObserved(phases) <=> \E n \in DOMAIN Lifecycle : \E t \in Here(n) : map[t].status = "observed"
  BY <1>2, <1>3 DEF RuntimeObserved
<1> QED BY <1>1, <1>4, <1>5

LEMMA MapFinite == ASSUME NEW s, IsList(s) PROVE IsFiniteSet(DOMAIN MapEvidence(s))
<1>1. IsFiniteSet(DOMAIN RuleBase)
  <2> DEFINE a == "T1059" :> 90 @@ "T1059.005" :> 80 @@ "T1059.004" :> 85 @@ "T1027" :> 90
             b == a @@ "T1140" :> 85 @@ "T1055" :> 92 @@ "T1071" :> 70 @@ "T1105" :> 70
             c == b @@ "T1547.001" :> 70 @@ "T1053" :> 70 @@ "T1059.001" :> 80 @@ "T1505.003" :> 85
             d == c @@ "T1056.001" :> 60 @@ "T1486" :> 70 @@ "T1490" :> 85 @@ "T1552.001" :> 85
  <2>1. RuleBase = d
    BY Zenon DEF RuleBase
  <2>2. IsFiniteSet(DOMAIN a)
    BY FinitePair, FiniteJoin
  <2> HIDE DEF a
  <2>3. IsFiniteSet(DOMAIN b)
    BY <2>2, FinitePair, FiniteJoin
  <2> HIDE DEF b
  <2>4. IsFiniteSet(DOMAIN c)
    BY <2>3, FinitePair, FiniteJoin
  <2> HIDE DEF c
  <2>5. IsFiniteSet(DOMAIN d)
    BY <2>4, FinitePair, FiniteJoin
  <2> QED BY <2>1, <2>5
<1>2. ASSUME NEW it PROVE IsFiniteSet(Techniques(it))
  <2>1. Hinted(it) \subseteq {it.details["attack_hint"]} /\ ByRule(it) \subseteq DOMAIN RuleBase
    BY DEF Hinted, ByRule, Is
  <2>2. IsFiniteSet({it.details["attack_hint"]})
    BY FS_Singleton
  <2>3. IsFiniteSet(Hinted(it)) /\ IsFiniteSet(ByRule(it))
    BY <1>1, <2>1, <2>2, FS_Subset
  <2> QED BY <2>3, FS_Union DEF Techniques
<1>3. PICK f : f = [i \in DOMAIN s |-> Techniques(s[i])]
  OBVIOUS
<1>4. IsFiniteSet(UNION {f[i] : i \in DOMAIN s})
  <2>1. IsFiniteSet(DOMAIN s)
    BY ListHas, FS_Interval
  <2>2. \A i \in DOMAIN s : IsFiniteSet(f[i])
    BY <1>2, <1>3
  <2> QED BY <2>1, <2>2, FiniteUnion
<1>5. \A t \in DOMAIN MapEvidence(s) : t \in UNION {f[i] : i \in DOMAIN s}
  <2>1. \A t \in DOMAIN MapEvidence(s) : Attributing(s, t) # {}
    BY MapIs
  <2> QED BY <1>3, <2>1 DEF Attributing
<1> QED BY <1>4, <1>5, FS_Subset

LEMMA CoverageIs ==
    ASSUME NEW s, IsList(s), NEW sigma, NEW yara, NEW c, c = ComputeCoverage(MapEvidence(s), sigma, yara)
    PROVE  /\ c.observed_techniques > 0 <=> \E t \in DOMAIN MapEvidence(s) : MapEvidence(s)[t].status = "observed"
           /\ c.covered \subseteq DOMAIN MapEvidence(s)
<1>1. PICK map : map = MapEvidence(s)
  OBVIOUS
<1> DEFINE covered == CoveredIds(map, sigma, yara)
           obs     == {t \in DOMAIN map : map[t].status = "observed"}
           shown   == {k \in Range(Tactics) : OfTactic(map, k) # {}}
           per     == [k \in shown |-> [observed |-> OfTactic(map, k), covered |-> OfTactic(map, k) \intersect covered]]
           inferred == Cardinality(DOMAIN map \ obs)
           rules   == IF obs = {} THEN 0 ELSE Cardinality({r \in sigma : r.tags \intersect obs # {}})
           share   == IF obs = {} THEN "N/A" ELSE obs \intersect covered
           able    == yara > 0 \/ sigma # {}
<1>2. c = [per_tactic |-> per, covered |-> covered, observed_techniques |-> Cardinality(obs), inferred_techniques |-> inferred,
           runtime_rules |-> rules, runtime_coverage |-> share, detectable |-> able]
  BY <1>1, Zenon DEF ComputeCoverage
<1>3. covered \subseteq DOMAIN map
  BY DEF CoveredIds
<1>4. IsFiniteSet(obs)
  BY <1>1, MapFinite, FS_Subset
<1>5. obs # {} <=> \E t \in DOMAIN map : map[t].status = "observed"
  OBVIOUS
<1> HIDE DEF covered, obs, per, inferred, rules, share, able
<1>6. c.observed_techniques = Cardinality(obs) /\ c.covered = covered
  BY <1>2
<1>7. Cardinality(obs) \in Nat /\ (Cardinality(obs) = 0 <=> obs = {})
  BY <1>4, FS_CardinalityType, FS_EmptySet
<1> QED BY <1>1, <1>3, <1>5, <1>6, <1>7

(* runtime.py: what the view shows *)
LEMMA ViewIs ==
    ASSUME NEW s, NEW v, v = BuildRuntimeView(s)
    PROVE  /\ v.observed <=> \E i \in DOMAIN s : Seen(s[i])
           /\ v.hidden = {Id(s[i]) : i \in {j \in DOMAIN s : Hiding(s[j])}}
           /\ v.tree = ProcessTree(s)
<1> DEFINE obs == \E i \in DOMAIN s : Seen(s[i])
           hid == {Id(s[i]) : i \in {j \in DOMAIN s : Hiding(s[j])}}
           hook == {Id(s[i]) : i \in {j \in DOMAIN s : Hooked(s[j])}}
           conf == {Id(s[i]) : i \in {j \in DOMAIN s : /\ Shown(s[j]) /\ Has(s[j].details, "memory_extracted")
                                                       /\ \E k \in {"encrypted_count", "key_material", "value"} : Has(s[j].object, k)}}
           inj == {Id(s[i]) : i \in {j \in DOMAIN s : Shown(s[j]) /\ s[j].artifact = "process" /\ s[j].operation = "inject"}}
           net == {Id(s[i]) : i \in {j \in DOMAIN s : /\ Shown(s[j]) /\ s[j].artifact = "network"
                                                      /\ \E k \in {"value", "host", "ForeignAddr"} : Has(s[j].object, k)}}
           fil == {Id(s[i]) : i \in {j \in DOMAIN s : Shown(s[j]) /\ s[j].artifact = "file" /\ Has(s[j].object, "path")}}
           reg == {Id(s[i]) : i \in {j \in DOMAIN s : Shown(s[j]) /\ s[j].artifact = "registry" /\ Has(s[j].object, "key")}}
<1>1. v = [observed |-> obs, hidden |-> hid, hooks |-> hook, config |-> conf, injected |-> inj, network |-> net,
           files |-> fil, registry |-> reg, tree |-> ProcessTree(s)]
  BY ZenonT(60) DEF BuildRuntimeView
<1>2. PICK h, x1, x2, x3, x4, x5, x6, p : /\ h = hid /\ x1 = hook /\ x2 = conf /\ x3 = inj /\ x4 = net
                                           /\ x5 = fil /\ x6 = reg /\ p = ProcessTree(s)
  OBVIOUS
<1>7. obs \in BOOLEAN
  BY Zenon
<1>8. PICK o : o = obs
  OBVIOUS
<1> HIDE DEF obs, hid, hook, conf, inj, net, fil, reg
<1>3. v = [observed |-> o, hidden |-> h, hooks |-> x1, config |-> x2, injected |-> x3, network |-> x4,
           files |-> x5, registry |-> x6, tree |-> p]
  BY <1>1, <1>2, <1>8, Zenon
<1>4. v.hidden = h /\ v.tree = p /\ v.observed = o
  BY <1>3
<1>5. v.observed <=> obs
  <2>1. v.observed = obs
    BY <1>4, <1>8, Zenon
  <2>2. CASE obs = TRUE
    BY <2>1, <2>2
  <2>3. CASE obs = FALSE
    BY <2>1, <2>3
  <2> QED BY <1>7, <2>2, <2>3
<1>9. v.hidden = {Id(s[i]) : i \in {j \in DOMAIN s : Hiding(s[j])}} /\ v.tree = ProcessTree(s)
  BY <1>2, <1>4, Zenon DEF hid
<1>10. v.observed <=> \E i \in DOMAIN s : Seen(s[i])
  BY <1>5, ZenonT(30) DEF obs
<1> QED BY <1>9, <1>10, ZenonT(30)

LEMMA TimelineIs == ASSUME NEW s PROVE (\E e \in Timeline(s) : e.phrased = "event") <=> \E it \in Range(s) : Runtime(it)
<1>1. ASSUME NEW it PROVE ProvenanceOf(it) = "observed" <=> Runtime(it)
  BY DEF ProvenanceOf
<1>2. \A e \in Timeline(s) : \E it \in Range(s) : e.phrased = (IF ProvenanceOf(it) = "observed" THEN "event" ELSE "indicator")
  BY DEF Timeline
<1>3. ASSUME NEW it \in Range(s)
      PROVE  \E e \in Timeline(s) : e.phrased = (IF ProvenanceOf(it) = "observed" THEN "event" ELSE "indicator")
  <2> DEFINE w == IF ProvenanceOf(it) = "observed" THEN "event" ELSE "indicator"
             e == [id |-> Id(it), status |-> ProvenanceOf(it), phrased |-> w]
  <2>1. e \in Timeline(s)
    BY Zenon DEF Timeline
  <2> HIDE DEF w
  <2>2. e.phrased = w
    OBVIOUS
  <2> HIDE DEF e
  <2>3. \E x \in Timeline(s) : x.phrased = w
    BY <2>1, <2>2
  <2> QED BY <2>3, Zenon DEF w
<1>4. "event" # "indicator"
  OBVIOUS
<1> QED BY <1>1, <1>2, <1>3, <1>4, ZenonT(30)

LEMMA TemporalIs == ASSUME NEW s, IsList(s), \A it \in Range(s) : it.t = NoTime PROVE TemporalTimeline(s) = <<>>
<1> DEFINE timed == Picked(s, {i \in DOMAIN s : s[i].t # NoTime})
<1>1. {i \in DOMAIN s : s[i].t # NoTime} = {}
  BY ListHas
<1>2. IsList(timed) /\ Range(timed) = {}
  BY <1>1, ListPicked
<1>3. DOMAIN timed = {}
  <2> HIDE DEF timed
  <2> QED BY <1>2, ListHas
<1>4. \E f : TemporalTimeline(s) = [n \in DOMAIN timed |-> f[n]]
  <2> DEFINE Before(i) == {j \in DOMAIN timed : (timed[j].t < timed[i].t) \/ (timed[j].t = timed[i].t /\ j < i)}
             Nth(n) == CHOOSE i \in DOMAIN timed : Cardinality(Before(i)) = n - 1
             Of(it) == [offset |-> it.t, kind |-> KindOf(it), status |-> ProvenanceOf(it), id |-> Id(it)]
             f == [n \in DOMAIN timed |-> Of(timed[Nth(n)])]
  <2>1. TemporalTimeline(s) = f
    BY ZenonT(30) DEF TemporalTimeline, Filter
  <2> HIDE DEF Of, Nth, timed
  <2>2. f = [n \in DOMAIN timed |-> f[n]]
    OBVIOUS
  <2> QED BY <2>1, <2>2
<1> HIDE DEF timed
<1>5. ASSUME NEW f PROVE [n \in DOMAIN timed |-> f[n]] = <<>>
  BY <1>3
<1> QED BY <1>4, <1>5

LEMMA ConcludeIs ==
    ASSUME NEW s, NEW raw, NEW iso, NEW o, o = Conclude(s, raw, iso), NEW map, map = MapEvidence(s)
    PROVE  /\ o.map = map /\ o.summary = BuildSummary(s, map, BuildNarrative(map), iso)
           /\ o.coverage = ComputeCoverage(map, GenerateSigma(s, map), Cardinality(GenerateYara(s, raw, Corpus)))
           /\ o.view = BuildRuntimeView(s) /\ o.timeline = Timeline(s) /\ o.temporal = TemporalTimeline(s)
           /\ o.graph = AddDetections(BuildGraph(s, map), GenerateSigma(s, map), Cardinality(GenerateYara(s, raw, Corpus)))
           /\ o.suricata = SuricataCandidates(s)
           /\ o.why = [t \in DOMAIN map |-> ConfidenceBreakdown(s, map[t])]
  BY DEF Conclude

-----------------------------------------------------------------------------
(* All readers of the evidence agree on whether the sample was seen to run. *)
LEMMA AttributedRuntime ==
    ASSUME NEW s, IsList(s), NEW t \in DOMAIN MapEvidence(s), MapEvidence(s)[t].status = "observed"
    PROVE  Sighted(s)
<1>1. PICK i \in Attributing(s, t) : Runtime(s[i])
  BY ObservedIs
<1>2. s[i] \in Range(s)
  BY <1>1, ListHas DEF Attributing
<1> QED BY <1>1, <1>2 DEF Sighted

LEMMA MaturityIs == ASSUME NEW s, IsList(s), EvidenceMaturity(s) # {"static"} PROVE Sighted(s)
<1>1. PICK i \in DOMAIN s : Runtime(s[i])
  BY DEF EvidenceMaturity
<1> QED BY <1>1, ListHas DEF Sighted

LEMMA SeenIs == ASSUME NEW S, NEW P, NEW F, NEW s, AllHeld(s, S, P, F) PROVE (\E i \in DOMAIN s : Seen(s[i])) <=> Sighted(s)
<1>1. IsList(s) /\ \A i \in DOMAIN s : Held(s[i], S, P, F)
  BY ListHas DEF AllHeld
<1>2. ASSUME NEW i \in DOMAIN s PROVE Seen(s[i]) <=> Runtime(s[i])
  BY <1>1 DEF Held, Seen, Is
<1>3. \A it : it \in Range(s) <=> \E i \in DOMAIN s : s[i] = it
  BY DEF Range
<1> QED BY <1>2, <1>3 DEF Sighted

LEMMA OffsetIs == ASSUME NEW S, NEW P, NEW F, NEW s, AllHeld(s, S, P, F), TemporalTimeline(s) # <<>> PROVE Sighted(s)
<1>1. IsList(s) /\ \A it \in Range(s) : it.t # NoTime => Runtime(it)
  BY DEF AllHeld, Held
<1>2. \E it \in Range(s) : it.t # NoTime
  BY <1>1, TemporalIs
<1> QED BY <1>1, <1>2 DEF Sighted

LEMMA ReadersAgree ==
    ASSUME NEW S, NEW P, NEW F, NEW s, AllHeld(s, S, P, F), NEW raw, NEW iso, NEW o, o = Conclude(s, raw, iso)
    PROVE  /\ o.summary.runtime_observed <=> (\E t \in DOMAIN o.map : o.map[t].status = "observed")
           /\ o.summary.runtime_observed <=> (o.coverage.observed_techniques > 0)
           /\ o.summary.runtime_observed => Sighted(s)
           /\ o.summary.maturity # {"static"} => Sighted(s)
           /\ o.view.observed <=> Sighted(s)
           /\ (\E e \in o.timeline : e.phrased = "event") <=> Sighted(s)
           /\ o.temporal # <<>> => Sighted(s)
<1>1. PICK map, phases : map = MapEvidence(s) /\ phases = BuildNarrative(map)
  OBVIOUS
<1>2. IsList(s)
  BY DEF AllHeld
<1>3. o.map = map /\ o.summary = BuildSummary(s, map, phases, iso) /\ o.timeline = Timeline(s)
      /\ o.temporal = TemporalTimeline(s) /\ o.view = BuildRuntimeView(s)
  BY <1>1 DEF Conclude
<1>4. o.summary.runtime_observed = RuntimeObserved(phases) /\ o.summary.maturity = EvidenceMaturity(s)
  BY <1>3, SummaryScore
<1> DEFINE called == \E t \in DOMAIN map : map[t].status = "observed"
<1>5. RuntimeObserved(phases) <=> called
  BY <1>1, <1>2, NarrativeIs
<1>6. (o.coverage.observed_techniques > 0) <=> called
  <2>1. o.coverage = ComputeCoverage(MapEvidence(s), GenerateSigma(s, MapEvidence(s)), Cardinality(GenerateYara(s, raw, Corpus)))
    BY DEF Conclude
  <2>2. PICK sigma, yara : o.coverage = ComputeCoverage(MapEvidence(s), sigma, yara)
    BY <2>1, Zenon
  <2> QED BY <1>1, <1>2, <2>2, CoverageIs
<1>7. called => Sighted(s)
  BY <1>1, <1>2, AttributedRuntime
<1>8. o.view.observed <=> Sighted(s)
  BY <1>3, ViewIs, SeenIs
<1>9. (\E e \in o.timeline : e.phrased = "event") <=> Sighted(s)
  BY <1>3, TimelineIs DEF Sighted
<1>10. o.summary.maturity # {"static"} => Sighted(s)
  BY <1>2, <1>4, MaturityIs
<1>11. o.temporal # <<>> => Sighted(s)
  BY <1>3, OffsetIs
<1>12. o.summary.runtime_observed <=> (\E t \in DOMAIN o.map : o.map[t].status = "observed")
  BY <1>3, <1>4, <1>5, ZenonT(30) DEF RuntimeObserved
<1>13. o.summary.runtime_observed <=> (o.coverage.observed_techniques > 0)
  BY <1>4, <1>5, <1>6
<1>14. o.summary.runtime_observed => Sighted(s)
  BY <1>4, <1>5, <1>7
<1> QED BY <1>8, <1>9, <1>10, <1>11, <1>12, <1>13, <1>14

(* A technique, a phase, a process or a host is called observed only when
   a run of this very sample was captured, and every reader of the evidence
   agrees on it. *)
THEOREM ObservedWhenRun == Spec => []ObservedOnlyWhenRun
<1>1. ASSUME Inv PROVE ObservedOnlyWhenRun
  <2>1. Sighted(store) => backend # "none" /\ Captured
    BY <1>1 DEF Inv, Kept
  <2>2. ASSUME out # None
        PROVE  /\ out.summary.runtime_observed <=> (\E t \in DOMAIN out.map : out.map[t].status = "observed")
               /\ out.summary.runtime_observed <=> (out.coverage.observed_techniques > 0)
               /\ out.summary.runtime_observed => Sighted(store)
               /\ out.summary.maturity # {"static"} => Sighted(store)
               /\ out.view.observed <=> Sighted(store)
               /\ (\E e \in out.timeline : e.phrased = "event") <=> Sighted(store)
               /\ out.temporal # <<>> => Sighted(store)
    <3>1. out = Conclude(store, sample.raw, isolated)
      BY <1>1, <2>2 DEF Inv, Concluded
    <3>2. AllHeld(store, Range(store), Started, Subject)
      BY <1>1 DEF Inv, Kept
    <3>3. PICK s, o, raw, iso : s = store /\ o = out /\ raw = sample.raw /\ iso = isolated
      OBVIOUS
    <3>4. AllHeld(s, Range(s), Started, Subject) /\ o = Conclude(s, raw, iso)
      BY <3>1, <3>2, <3>3, Zenon
    <3>5. /\ o.summary.runtime_observed <=> (\E t \in DOMAIN o.map : o.map[t].status = "observed")
          /\ o.summary.runtime_observed <=> (o.coverage.observed_techniques > 0)
          /\ o.summary.runtime_observed => Sighted(s)
          /\ o.summary.maturity # {"static"} => Sighted(s)
          /\ o.view.observed <=> Sighted(s)
          /\ (\E e \in o.timeline : e.phrased = "event") <=> Sighted(s)
          /\ o.temporal # <<>> => Sighted(s)
      BY <3>4, ReadersAgree
    <3> QED BY <3>3, <3>5, Zenon
  <2> QED BY <2>1, <2>2, Zenon DEF ObservedOnlyWhenRun, Sighted
<1> QED BY <1>1, Consistent, PTL

-----------------------------------------------------------------------------
(* Every claim rests on evidence: a benign toolchain reference attributes
   nothing, so what is cited has a node in the graph. *)
RuleIds == {"T1059", "T1059.005", "T1059.004", "T1027", "T1140", "T1055", "T1071", "T1105", "T1547.001", "T1053",
            "T1059.001", "T1505.003", "T1056.001", "T1486", "T1490", "T1552.001"}

LEMMA RulesAre == DOMAIN RuleBase \subseteq RuleIds
<1> DEFINE a == "T1059" :> 90 @@ "T1059.005" :> 80 @@ "T1059.004" :> 85 @@ "T1027" :> 90
           b == a @@ "T1140" :> 85 @@ "T1055" :> 92 @@ "T1071" :> 70 @@ "T1105" :> 70
           c == b @@ "T1547.001" :> 70 @@ "T1053" :> 70 @@ "T1059.001" :> 80 @@ "T1505.003" :> 85
           d == c @@ "T1056.001" :> 60 @@ "T1486" :> 70 @@ "T1490" :> 85 @@ "T1552.001" :> 85
<1>1. RuleBase = d
  BY Zenon DEF RuleBase
<1>2. \A k \in DOMAIN a : k \in RuleIds
  BY JoinKeys, PairKeys DEF RuleIds
<1> HIDE DEF a
<1>3. \A k \in DOMAIN b : k \in RuleIds
  BY <1>2, JoinKeys, PairKeys DEF RuleIds
<1> HIDE DEF b
<1>4. \A k \in DOMAIN c : k \in RuleIds
  BY <1>3, JoinKeys, PairKeys DEF RuleIds
<1> HIDE DEF c
<1>5. \A k \in DOMAIN d : k \in RuleIds
  BY <1>4, JoinKeys, PairKeys DEF RuleIds
<1> HIDE DEF d
<1> QED BY <1>1, <1>5

LEMMA BenignIs == ASSUME NEW it, Benign(it) PROVE Techniques(it) = {}
<1>1. \A S : ~HasSink(it, S)
  BY DEF Benign, HasSink, Among
<1>2. ASSUME NEW t \in RuleIds PROVE ~Matches(t, it)
  BY <1>1 DEF RuleIds, Matches, Benign, Is, Among, Has
<1>3. Hinted(it) = {}
  BY DEF Hinted, Is, Benign
<1>4. ByRule(it) = {}
  BY <1>2, RulesAre DEF ByRule
<1> QED BY <1>3, <1>4 DEF Techniques

LEMMA CitedReasoned ==
    ASSUME NEW S, NEW P, NEW F, NEW s, AllHeld(s, S, P, F), NEW t \in DOMAIN MapEvidence(s), NEW id \in MapEvidence(s)[t].cites
    PROVE  \E it \in Reasoned(s) : id = Id(it)
<1>1. IsList(s) /\ \A i \in DOMAIN s : Held(s[i], S, P, F)
  BY ListHas DEF AllHeld
<1>2. PICK i \in Attributing(s, t) : id = Id(s[i])
  <2>1. MapEvidence(s)[t].cites = {Id(s[i]) : i \in Attributing(s, t)}
    BY <1>1, MapIs
  <2> QED BY <2>1
<1>3. i \in DOMAIN s /\ t \in Techniques(s[i])
  BY <1>2 DEF Attributing
<1>4. ~Has(s[i].details, "library_artifact")
  BY <1>1, <1>3, BenignIs DEF Held, Has
<1> QED BY <1>2, <1>3, <1>4 DEF Reasoned

-----------------------------------------------------------------------------
(* The graph: both ends of an edge are nodes. *)
Between(e, N) == {e.src, e.dst} \subseteq N

LEMMA EdgeIs == ASSUME NEW a, NEW b, NEW type, NEW N, a \in N, b \in N PROVE Between(Edge(a, b, type), N)
  BY DEF Edge, Between

LEMMA ItemEdgesIn == ASSUME NEW it, NEW N, Sample \in N, ItemNodes(it) \subseteq N, NEW e \in ItemEdges(it) PROVE Between(e, N)
<1>1. ObjectNode(it) \in N /\ EvidenceNode(Id(it)) \in N /\ SubjectNodes(it) \subseteq N /\ CorrelatedNodes(it) \subseteq N
  BY DEF ItemNodes
<1>2. \/ e = Edge(Sample, ObjectNode(it), "CONTAINS")
      \/ e = Edge(EvidenceNode(Id(it)), ObjectNode(it), "ABOUT")
      \/ \E s \in SubjectNodes(it) : e = Edge(s, ObjectNode(it), it.operation)
      \/ \E s \in SubjectNodes(it), f \in CorrelatedNodes(it) : e = Edge(s, f, "OBSERVED_AT")
      \/ \E f \in CorrelatedNodes(it) : e = Edge(f, ObjectNode(it), "RUNTIME_EVENT")
  BY DEF ItemEdges
<1> QED BY <1>1, <1>2, EdgeIs

LEMMA GraphClosed ==
    ASSUME NEW S, NEW P, NEW F, NEW s, AllHeld(s, S, P, F), NEW g, g = BuildGraph(s, MapEvidence(s))
    PROVE  \A e \in g.edges : Between(e, g.nodes)
<1>1. PICK map : map = MapEvidence(s) /\ g = BuildGraph(s, map)
  OBVIOUS
<1> DEFINE items == Reasoned(s)
           Cited(t) == {it \in items : Id(it) \in map[t].cites}
           TechniqueEdges(t) == {Edge(EvidenceNode(e), TechniqueNode(t), "MAPS_TO") : e \in map[t].cites}
                                \union {Edge(ObjectNode(it), TechniqueNode(t), "INDICATES") : it \in Cited(t)}
           N == {Sample} \union {TechniqueNode(t) : t \in DOMAIN map} \union (UNION {ItemNodes(it) : it \in items})
           E == UNION ({ItemEdges(it) : it \in items} \union {TechniqueEdges(t) : t \in DOMAIN map})
<1>2. g = [nodes |-> N, edges |-> E]
  BY <1>1, Zenon DEF BuildGraph
<1> HIDE DEF items
<1>3. Sample \in N /\ (\A t \in DOMAIN map : TechniqueNode(t) \in N) /\ \A it \in items : ItemNodes(it) \subseteq N
  OBVIOUS
<1>4. \A it \in items : ObjectNode(it) \in ItemNodes(it) /\ EvidenceNode(Id(it)) \in ItemNodes(it)
  BY DEF ItemNodes
<1>5. ASSUME NEW t \in DOMAIN map, NEW e \in TechniqueEdges(t) PROVE Between(e, N)
  <2>1. CASE \E id \in map[t].cites : e = Edge(EvidenceNode(id), TechniqueNode(t), "MAPS_TO")
    <3>1. PICK id \in map[t].cites : e = Edge(EvidenceNode(id), TechniqueNode(t), "MAPS_TO")
      BY <2>1
    <3>2. PICK it \in items : id = Id(it)
      BY <1>1, CitedReasoned DEF items
    <3>3. EvidenceNode(id) \in N /\ TechniqueNode(t) \in N
      BY <1>3, <1>4, <3>2
    <3> HIDE DEF N
    <3> QED BY <3>1, <3>3, EdgeIs
  <2>2. CASE \E it \in items : e = Edge(ObjectNode(it), TechniqueNode(t), "INDICATES")
    <3>1. PICK it \in items : e = Edge(ObjectNode(it), TechniqueNode(t), "INDICATES")
      BY <2>2
    <3>3. ObjectNode(it) \in N /\ TechniqueNode(t) \in N
      BY <1>3, <1>4
    <3> HIDE DEF N
    <3> QED BY <3>1, <3>3, EdgeIs
  <2> QED BY <2>1, <2>2, Zenon
<1>6. \A e \in E : (\E it \in items : e \in ItemEdges(it)) \/ \E t \in DOMAIN map : e \in TechniqueEdges(t)
  <2> HIDE DEF TechniqueEdges
  <2> QED OBVIOUS
<1> HIDE DEF TechniqueEdges, N, E
<1>7. \A e \in E : Between(e, N)
  BY <1>3, <1>5, <1>6, ItemEdgesIn
<1>8. g.nodes = N /\ g.edges = E
  BY <1>2
<1> QED BY <1>7, <1>8

LEMMA DetectedClosed ==
    ASSUME NEW g, \A e \in g.edges : Between(e, g.nodes), NEW sigma, NEW yara, NEW h, h = AddDetections(g, sigma, yara)
    PROVE  \A e \in h.edges : Between(e, h.nodes)
<1> DEFINE techs == {n \in g.nodes : Label(n) = "Technique"}
           ynodes == {Node("Detection", <<"yara", i>>) : i \in 1..yara}
           SNode(r) == Node("Detection", <<"sigma", r.kind, r.atoms>>)
           Tagged(r) == {n \in techs : n[2] \in r.tags}
           N == g.nodes \union ynodes \union {SNode(r) : r \in sigma}
           Y == {Edge(t, y, "DETECTED_BY") : t \in techs, y \in ynodes}
           T == UNION {{Edge(t, SNode(r), "DETECTED_BY") : t \in Tagged(r)} : r \in sigma}
<1>1. h.nodes = N
  BY DEF AddDetections
<1>9. h.edges = g.edges \union Y \union T
  BY DEF AddDetections
<1>2. techs \subseteq N /\ ynodes \subseteq N /\ g.nodes \subseteq N
  OBVIOUS
<1>3. \A r \in sigma : SNode(r) \in N /\ Tagged(r) \subseteq N
  OBVIOUS
<1>4. \A e \in Y : \E t \in techs, y \in ynodes : e = Edge(t, y, "DETECTED_BY")
  OBVIOUS
<1>5. \A e \in T : \E r \in sigma : \E t \in Tagged(r) : e = Edge(t, SNode(r), "DETECTED_BY")
  <2> HIDE DEF Tagged, SNode
  <2> QED OBVIOUS
<1> HIDE DEF techs, ynodes, SNode, Tagged, N, Y, T
<1>6. \A e \in Y : Between(e, N)
  BY <1>2, <1>4, EdgeIs
<1>7. \A e \in T : Between(e, N)
  BY <1>3, <1>5, EdgeIs
<1>8. \A e \in g.edges : Between(e, N)
  BY <1>2 DEF Between
<1> QED BY <1>1, <1>6, <1>7, <1>8, <1>9

LEMMA SameLane == ASSUME NEW a, NEW b, Shaped(a), Shaped(b), Id(a) = Id(b) PROVE LaneOf(a) = LaneOf(b)
<1>1. Id(a).lane = a.lane /\ Id(b).lane = b.lane
  BY DEF Id, Shaped
<1> QED BY <1>1 DEF LaneOf, Runtime

(* explain.py: the lanes that are shown are those of the mapping. *)
LEMMA LanesShown ==
    ASSUME NEW S, NEW P, NEW F, NEW s, AllHeld(s, S, P, F), NEW t \in DOMAIN MapEvidence(s), NEW m, m = MapEvidence(s)[t]
    PROVE  DOMAIN ConfidenceBreakdown(s, m).lane_confidence = m.lanes
<1>1. IsList(s) /\ \A i \in DOMAIN s : Shaped(s[i])
  BY ListHas DEF AllHeld, Held
<1>2. m.cites = {Id(s[i]) : i \in Attributing(s, t)} /\ m.lanes = {LaneOf(s[i]) : i \in Attributing(s, t)}
  BY <1>1, MapIs
<1>3. Attributing(s, t) \subseteq DOMAIN s
  BY DEF Attributing
<1> DEFINE items == Picked(s, {i \in DOMAIN s : Id(s[i]) \in m.cites})
           shown == {LaneOf(items[i]) : i \in DOMAIN items}
<1>4. IsList(items) /\ Range(items) = {s[i] : i \in {j \in DOMAIN s : Id(s[j]) \in m.cites}}
  BY <1>1, ListPicked
<1>5. DOMAIN ConfidenceBreakdown(s, m).lane_confidence = shown
  BY DEF ConfidenceBreakdown, Filter
<1> HIDE DEF items
<1>6. \A lane : lane \in shown <=> \E it \in Range(items) : lane = LaneOf(it)
  BY DEF Range
<1> HIDE DEF shown
<1>7. ASSUME NEW it \in Range(items) PROVE LaneOf(it) \in m.lanes
  <2>1. PICK j \in DOMAIN s : it = s[j] /\ Id(s[j]) \in m.cites
    BY <1>4
  <2>2. PICK i \in Attributing(s, t) : Id(s[j]) = Id(s[i])
    BY <1>2, <2>1
  <2>3. LaneOf(s[j]) = LaneOf(s[i])
    BY <1>1, <1>3, <2>1, <2>2, SameLane
  <2> QED BY <1>2, <2>1, <2>3
<1>8. ASSUME NEW lane \in m.lanes PROVE \E it \in Range(items) : lane = LaneOf(it)
  <2>1. PICK i \in Attributing(s, t) : lane = LaneOf(s[i])
    BY <1>2
  <2>2. i \in DOMAIN s /\ Id(s[i]) \in m.cites
    BY <1>2, <1>3, <2>1
  <2> QED BY <1>4, <2>1, <2>2
<1> QED BY <1>5, <1>6, <1>7, <1>8

LEMMA LanesObserved ==
    ASSUME NEW s, IsList(s), NEW t \in DOMAIN MapEvidence(s), NEW m, m = MapEvidence(s)[t]
    PROVE  /\ m.cites # {} /\ m.cites \subseteq Ids(s)
           /\ m.status = "observed" <=> m.lanes # {"static"}
<1>1. /\ m.cites = {Id(s[i]) : i \in Attributing(s, t)} /\ m.lanes = {LaneOf(s[i]) : i \in Attributing(s, t)}
      /\ Attributing(s, t) # {}
  BY MapIs
<1>2. m.status = "observed" <=> \E i \in Attributing(s, t) : Runtime(s[i])
  BY ObservedIs
<1>3. \A i : LaneOf(s[i]) # "static" <=> Runtime(s[i])
  BY DEF LaneOf, Runtime
<1>4. m.cites \subseteq Ids(s)
  BY <1>1 DEF Ids, Attributing
<1> QED BY <1>1, <1>2, <1>3, <1>4

(* narrative.py: a phase that is observed is one that is reached. *)
LEMMA HighestIs == ASSUME NEW map, NEW phases, phases = BuildNarrative(map) PROVE HighestObserved(phases) <= HighestInferred(phases)
<1>1. DOMAIN phases = 1..10
  BY DEF BuildNarrative, Lifecycle
<1>2. PICK A, B : /\ A = {0} \union {n \in {k \in DOMAIN phases : phases[k].status = "observed"} : phases[n].reached}
                  /\ B = {0} \union {n \in DOMAIN phases : phases[n].reached}
  OBVIOUS
<1>3. HighestObserved(phases) = Max(A) /\ HighestInferred(phases) = Max(B)
  BY <1>2, Zenon DEF HighestObserved, HighestInferred, Furthest
<1>4. A \subseteq B /\ A # {} /\ B # {} /\ B \subseteq 0..10
  BY <1>1, <1>2
<1>5. PICK b \in Nat : \A y \in B : y <= b
  BY <1>4
<1>6. Max(A) \in A /\ \A y \in A : Max(A) >= y
  <2>1. A \subseteq Nat /\ \A y \in A : y <= b
    BY <1>4, <1>5
  <2> QED BY <1>4, <2>1, MaxIs
<1>7. Max(B) \in B /\ \A y \in B : Max(B) >= y
  <2>1. B \subseteq Nat
    BY <1>4
  <2> QED BY <1>4, <1>5, <2>1, MaxIs
<1> QED BY <1>3, <1>4, <1>6, <1>7

(* suricata_gen.py: an indicator for a sensor names the evidence it is of. *)
LEMMA SensorIs ==
    ASSUME NEW s, IsList(s), NEW i \in DOMAIN SuricataCandidates(s)
    PROVE  SuricataCandidates(s)[i].refs # {} /\ SuricataCandidates(s)[i].refs \subseteq Ids(s)
<1> DEFINE Value(it) == FirstOf(it.object, <<"host", "value">>, "None")
           Usable(it) == /\ it.artifact = "network" /\ it.conf >= 60
                         /\ ~Is(it.details, "false_positive_risk", "high")
                         /\ Value(it) \in DOMAIN HostOf
           usable == Picked(s, {j \in DOMAIN s : Usable(s[j])})
           named  == {HostOf[Value(usable[j])] : j \in DOMAIN usable}
           hosts  == ListOf(named)
           Of(n)  == {Id(usable[j]) : j \in {k \in DOMAIN usable : HostOf[Value(usable[k])] = hosts[n]}}
           c      == [n \in 1..Min({MaxSids, Len(hosts)}) |-> [sid |-> n, host |-> hosts[n], refs |-> Of(n)]]
<1>1. SuricataCandidates(s) = c
  BY ZenonT(30) DEF SuricataCandidates, Filter
<1>2. IsList(usable) /\ Range(usable) \subseteq Range(s)
  BY FilterIs
<1> HIDE DEF usable, Value
<1>3. IsFiniteSet(named)
  <2>1. IsFiniteSet(DOMAIN usable)
    BY <1>2, ListHas, FS_Interval
  <2>2. PICK f : f = [j \in DOMAIN usable |-> HostOf[Value(usable[j])]]
    OBVIOUS
  <2>3. named = {f[j] : j \in DOMAIN usable}
    BY <2>2
  <2> QED BY <2>1, <2>3, FiniteImage
<1>4. IsList(hosts) /\ Range(hosts) = named
  BY <1>3, ListOfIs
<1>5. \A h \in named : \E j \in DOMAIN usable : HostOf[Value(usable[j])] = h
  OBVIOUS
<1> HIDE DEF named, hosts
<1>6. i \in 1..Min({MaxSids, Len(hosts)}) /\ c[i].refs = Of(i)
  <2> HIDE DEF Of
  <2> QED BY <1>1
<1>7. hosts[i] \in named
  <2>1. Len(hosts) \in Nat /\ DOMAIN hosts = 1..Len(hosts) /\ MaxSids \in Nat
    BY <1>4, ListHas, SignatureAssumption
  <2>2. PICK T : T = {MaxSids, Len(hosts)}
    OBVIOUS
  <2>3. T \subseteq Nat /\ T # {} /\ Len(hosts) \in T
    BY <2>1, <2>2
  <2>4. Min(T) \in Nat /\ Min(T) <= Len(hosts)
    BY <2>3, MinIs
  <2>5. PICK n \in Nat : n = Min(T) /\ n <= Len(hosts) /\ i \in 1..n
    BY <1>6, <2>2, <2>4
  <2>6. i \in DOMAIN hosts
    BY <2>1, <2>5
  <2> QED BY <1>4, <2>6, ListHas
<1>8. Of(i) # {}
  BY <1>5, <1>7
<1>9. Of(i) \subseteq Ids(s)
  <2>1. ASSUME NEW j \in DOMAIN usable PROVE Id(usable[j]) \in Ids(s)
    <3>1. usable[j] \in Range(s)
      BY <1>2, ListHas
    <3> QED BY <3>1, IdsAre
  <2> QED BY <2>1
<1> HIDE DEF Of, c
<1> QED BY <1>1, <1>6, <1>8, <1>9

(* Every claim rests on evidence that is in the store. *)
THEOREM Backed == Spec => []ClaimsAreBacked
<1>1. ASSUME Inv PROVE ClaimsAreBacked
  <2>1. Fed(feed, store) /\ AllHeld(store, Range(store), Started, Subject) /\ IsList(store)
    BY <1>1 DEF Inv, Kept, AllHeld
  <2>2. {feed[i].id : i \in DOMAIN feed} = Ids(store)
    BY <2>1 DEF Fed
  <2>3. ASSUME out # None
        PROVE  /\ \A t \in DOMAIN out.map :
                     /\ out.map[t].cites # {} /\ out.map[t].cites \subseteq Ids(store)
                     /\ DOMAIN out.why[t].lane_confidence = out.map[t].lanes
                     /\ out.map[t].status = "observed" <=> out.map[t].lanes # {"static"}
               /\ \A e \in out.graph.edges : {e.src, e.dst} \subseteq out.graph.nodes
               /\ out.summary.highest_observed <= out.summary.highest_inferred
               /\ \A i \in DOMAIN out.suricata : out.suricata[i].refs # {} /\ out.suricata[i].refs \subseteq Ids(store)
    <3>1. PICK s, o, raw, iso, map : s = store /\ o = out /\ raw = sample.raw /\ iso = isolated /\ map = MapEvidence(s)
      OBVIOUS
    <3>2. o = Conclude(s, raw, iso)
      BY <1>1, <2>3, <3>1, Zenon DEF Inv, Concluded
    <3>3. IsList(s) /\ AllHeld(s, Range(s), Started, Subject)
      BY <2>1, <3>1
    <3>4. /\ o.map = map /\ o.summary = BuildSummary(s, map, BuildNarrative(map), iso) /\ o.suricata = SuricataCandidates(s)
          /\ o.coverage = ComputeCoverage(map, GenerateSigma(s, map), Cardinality(GenerateYara(s, raw, Corpus)))
          /\ o.graph = AddDetections(BuildGraph(s, map), GenerateSigma(s, map), Cardinality(GenerateYara(s, raw, Corpus)))
      BY <3>1, <3>2 DEF Conclude
    <3>5. \A t \in DOMAIN map : o.why[t] = ConfidenceBreakdown(s, map[t])
      BY <3>1, <3>2 DEF Conclude
    <3>6. ASSUME NEW t \in DOMAIN map
          PROVE  /\ map[t].cites # {} /\ map[t].cites \subseteq Ids(s)
                 /\ DOMAIN o.why[t].lane_confidence = map[t].lanes
                 /\ map[t].status = "observed" <=> map[t].lanes # {"static"}
      <4>1. DOMAIN o.why[t].lane_confidence = map[t].lanes
        BY <3>1, <3>3, <3>5, LanesShown
      <4> QED BY <3>1, <3>3, <4>1, LanesObserved
    <3>7. \A e \in o.graph.edges : {e.src, e.dst} \subseteq o.graph.nodes
      <4>1. PICK g, sigma, yara : g = BuildGraph(s, map) /\ o.graph = AddDetections(g, sigma, yara)
        BY <3>4, Zenon
      <4>2. \A e \in g.edges : Between(e, g.nodes)
        BY <3>1, <3>3, <4>1, GraphClosed
      <4> QED BY <4>1, <4>2, DetectedClosed DEF Between
    <3>9. o.summary.highest_observed <= o.summary.highest_inferred
      <4>1. PICK phases : phases = BuildNarrative(map)
        OBVIOUS
      <4>2. o.summary.highest_observed = HighestObserved(phases) /\ o.summary.highest_inferred = HighestInferred(phases)
        BY <3>4, <4>1, SummaryScore
      <4> QED BY <4>1, <4>2, HighestIs
    <3>10. \A i \in DOMAIN o.suricata : o.suricata[i].refs # {} /\ o.suricata[i].refs \subseteq Ids(s)
      BY <3>3, <3>4, SensorIs
    <3>8. \A t \in DOMAIN o.map :
             /\ o.map[t].cites # {} /\ o.map[t].cites \subseteq Ids(s)
             /\ DOMAIN o.why[t].lane_confidence = o.map[t].lanes
             /\ o.map[t].status = "observed" <=> o.map[t].lanes # {"static"}
      BY <3>4, <3>6
    <3> QED BY <3>1, <3>7, <3>8, <3>9, <3>10, Zenon
  <2> QED BY <2>2, <2>3, Zenon DEF ClaimsAreBacked
<1> QED BY <1>1, Consistent, PTL

-----------------------------------------------------------------------------
(* The copilot: a line cites one item, or none. *)
Narrow(lines, I) == IsList(lines) /\ \A l \in Range(lines) : l.cites = {} \/ \E e \in I : l.cites = {e}

CitesOf(lines) == UNION {lines[i].cites : i \in DOMAIN lines}

LEMMA CitesAre == ASSUME NEW f PROVE \A e : e \in CitesOf(f) <=> \E l \in Range(f) : e \in l.cites
<1>1. \A e : e \in CitesOf(f) <=> \E i \in DOMAIN f : e \in f[i].cites
  BY DEF CitesOf
<1>2. \A l : l \in Range(f) <=> \E i \in DOMAIN f : f[i] = l
  BY DEF Range
<1> QED BY <1>1, <1>2

LEMMA AnswerIs ==
    ASSUME NEW I, NEW lines, Narrow(lines, I), NEW may, may = CitesOf(lines),
           NEW question, NEW chosen, NEW a, a = Answer(question, chosen, may, lines)
    PROVE  a.citations \subseteq I /\ a.citations = CitesOf(a.shown)
<1>1. PICK accepted : accepted = (IF chosen \subseteq may THEN chosen ELSE {})
  OBVIOUS
<1>2. PICK shown : shown = Picked(lines, {i \in DOMAIN lines : lines[i].cites \intersect accepted # {}})
  OBVIOUS
<1>3. a = [question |-> question, citations |-> accepted, shown |-> shown]
  BY <1>1, <1>2, Zenon DEF Answer, Filter
<1>4. a.citations = accepted /\ a.shown = shown
  BY <1>3
<1>5. accepted \subseteq may
  BY <1>1
<1>6. IsList(shown) /\ Range(shown) = {lines[i] : i \in {j \in DOMAIN lines : lines[j].cites \intersect accepted # {}}}
  BY <1>2, ListPicked DEF Narrow
<1>7. \A i \in DOMAIN lines : lines[i].cites = {} \/ \E e \in I : lines[i].cites = {e}
  BY ListHas DEF Narrow
<1>8. \A e \in may : \E i \in DOMAIN lines : e \in lines[i].cites
  BY DEF CitesOf
<1>9. accepted \subseteq I
  BY <1>5, <1>7, <1>8
<1>10. ASSUME NEW e \in accepted PROVE \E l \in Range(shown) : e \in l.cites
  <2>1. PICK i \in DOMAIN lines : e \in lines[i].cites
    BY <1>5, <1>8
  <2> QED BY <1>6, <2>1
<1>11. ASSUME NEW l \in Range(shown) PROVE l.cites \subseteq accepted
  BY <1>6, <1>7
<1>12. accepted = CitesOf(shown)
  BY <1>10, <1>11, CitesAre
<1> QED BY <1>4, <1>9, <1>12

(* A node that is evidence stands for an item of the store. *)
LEMMA ArtifactIs == ASSUME NEW it PROVE ArtifactLabel(it) # "Evidence"
<1> DEFINE cases == << <<Has(it.object, "capability"), "Capability">>,
                       <<it.artifact \in {"process", "thread"}, "Process">>,
                       <<it.artifact = "file", "File">>,
                       <<it.artifact = "registry", "Registry">>,
                       <<it.artifact = "network", "Host">>,
                       <<it.artifact = "module", "Module">>,
                       <<it.artifact \in {"function", "call"}, "Function">>,
                       <<it.artifact = "macro", "Macro">>,
                       <<it.artifact \in {"api_call", "callback"}, "API">> >>
<1>1. ArtifactLabel(it) = FirstCase(cases, "String")
  BY Zenon DEF ArtifactLabel
<1>2. DOMAIN cases = {1, 2, 3, 4, 5, 6, 7, 8, 9}
  OBVIOUS
<1>3. \A i \in {1, 2, 3, 4, 5, 6, 7, 8, 9} : cases[i][2] # "Evidence"
  OBVIOUS
<1> HIDE DEF cases
<1>4. FirstCase(cases, "String") = "String" \/ \E i \in DOMAIN cases : FirstCase(cases, "String") = cases[i][2]
  BY <1>2, FirstCaseIs
<1> QED BY <1>1, <1>2, <1>3, <1>4

LEMMA NodeIs == ASSUME NEW l, NEW id PROVE Label(Node(l, id)) = l /\ Node(l, id)[2] = id
  BY DEF Label, Node

LEMMA ActorsAre == ASSUME NEW it PROVE /\ IsFiniteSet(SubjectNodes(it)) /\ IsFiniteSet(CorrelatedNodes(it))
                                       /\ \A n \in SubjectNodes(it) \union CorrelatedNodes(it) : Label(n) # "Evidence"
<1>1. CorrelatedNodes(it) \subseteq {Node("Function", it.details["address_correlations"])}
  BY DEF CorrelatedNodes
<1>2. PICK keys : keys = Picked(<<"name", "pid", "process", "function", "analyzer">>,
                                {i \in DOMAIN <<"name", "pid", "process", "function", "analyzer">> :
                                    Has(it.subject, <<"name", "pid", "process", "function", "analyzer">>[i])})
  OBVIOUS
<1>3. SubjectNodes(it) = (IF HeadOr(keys, "analyzer") = "analyzer" THEN {}
                          ELSE {Node(IF Head(keys) = "function" THEN "Function" ELSE "Process", it.subject[Head(keys)])})
  BY <1>2, Zenon DEF SubjectNodes, Filter
<1>4. PICK kind, x : kind = (IF Head(keys) = "function" THEN "Function" ELSE "Process") /\ x = it.subject[Head(keys)]
  OBVIOUS
<1>5. SubjectNodes(it) \subseteq {Node(kind, x)} /\ kind # "Evidence"
  BY <1>3, <1>4
<1>6. \A n \in SubjectNodes(it) \union CorrelatedNodes(it) : Label(n) # "Evidence"
  BY <1>1, <1>5, NodeIs
<1>7. IsFiniteSet(SubjectNodes(it)) /\ IsFiniteSet(CorrelatedNodes(it))
  <2>1. IsFiniteSet({Node(kind, x)}) /\ IsFiniteSet({Node("Function", it.details["address_correlations"])})
    BY FS_Singleton
  <2> QED BY <1>1, <1>5, <2>1, FS_Subset
<1> QED BY <1>6, <1>7

LEMMA ItemNodesAre == ASSUME NEW it PROVE /\ IsFiniteSet(ItemNodes(it))
                                          /\ \A n \in ItemNodes(it) : Label(n) = "Evidence" => n[2] = Id(it)
<1>1. \A n \in ItemNodes(it) : \/ n = ObjectNode(it) \/ n = EvidenceNode(Id(it))
                               \/ n \in SubjectNodes(it) \union CorrelatedNodes(it)
  BY DEF ItemNodes
<1>2. \E x : ObjectNode(it) = Node(ArtifactLabel(it), x)
  BY Zenon DEF ObjectNode
<1>3. Label(ObjectNode(it)) # "Evidence"
  BY <1>2, NodeIs, ArtifactIs
<1>4. EvidenceNode(Id(it))[2] = Id(it)
  BY NodeIs DEF EvidenceNode
<1>5. IsFiniteSet({ObjectNode(it), EvidenceNode(Id(it))})
  <2>1. IsFiniteSet({ObjectNode(it)}) /\ IsFiniteSet({EvidenceNode(Id(it))})
    BY FS_Singleton
  <2>2. {ObjectNode(it), EvidenceNode(Id(it))} = {ObjectNode(it)} \union {EvidenceNode(Id(it))}
    OBVIOUS
  <2> QED BY <2>1, <2>2, FS_Union
<1>6. IsFiniteSet(ItemNodes(it))
  BY <1>5, ActorsAre, FS_Union DEF ItemNodes
<1> QED BY <1>1, <1>3, <1>4, <1>6, ActorsAre

LEMMA GraphNodes ==
    ASSUME NEW s, IsList(s), NEW g, g = BuildGraph(s, MapEvidence(s))
    PROVE  IsFiniteSet(g.nodes) /\ \A n \in g.nodes : Label(n) = "Evidence" => n[2] \in Ids(s)
<1>1. PICK map, items : map = MapEvidence(s) /\ items = Reasoned(s)
  OBVIOUS
<1>2. PICK T, U : T = {TechniqueNode(t) : t \in DOMAIN map} /\ U = UNION {ItemNodes(it) : it \in items}
  OBVIOUS
<1>3. g.nodes = {Sample} \union T \union U
  <2>1. g = BuildGraph(s, map)
    BY <1>1
  <2> DEFINE Cited(t) == {it \in Reasoned(s) : Id(it) \in map[t].cites}
             TechniqueEdges(t) == {Edge(EvidenceNode(e), TechniqueNode(t), "MAPS_TO") : e \in map[t].cites}
                                  \union {Edge(ObjectNode(it), TechniqueNode(t), "INDICATES") : it \in Cited(t)}
             N == {Sample} \union {TechniqueNode(t) : t \in DOMAIN map} \union (UNION {ItemNodes(it) : it \in Reasoned(s)})
             E == UNION ({ItemEdges(it) : it \in Reasoned(s)} \union {TechniqueEdges(t) : t \in DOMAIN map})
  <2>2. g = [nodes |-> N, edges |-> E]
    BY <2>1, Zenon DEF BuildGraph
  <2>3. N = {Sample} \union T \union U
    BY <1>1, <1>2, Zenon
  <2> HIDE DEF N, E
  <2>4. g.nodes = N
    BY <2>2
  <2> QED BY <2>3, <2>4
<1>4. IsFiniteSet(T)
  <2>1. IsFiniteSet(DOMAIN map)
    BY <1>1, MapFinite
  <2>2. PICK f : f = [t \in DOMAIN map |-> TechniqueNode(t)]
    OBVIOUS
  <2>3. T = {f[t] : t \in DOMAIN map}
    BY <1>2, <2>2
  <2> QED BY <2>1, <2>3, FiniteImage
<1>5. items \subseteq Range(s)
  BY <1>1, ListHas DEF Reasoned
<1>6. IsFiniteSet(U)
  <2>1. IsFiniteSet(items)
    BY <1>5, ListFinite, FS_Subset
  <2>2. PICK f : f = [it \in items |-> ItemNodes(it)]
    OBVIOUS
  <2>3. U = UNION {f[it] : it \in items} /\ \A it \in items : IsFiniteSet(f[it])
    BY <1>2, <2>2, ItemNodesAre
  <2> QED BY <2>1, <2>3, FiniteUnion
<1>7. IsFiniteSet(g.nodes)
  <2>1. IsFiniteSet({Sample})
    BY FS_Singleton
  <2>2. IsFiniteSet({Sample} \union T)
    BY <1>4, <2>1, FS_Union
  <2> QED BY <1>3, <1>6, <2>2, FS_Union
<1>8. \A n \in T : Label(n) # "Evidence"
  BY <1>2, NodeIs DEF TechniqueNode
<1>9. Label(Sample) # "Evidence"
  BY NodeIs DEF Sample
<1>10. \A n \in U : Label(n) = "Evidence" => n[2] \in Ids(s)
  <2>1. ASSUME NEW it \in items PROVE Id(it) \in Ids(s)
    BY <1>5, IdsAre
  <2> QED BY <1>2, <2>1, ItemNodesAre
<1> QED BY <1>3, <1>7, <1>8, <1>9, <1>10

LEMMA NarrowOne == ASSUME NEW I, NEW l, l.cites = {} \/ \E e \in I : l.cites = {e} PROVE Narrow(<<l>>, I)
<1>1. IsList(<<l>>) /\ Range(<<l>>) = {l}
  BY ListOne
<1>2. PICK s : s = <<l>>
  OBVIOUS
<1>3. \A x \in Range(s) : x = l
  BY <1>1, <1>2
<1>4. Narrow(s, I)
  BY <1>1, <1>2, <1>3 DEF Narrow
<1> QED BY <1>2, <1>4

LEMMA NarrowMap ==
    ASSUME NEW I, NEW s, IsList(s), NEW f, f = [i \in DOMAIN s |-> f[i]], \A i \in DOMAIN s : \E e \in I : f[i].cites = {e}
    PROVE  Narrow(KeptSeq(f), I)
<1>1. IsList(f) /\ KeptSeq(f) = f /\ DOMAIN f = DOMAIN s
  BY ListMap
<1>2. \A l \in Range(f) : \E e \in I : l.cites = {e}
  BY <1>1, ListHas
<1> QED BY <1>1, <1>2 DEF Narrow

LEMMA NarrowFlat ==
    ASSUME NEW I, NEW s, IsList(s), NEW f, f = [i \in DOMAIN s |-> f[i]], \A i \in DOMAIN s : Narrow(f[i], I), NEW n \in Nat
    PROVE  Narrow(Upto(Flatten(KeptSeq(f)), n), I)
<1>1. IsList(f) /\ KeptSeq(f) = f /\ DOMAIN f = DOMAIN s
  BY ListMap
<1>2. PICK q : q = Flatten(f)
  OBVIOUS
<1>3. IsList(q) /\ Range(q) = UNION {Range(f[i]) : i \in DOMAIN f}
  <2>1. \A i \in DOMAIN f : IsList(f[i])
    BY <1>1 DEF Narrow
  <2> QED BY <1>1, <1>2, <2>1, ListFlatten
<1>4. \A l \in Range(q) : l.cites = {} \/ \E e \in I : l.cites = {e}
  BY <1>1, <1>3 DEF Narrow
<1>5. PICK u : u = Upto(q, n)
  OBVIOUS
<1>6. IsList(u) /\ Range(u) \subseteq Range(q)
  BY <1>3, <1>5, ListUpto
<1>7. Narrow(u, I)
  BY <1>4, <1>6 DEF Narrow
<1> QED BY <1>1, <1>2, <1>5, <1>7

LEMMA ContextNarrow ==
    ASSUME NEW I, NEW graph, IsFiniteSet(graph.nodes), \A n \in graph.nodes : Label(n) = "Evidence" => n[2] \in I,
           NEW nodes, IsList(nodes), Range(nodes) \subseteq graph.nodes
    PROVE  Narrow(ContextLines(graph, nodes), I)
<1> DEFINE Near(n) == {m \in Neighbors(graph, n) : Label(m) = "Evidence"}
           Ev(n) == Upto(ListOf(Near(n)), 4)
           Line(n, ids) == [of |-> n, cites |-> ids]
           Lines(n) == IF Label(n) = "Evidence" THEN <<Line(n, {n[2]})>>
                       ELSE IF Ev(n) = <<>> THEN <<Line(n, {})>>
                       ELSE MapSeq(LAMBDA e : Line(n, {e[2]}), Ev(n))
<1>1. ContextLines(graph, nodes) = Upto(Flatten(MapSeq(Lines, nodes)), MaxLines)
  BY Zenon DEF ContextLines
<1>2. ASSUME NEW n PROVE IsList(Ev(n)) /\ \A i \in DOMAIN Ev(n) : Ev(n)[i][2] \in I
  <2>1. Near(n) \subseteq graph.nodes
    BY DEF Neighbors
  <2>2. \A m \in Near(n) : m[2] \in I
    BY <2>1
  <2>3. PICK N : N = Near(n)
    OBVIOUS
  <2>4. IsFiniteSet(N)
    BY <2>1, <2>3, FS_Subset
  <2>5. PICK list : list = ListOf(N) /\ IsList(list) /\ Range(list) = N
    BY <2>4, ListOfIs
  <2>6. PICK four \in Nat : four = 4
    OBVIOUS
  <2>7. PICK ev : ev = Upto(list, four) /\ IsList(ev) /\ Range(ev) \subseteq N
    BY <2>5, <2>6, ListUpto
  <2>8. \A i \in DOMAIN ev : ev[i][2] \in I
    BY <2>2, <2>3, <2>7, ListHas
  <2>9. Ev(n) = ev
    BY <2>3, <2>5, <2>6, <2>7
  <2> QED BY <2>7, <2>8, <2>9
<1> HIDE DEF Ev
<1>3. ASSUME NEW n, NEW ids PROVE Line(n, ids).cites = ids
  OBVIOUS
<1> HIDE DEF Line
<1>4. ASSUME NEW n \in graph.nodes PROVE Narrow(Lines(n), I)
  <2>1. CASE Label(n) = "Evidence"
    <3>1. Line(n, {n[2]}).cites = {n[2]} /\ n[2] \in I
      BY <1>3, <2>1
    <3>2. Narrow(<<Line(n, {n[2]})>>, I)
      BY <3>1, NarrowOne
    <3> QED BY <2>1, <3>2
  <2>2. CASE Label(n) # "Evidence" /\ Ev(n) = <<>>
    <3>1. Narrow(<<Line(n, {})>>, I)
      BY <1>3, NarrowOne
    <3> QED BY <2>2, <3>1
  <2>3. CASE Label(n) # "Evidence" /\ Ev(n) # <<>>
    <3>1. PICK ev : ev = Ev(n) /\ IsList(ev) /\ \A i \in DOMAIN ev : ev[i][2] \in I
      BY <1>2
    <3>2. PICK f : f = [i \in DOMAIN ev |-> Line(n, {ev[i][2]})]
      OBVIOUS
    <3>3. \A i \in DOMAIN ev : \E e \in I : f[i].cites = {e}
      BY <1>3, <3>1, <3>2
    <3>4. Narrow(KeptSeq(f), I)
      <4>1. f = [i \in DOMAIN ev |-> f[i]]
        BY <3>2
      <4> QED BY <3>1, <3>3, <4>1, NarrowMap
    <3>5. Lines(n) = KeptSeq(f)
      <4>1. Lines(n) = MapSeq(LAMBDA e : Line(n, {e[2]}), Ev(n))
        BY <2>3
      <4> QED BY <3>1, <3>2, <4>1, Zenon DEF MapSeq
    <3> QED BY <3>4, <3>5
  <2> QED BY <2>1, <2>2, <2>3
<1> HIDE DEF Lines
<1>5. PICK f : f = [i \in DOMAIN nodes |-> Lines(nodes[i])]
  OBVIOUS
<1>6. f = [i \in DOMAIN nodes |-> f[i]] /\ \A i \in DOMAIN nodes : Narrow(f[i], I)
  <2>1. \A i \in DOMAIN nodes : nodes[i] \in graph.nodes
    BY ListHas
  <2> QED BY <1>4, <1>5, <2>1
<1>7. Narrow(Upto(Flatten(KeptSeq(f)), MaxLines), I)
  BY <1>6, NarrowFlat, AskAssumption
<1>8. MapSeq(Lines, nodes) = KeptSeq(f)
  BY <1>5, Zenon DEF MapSeq
<1> QED BY <1>1, <1>7, <1>8, Zenon

LEMMA RetrieveIs ==
    ASSUME NEW graph, IsFiniteSet(graph.nodes), NEW q
    PROVE  IsList(Retrieve(graph, q)) /\ Range(Retrieve(graph, q)) \subseteq graph.nodes
<1> DEFINE Found(n) == /\ q.labels # {} => Label(n) \in q.labels
                       /\ q.word # "None" => Mentions(n, q.word)
           N == {n \in graph.nodes : Found(n)}
<1>1. Retrieve(graph, q) = Upto(ListOf(N), MaxFound)
  BY Zenon DEF Retrieve
<1>2. N \subseteq graph.nodes
  OBVIOUS
<1> HIDE DEF N
<1>3. IsFiniteSet(N)
  BY <1>2, FS_Subset
<1>4. PICK list : list = ListOf(N) /\ IsList(list) /\ Range(list) = N
  BY <1>3, ListOfIs
<1>5. IsList(Upto(list, MaxFound)) /\ Range(Upto(list, MaxFound)) \subseteq Range(list)
  BY <1>4, ListUpto, AskAssumption
<1> QED BY <1>1, <1>2, <1>4, <1>5

(* hypotheses.py: a line for each item that is offered *)
LineOf(it) == [of |-> EvidenceNode(Id(it)), cites |-> {Id(it)}]

LEMMA ProposalNarrow ==
    ASSUME NEW s, IsList(s), NEW f, f = [i \in DOMAIN s |-> LineOf(s[i])]
    PROVE  Narrow(KeptSeq(f), Ids(s)) /\ Ids(s) = CitesOf(KeptSeq(f))
<1>1. ASSUME NEW it PROVE LineOf(it).cites = {Id(it)}
  BY DEF LineOf
<1>2. f = [i \in DOMAIN s |-> f[i]] /\ \A i \in DOMAIN s : f[i].cites = {Id(s[i])}
  BY <1>1
<1>3. \A i \in DOMAIN s : Id(s[i]) \in Ids(s)
  BY DEF Ids
<1>4. Narrow(KeptSeq(f), Ids(s))
  BY <1>2, <1>3, NarrowMap
<1>5. KeptSeq(f) = f /\ DOMAIN f = DOMAIN s
  BY <1>2, ListMap
<1>6. \A e : e \in CitesOf(f) <=> \E l \in Range(f) : e \in l.cites
  BY CitesAre
<1>7. \A l : l \in Range(f) <=> \E i \in DOMAIN s : l = f[i]
  BY <1>5 DEF Range
<1>8. \A e : e \in CitesOf(f) => \E i \in DOMAIN s : e = Id(s[i])
  <2>1. ASSUME NEW e, e \in CitesOf(f) PROVE \E i \in DOMAIN s : e = Id(s[i])
    <3>1. PICK l \in Range(f) : e \in l.cites
      BY <1>6, <2>1
    <3>2. PICK i \in DOMAIN s : l = f[i]
      BY <1>7, <3>1
    <3>3. e \in {Id(s[i])}
      BY <1>2, <3>1, <3>2, Zenon
    <3> QED BY <3>3, Zenon
  <2> QED BY <2>1, Zenon
<1>9. \A i \in DOMAIN s : Id(s[i]) \in CitesOf(f)
  <2>1. ASSUME NEW i \in DOMAIN s PROVE Id(s[i]) \in CitesOf(f)
    <3>1. Id(s[i]) \in f[i].cites
      BY <1>2, Zenon
    <3>2. f[i] \in Range(f)
      BY <1>7, Zenon
    <3> QED BY <1>6, <3>1, <3>2, Zenon
  <2> QED BY <2>1, Zenon
<1>10. \A e : e \in Ids(s) <=> \E i \in DOMAIN s : e = Id(s[i])
  BY DEF Ids
<1>11. Ids(s) = CitesOf(f)
  BY <1>8, <1>9, <1>10
<1> QED BY <1>4, <1>5, <1>11

(* What the provider selects is accepted when it was on the lines that were
   shown, and the lines it is on are the answer. *)
LEMMA AskCites == ASSUME Inv, Ask PROVE CitedIsShown'
<1>1. pc = "done" /\ store' = store
  BY DEF Ask, evidence
<1>2. IsList(saved) /\ saved = store
  BY <1>1 DEF Inv, Concluded, Kept, AllHeld
<1>3. PICK items : items = Reload(saved)
  OBVIOUS
<1>4. IsList(items) /\ Ids(items) = Ids(store)
  BY <1>2, <1>3, ReloadIs
<1>5. PICK map, graph : map = MapEvidence(items) /\ graph = BuildGraph(items, map)
  OBVIOUS
<1>6. PICK q, chosen :
         answer' = Answer(q, chosen, Citable(graph, Retrieve(graph, q), ContextLines(graph, Retrieve(graph, q))),
                          ContextLines(graph, Retrieve(graph, q)))
  BY <1>3, <1>5, Zenon DEF Ask
<1>7. PICK nodes, lines, may : nodes = Retrieve(graph, q) /\ lines = ContextLines(graph, nodes) /\ may = Citable(graph, nodes, lines)
  OBVIOUS
<1>8. answer' = Answer(q, chosen, may, lines)
  BY <1>6, <1>7, Zenon
<1>9. PICK I : I = Ids(items)
  OBVIOUS
<1>10. IsFiniteSet(graph.nodes) /\ \A n \in graph.nodes : Label(n) = "Evidence" => n[2] \in I
  BY <1>4, <1>5, <1>9, GraphNodes
<1>11. IsList(nodes) /\ Range(nodes) \subseteq graph.nodes
  BY <1>7, <1>10, RetrieveIs
<1>12. Narrow(lines, I)
  BY <1>7, <1>10, <1>11, ContextNarrow
<1>13. may = CitesOf(lines)
  BY <1>7, Zenon DEF Citable, CitesOf
<1>14. PICK a : a = answer'
  OBVIOUS
<1>15. a.citations \subseteq I /\ a.citations = CitesOf(a.shown)
  BY <1>8, <1>12, <1>13, <1>14, AnswerIs
<1> QED BY <1>1, <1>4, <1>9, <1>14, <1>15, Zenon DEF CitedIsShown, CitesOf

LEMMA ProposeCites == ASSUME Inv, Propose PROVE CitedIsShown'
<1>1. pc = "done" /\ store' = store
  BY DEF Propose, evidence
<1>2. IsList(saved) /\ saved = store
  BY <1>1 DEF Inv, Concluded, Kept, AllHeld
<1>3. PICK all, items : all = Reload(saved) /\ items = Upto(all, MaxContext)
  OBVIOUS
<1>4. IsList(all) /\ Ids(all) = Ids(store)
  BY <1>2, <1>3, ReloadIs
<1>5. IsList(items) /\ Range(items) \subseteq Range(all)
  BY <1>3, <1>4, ListUpto, AskAssumption
<1>6. Ids(items) \subseteq Ids(store)
  <2>1. \A it \in Range(items) : Id(it) \in Ids(all)
    BY <1>4, <1>5, IdsAre
  <2>2. \A e \in Ids(items) : \E it \in Range(items) : e = Id(it)
    BY <1>5, IdsAre
  <2> QED BY <1>4, <2>1, <2>2
<1>7. PICK f : f = [i \in DOMAIN items |-> LineOf(items[i])]
  OBVIOUS
<1>8. PICK lines : lines = KeptSeq(f)
  OBVIOUS
<1>9. lines = MapSeq(LAMBDA it : [of |-> EvidenceNode(Id(it)), cites |-> {Id(it)}], items)
  BY <1>7, <1>8, Zenon DEF MapSeq, LineOf
<1>10. PICK chosen : answer' = Answer("hypotheses", chosen, Ids(items), lines)
  BY <1>3, <1>9, Zenon DEF Propose
<1>11. PICK I : I = Ids(items)
  OBVIOUS
<1>12. Narrow(lines, I) /\ I = CitesOf(lines)
  BY <1>5, <1>7, <1>8, <1>11, ProposalNarrow
<1>13. PICK a, question : a = answer' /\ question = "hypotheses"
  OBVIOUS
<1>14. a = Answer(question, chosen, I, lines)
  BY <1>10, <1>11, <1>13, Zenon
<1>15. a.citations \subseteq I /\ a.citations = CitesOf(a.shown)
  BY <1>12, <1>14, AnswerIs
<1>16. a.citations \subseteq Ids(store)
  BY <1>6, <1>11, <1>15
<1> QED BY <1>1, <1>13, <1>15, <1>16, Zenon DEF CitedIsShown, CitesOf

LEMMA CitedNext == ASSUME Inv, CitedIsShown, [Next]_vars PROVE CitedIsShown'
<1>1. CASE Ask
  BY <1>1, AskCites
<1>2. CASE Propose
  BY <1>2, ProposeCites
<1>3. CASE UNCHANGED <<store, answer>>
  BY <1>3, Zenon DEF CitedIsShown
<1>4. CASE Collect \/ Decompile \/ Merge \/ Enrich
  <2>1. answer' = answer /\ pc # "answered"
    BY <1>4 DEF Collect, Decompile, Merge, Enrich, result
  <2>2. answer = None
    BY <2>1 DEF Inv, Concluded
  <2> QED BY <2>1, <2>2, Zenon DEF CitedIsShown
<1>5. ASSUME ~(Ask \/ Propose \/ Collect \/ Decompile \/ Merge \/ Enrich) PROVE UNCHANGED <<store, answer>>
  BY <1>5 DEF Next, vars, Triage, Dispatch, Analyze, StartBackend, StageCape, StageMemory, StageTraces, StageDumps,
     BackendFails, Reconstruct, PersistRun, evidence, result
<1> QED BY <1>1, <1>2, <1>3, <1>4, <1>5, Zenon

(* Whatever the provider selects, what is cited is evidence of the run and
   is shown: graphrag.py and hypotheses.py accept nothing they did not show. *)
THEOREM CitedShown == Spec => []CitedIsShown
<1>1. Init => CitedIsShown
  BY DEF Init, CitedIsShown
<1>2. Inv /\ CitedIsShown /\ [Next]_vars => CitedIsShown'
  BY CitedNext
<1> QED BY <1>1, <1>2, Consistent, PTL DEF Spec

-----------------------------------------------------------------------------
(* Hidden processes: what is told of one, by an observation or its id. *)
TellsOf(it, p) ==
    /\ Runtime(it) /\ "hidden" \in DOMAIN it.object /\ "status" \notin DOMAIN it.object
    /\ "pid" \in DOMAIN it.object /\ it.object["pid"] = p

LEMMA UnlinkedHides == ASSUME NEW it, NEW p, TellsOf(it, p) PROVE Hiding(it) /\ Is(it.object, "pid", p)
  BY DEF TellsOf, Hiding, Seen, Hidden, Has, Is

LEMMA IdKeeps == ASSUME NEW it, Shaped(it)
                 PROVE  /\ Id(it).lane = it.lane /\ Id(it).object = it.object /\ Id(it).details = it.details
                        /\ \A p : TellsOf(it, p) => TellsOf(Id(it), p)
                        /\ Hiding(Id(it)) <=> Hiding(it)
<1>1. Id(it).lane = it.lane /\ Id(it).object = it.object /\ Id(it).details = it.details
  BY DEF Shaped, Id
<1> QED BY <1>1 DEF TellsOf, Hiding, Seen, Hidden, Runtime

LEMMA UnlinkedTied ==
    ASSUME NEW s, NEW items, IsList(items), NEW F, NEW n \in DOMAIN items, Shaped(items[n]), NEW p, TellsOf(items[n], p)
    PROVE  n \in DOMAIN Annotate(s, items, F) /\ TellsOf(Annotate(s, items, F)[n], p)
<1>1. PICK a, it : a = Annotate(s, items, F) /\ it = items[n]
  OBVIOUS
<1>2. DOMAIN a = DOMAIN items /\ (a[n] = it \/ \E H : a[n] = Tied(s, H, it))
  BY <1>1, AnnotateIs, ZenonT(40)
<1>3. ASSUME NEW H PROVE Tied(s, H, it).lane = it.lane /\ Tied(s, H, it).object = it.object
  <2>1. PICK d : d = it.details @@ ("address_correlations" :> s[CHOOSE i \in H : \A j \in H : Span(s[i]) <= Span(s[j])].object["function"])
    OBVIOUS
  <2>2. Tied(s, H, it) = [it EXCEPT !.details = d]
    BY <2>1, Zenon DEF Tied
  <2> QED BY <1>1, <2>2 DEF Shaped
<1>4. TellsOf(a[n], p)
  BY <1>1, <1>2, <1>3 DEF TellsOf, Runtime
<1> QED BY <1>1, <1>2, <1>4

(* The pids a plugin of a memory report has rows of. *)
LEMMA RowPids ==
    ASSUME NEW r, NEW sections, sections = r.sections, IsMemory(sections), NEW plugin
    PROVE  \A p : p \in PidsOf(RowsOf(sections, plugin)) <=> p # "None" /\ p \in Pids(ReportRows(r, {plugin}))
<1>1. PICK those : those = Picked(sections, {i \in DOMAIN sections : sections[i].plugin = plugin})
  OBVIOUS
<1>2. IsList(those) /\ Range(those) = {sections[i] : i \in {j \in DOMAIN sections : sections[j].plugin = plugin}}
  BY <1>1, ListPicked DEF IsMemory
<1>3. \A s : s \in Range(those) <=> s \in Range(sections) /\ s.plugin = plugin
  BY <1>2 DEF Range
<1>4. PICK f : f = [i \in DOMAIN those |-> SectionRows(those[i])]
  OBVIOUS
<1>5. IsList(f) /\ KeptSeq(f) = f /\ DOMAIN f = DOMAIN those
  BY <1>2, <1>4, ListMap
<1>6. \A i \in DOMAIN f : f[i] = SectionRows(those[i]) /\ IsList(f[i])
  <2>1. ASSUME NEW i \in DOMAIN those PROVE IsList(SectionRows(those[i]))
    <3>1. IsList(those[i].rows)
      BY <1>2, <1>3, ListHas DEF IsMemory
    <3> QED BY <3>1, RowsList
  <2> QED BY <1>4, <1>5, <2>1
<1>7. PICK rows : rows = Flatten(f) /\ IsList(rows) /\ Range(rows) = UNION {Range(f[i]) : i \in DOMAIN f}
  BY <1>5, <1>6, ListFlatten
<1>8. RowsOf(sections, plugin) = rows
  BY <1>1, <1>4, <1>5, <1>7, Zenon DEF RowsOf, Filter, MapSeq
<1>9. \A row : row \in Range(rows) <=> \E s \in Range(those) : row \in Range(SectionRows(s))
  <2>1. \A row : row \in Range(rows) <=> \E i \in DOMAIN those : row \in Range(SectionRows(those[i]))
    BY <1>5, <1>6, <1>7
  <2>2. \A s : s \in Range(those) <=> \E i \in DOMAIN those : s = those[i]
    BY DEF Range
  <2> QED BY <2>1, <2>2, Zenon
<1>10. \A row : row \in ReportRows(r, {plugin}) <=> \E s \in Range(sections) : s.plugin = plugin /\ row \in Range(SectionRows(s))
  BY DEF ReportRows
<1>11. PICK R : R = Range(rows) /\ R = ReportRows(r, {plugin})
  <2>1. PICK T : T = ReportRows(r, {plugin})
                 /\ \A row : row \in T <=> \E s \in Range(sections) : s.plugin = plugin /\ row \in Range(SectionRows(s))
    BY <1>10
  <2>2. \A row : row \in T <=> row \in Range(rows)
    BY <1>3, <1>9, <2>1, Zenon
  <2>3. T = Range(rows)
    BY <2>2
  <2> QED BY <2>1, <2>3
<1>12. PidsOf(rows) = Pids(R) \ {"None"}
  BY <1>11 DEF PidsOf, Pids, Range
<1>13. \A p : p \in PidsOf(rows) <=> p # "None" /\ p \in Pids(R)
  BY <1>12
<1> QED BY <1>8, <1>11, <1>13, Zenon

LEMMA MemoryTells ==
    ASSUME NEW sections, IsMemory(sections), NEW p \in HiddenPids(sections), NEW P, \A s \in Range(sections) : Naming(s, P)
    PROVE  \E n \in DOMAIN NormalizeMemory(sections) : TellsOf(NormalizeMemory(sections)[n], p)
<1> DEFINE scanned == RowsOf(sections, "PsScan")
           Last2(q) == scanned[Max({i \in DOMAIN scanned : scanned[i].pid = q})]
           Item(q) == Located(By(Vol3("process", "spawn",
                       "pid" :> q @@ "name" :> Last2(q).name @@ "hidden" :> "yes",
                       "plugin" :> "PsScan" @@ "hidden" :> "yes" @@ "attack_hint" :> "T1014", 85),
                       "analyzer" :> "psscan vs pslist" @@ Opt("pid", Last2(q).ppid)), "pid" :> q)
<1>1. HiddenProcesses(sections) = MapSeq(Item, ListOf(HiddenPids(sections)))
  BY Zenon DEF HiddenProcesses
<1> HIDE DEF scanned, Last2
<1>2. TellsOf(Item(p), p)
  <2>1. PICK name, subject, at, details :
           /\ name = Last2(p).name /\ at = ("pid" :> p)
           /\ subject = ("analyzer" :> "psscan vs pslist" @@ Opt("pid", Last2(p).ppid))
           /\ details = ("plugin" :> "PsScan" @@ "hidden" :> "yes" @@ "attack_hint" :> "T1014")
    OBVIOUS
  <2>2. PICK object : object = ("pid" :> p @@ "name" :> name @@ "hidden" :> "yes")
    OBVIOUS
  <2>3. "status" \notin DOMAIN object /\ "hidden" \in DOMAIN object /\ "pid" \in DOMAIN object
    BY <2>2, JoinKeys, PairKeys
  <2>4. object["pid"] = p
    BY <2>2, JoinIs, JoinKeys, PairKeys, PairIs
  <2>5. Item(p) = Located(By(Vol3("process", "spawn", object, details, 85), subject), at)
    BY <2>1, <2>2, Zenon
  <2>6. Item(p).lane = "memory" /\ Item(p).object = object
    BY <2>5 DEF Located, By, Vol3, EvidenceItem
  <2> QED BY <2>3, <2>4, <2>6 DEF TellsOf, Runtime
<1> HIDE DEF Item
<1>3. PICK list : list = ListOf(HiddenPids(sections)) /\ IsList(list) /\ Range(list) = HiddenPids(sections)
  BY HiddenFinite, ListOfIs
<1>4. PICK f : f = [i \in DOMAIN list |-> Item(list[i])]
  OBVIOUS
<1>5. IsList(f) /\ KeptSeq(f) = f /\ DOMAIN f = DOMAIN list
  BY <1>3, <1>4, ListMap
<1>6. HiddenProcesses(sections) = f
  BY <1>1, <1>3, <1>4, <1>5, Zenon DEF MapSeq
<1>7. PICK i \in DOMAIN list : list[i] = p
  BY <1>3, ListHas
<1>8. f[i] \in Range(f) /\ TellsOf(f[i], p)
  BY <1>2, <1>4, <1>5, <1>7, ListHas
<1>9. AllSound(Flatten(MapSeq(SectionItems, sections)), {"memory"}, P)
  <2>1. ASSUME NEW k \in DOMAIN sections PROVE AllSound(SectionItems(sections[k]), {"memory"}, P)
    <3>1. IsList(sections[k].rows) /\ Naming(sections[k], P) /\ \A row \in Range(sections[k].rows) : row.column \in {"PID", "pid"}
      BY ListHas DEF IsMemory
    <3> QED BY <3>1, HookSound, ConfigSound, RowSound DEF SectionItems
  <2> QED BY <2>1, ListsMap, SoundFlat DEF MapSeq, IsMemory
<1>10. PICK t, q : t = Flatten(MapSeq(SectionItems, sections)) /\ IsList(t) /\ q = t \o f
  BY <1>9 DEF AllSound
<1>11. IsList(q) /\ Range(q) = Range(t) \cup Range(f)
  BY <1>5, <1>10, ListConcat
<1>12. \E n \in DOMAIN q : TellsOf(q[n], p)
  <2>1. PICK n \in DOMAIN q : q[n] = f[i]
    BY <1>8, <1>11, ListHas
  <2> QED BY <1>8, <2>1
<1>13. NormalizeMemory(sections) = q
  BY <1>6, <1>10, Zenon DEF NormalizeMemory
<1> QED BY <1>12, <1>13

(* Every process the report has as hidden is among these observations. *)
Tells(ids, r) == \A p \in HiddenPids(r.sections) : \E id \in ids : TellsOf(id, p)

Accepted(r) == r \in Range(call.bundle.memory) /\ Ingested("memory", r, sample, fmt)

(* What an accepted memory report has as hidden is staged as hidden, and
   with the bundle it is evidence. *)
Told ==
    /\ bundle = "kept" => pc \in {"enrich", "conclude", "persist", "done", "answered", "raised"}
    /\ \A r : Accepted(r) => /\ pc \in {"trace", "dump", "merge"} => Tells(Ids(staged.items), r)
                             /\ bundle = "kept" => Tells(Ids(store), r)

LEMMA AcceptedStays == ASSUME call' = call PROVE \A r : Accepted(r)' <=> Accepted(r)
<1>1. sample' = sample /\ fmt' = fmt
  BY DEF sample, fmt
<1> QED BY <1>1 DEF Accepted

LEMMA ToldNotKept ==
    ASSUME Told, call' = call, bundle' # "kept", pc' \notin {"trace", "dump", "merge"}
    PROVE  Told'
  BY DEF Told

LEMMA ToldKept ==
    ASSUME Told, call' = call, bundle' = bundle, Ids(store) \subseteq Ids(store'),
           pc' \in {"enrich", "conclude", "persist", "done", "answered", "raised"}
    PROVE  Told'
<1>1. ASSUME NEW r, Accepted(r)', bundle' = "kept" PROVE Tells(Ids(store), r)'
  <2>1. Tells(Ids(store), r)
    BY <1>1, AcceptedStays DEF Told
  <2> QED BY <2>1 DEF Tells
<1> QED BY <1>1 DEF Told

LEMMA StagedIds ==
    ASSUME Kept, NEW found, NEW name, IsList(found), Staging(found, name),
           \A i \in DOMAIN found : AllHeld(found[i], Range(store), Started, Subject)
    PROVE  /\ Ids(staged.items) \subseteq Ids(staged'.items)
           /\ \A i \in DOMAIN found : Ids(found[i]) \subseteq Ids(staged'.items)
<1>1. PICK S, P, F, t : S = Range(store) /\ P = Started /\ F = Subject /\ t = staged.items
  OBVIOUS
<1>2. PICK e : e = Extend(t, Flatten(found))
  OBVIOUS
<1>3. staged'.items = e
  BY <1>1, <1>2 DEF Staging
<1>4. AllHeld(t, S, P, F) /\ \A i \in DOMAIN found : AllHeld(found[i], S, P, F)
  BY <1>1, Zenon DEF Kept
<1>5. \A id : id \in Ids(e) <=> id \in Ids(t) \/ \E i \in DOMAIN found : id \in Ids(found[i])
  BY <1>2, <1>4, StagedHeld
<1> QED BY <1>1, <1>3, <1>5

LEMMA MemoryTold == ASSUME Inv, StageMemory, NEW r, Accepted(r) PROVE Tells(Ids(staged'.items), r)
<1>1. PICK rows : rows = call.bundle.memory /\ IsList(rows) /\ \A x \in Range(rows) : IsMemory(x.sections)
  BY GivenIs DEF Inv
<1>2. PICK I : I = {i \in DOMAIN rows : Ingested("memory", rows[i], sample, fmt)}
  OBVIOUS
<1>3. PICK taken : taken = Picked(rows, I)
  OBVIOUS
<1>4. IsList(taken) /\ Range(taken) = {rows[i] : i \in I \cap DOMAIN rows}
  BY <1>1, <1>3, ListPicked
<1>5. PICK found : found = [i \in DOMAIN taken |-> Correlated(NormalizeMemory(taken[i].sections))]
  OBVIOUS
<1>6. IsList(found) /\ DOMAIN found = DOMAIN taken /\ KeptSeq(found) = found
  BY <1>4, <1>5, ListMap
<1>7. Staging(found, "memory.vol3(replay)")
  <2>1. Staging(MapSeq(LAMBDA x : Correlated(NormalizeMemory(x.sections)), Filter(rows, LAMBDA x : Ingested("memory", x, sample, fmt))),
                "memory.vol3(replay)")
    BY <1>1, Zenon DEF StageMemory
  <2>2. Staging(MapSeq(LAMBDA x : Correlated(NormalizeMemory(x.sections)), taken), "memory.vol3(replay)")
    BY <1>2, <1>3, <2>1, Zenon DEF Filter
  <2> QED BY <1>5, <1>6, <2>2, Zenon DEF MapSeq
<1>8. \A i \in DOMAIN taken : taken[i] \in Range(rows)
  <2>1. IsList(taken) /\ \A i \in DOMAIN taken : \E j \in I \cap DOMAIN rows : taken[i] = rows[j]
    BY <1>1, <1>3, FilterHas
  <2>2. \A j \in DOMAIN rows : rows[j] \in Range(rows)
    BY <1>1, ListHas
  <2> QED BY <2>1, <2>2
<1>9. ASSUME NEW i \in DOMAIN found
      PROVE  AllHeld(found[i], Range(store), Started, Subject)
  <2>1. AllSound(NormalizeMemory(taken[i].sections), {"memory"}, Started)
    BY <1>1, <1>6, <1>8, NamingStarted, MemorySound
  <2>2. {"memory"} \subseteq Lanes
    BY DEF Lanes
  <2>3. AllHeld(Correlated(NormalizeMemory(taken[i].sections)), Range(store), Started, Subject)
    BY <2>1, <2>2, Correlates DEF Inv
  <2>4. found[i] = Correlated(NormalizeMemory(taken[i].sections))
    BY <1>5, <1>6
  <2> QED BY <2>3, <2>4
<1>10. \A i \in DOMAIN found : Ids(found[i]) \subseteq Ids(staged'.items)
  BY <1>6, <1>7, <1>9, StagedIds DEF Inv
<1>11. PICK i \in DOMAIN taken : taken[i] = r
  <2>1. r \in Range(rows) /\ Ingested("memory", r, sample, fmt)
    BY <1>1 DEF Accepted
  <2>2. PICK j \in DOMAIN rows : rows[j] = r
    BY <1>1, <2>1, ListHas
  <2>3. j \in I
    BY <1>2, <2>1, <2>2
  <2>4. r \in Range(taken)
    BY <1>4, <2>2, <2>3
  <2> QED BY <1>4, <2>4, ListHas
<1>12. ASSUME NEW p \in HiddenPids(r.sections) PROVE \E id \in Ids(found[i]) : TellsOf(id, p)
  <2>1. PICK items : items = NormalizeMemory(r.sections) /\ IsMemory(r.sections) /\ \A s \in Range(r.sections) : Naming(s, Started)
    BY <1>1, <1>8, <1>11, NamingStarted
  <2>2. AllSound(items, {"memory"}, Started)
    BY <2>1, MemorySound
  <2>3. PICK n \in DOMAIN items : TellsOf(items[n], p)
    BY <2>1, MemoryTells
  <2>4. Shaped(items[n]) /\ IsList(items)
    BY <2>2 DEF AllSound, Sound
  <2>5. found[i] = Annotate(store, items, Subject)
    BY <1>5, <1>6, <1>11, <2>1 DEF Correlated
  <2>6. n \in DOMAIN found[i] /\ TellsOf(found[i][n], p)
    BY <2>3, <2>4, <2>5, UnlinkedTied
  <2>7. IsList(found[i]) /\ Held(found[i][n], Range(store), Started, Subject)
    <3>1. AllHeld(found[i], Range(store), Started, Subject)
      BY <1>6, <1>9
    <3> QED BY <2>6, <3>1, ListHas DEF AllHeld
  <2>8. TellsOf(Id(found[i][n]), p)
    BY <2>6, <2>7, IdKeeps DEF Held
  <2>9. Id(found[i][n]) \in Ids(found[i])
    BY <2>6 DEF Ids
  <2> QED BY <2>8, <2>9
<1> QED BY <1>6, <1>10, <1>11, <1>12 DEF Tells

LEMMA ToldNext == ASSUME Inv, Told, [Next]_vars PROVE Told'
<1>1. CASE UNCHANGED vars
  <2>1. call' = call /\ UNCHANGED <<pc, store, staged, bundle>>
    BY <1>1 DEF vars, dispatched, evidence, collected
  <2> QED BY <2>1, AcceptedStays DEF Told
<1>2. CASE \/ Triage \/ Dispatch \/ Analyze \/ Collect \/ Decompile \/ StartBackend \/ StageCape \/ BackendFails
  <2>1. call' = call /\ pc \notin {"enrich", "conclude", "persist", "done", "answered", "raised"}
        /\ (bundle' = bundle \/ bundle' # "kept") /\ pc' \notin {"trace", "dump", "merge"}
    BY <1>2 DEF Triage, Dispatch, Analyze, Collect, Decompile, StartBackend, StageCape, BackendFails, dispatched, collected
  <2> QED BY <2>1, ToldNotKept DEF Told
<1>3. CASE StageMemory
  <2>1. call' = call /\ bundle' = bundle /\ pc = "memory" /\ pc' = "trace"
    BY <1>3 DEF StageMemory, dispatched
  <2>2. bundle' # "kept"
    BY <2>1 DEF Told
  <2>3. ASSUME NEW r, Accepted(r)' PROVE Tells(Ids(staged'.items), r)
    BY <1>3, <2>1, <2>3, AcceptedStays, MemoryTold
  <2> QED BY <2>2, <2>3 DEF Told
<1>4. CASE StageTraces \/ StageDumps
  <2>1. call' = call /\ bundle' = bundle /\ pc \in {"trace", "dump"} /\ pc' \in {"dump", "merge"}
    BY <1>4 DEF StageTraces, StageDumps, dispatched
  <2>2. bundle' # "kept"
    BY <2>1 DEF Told
  <2>3. Stages
    BY <1>4, TracesStaged, DumpsStaged
  <2>4. Ids(staged.items) \subseteq Ids(staged'.items)
    BY <2>3, StagedIds DEF Stages, Inv
  <2>5. ASSUME NEW r, Accepted(r)' PROVE Tells(Ids(staged'.items), r)
    <3>1. Tells(Ids(staged.items), r)
      BY <2>1, <2>5, AcceptedStays DEF Told
    <3> QED BY <2>4, <3>1 DEF Tells
  <2> QED BY <2>2, <2>5 DEF Told
<1>5. CASE Merge
  <2>1. call' = call /\ pc = "merge" /\ pc' = "enrich"
    BY <1>5 DEF Merge, dispatched
  <2>2. CASE bundle' # "kept"
    BY <2>1, <2>2, ToldNotKept
  <2>3. CASE bundle' = "kept"
    <3>1. PICK s, f, t, e : s = store /\ f = feed /\ t = staged.items /\ e = Extend(s, t)
      OBVIOUS
    <3>2. store' = e
      <4>1. Add(staged.items, staged.ran)
        BY <1>5, <2>3 DEF Merge
      <4> QED BY <3>1, <4>1, Zenon DEF Add
    <3>3. IsList(s) /\ IsList(t) /\ Fed(f, s)
      BY <3>1, Zenon DEF Inv, Kept, AllHeld
    <3>4. Ids(e) = Ids(s) \cup Ids(t)
      BY <3>1, <3>3, FedMore, Zenon
    <3>5. Ids(staged.items) \subseteq Ids(store')
      BY <3>1, <3>2, <3>4
    <3>6. ASSUME NEW r, Accepted(r)' PROVE Tells(Ids(store'), r)
      <4>1. Tells(Ids(staged.items), r)
        BY <2>1, <3>6, AcceptedStays DEF Told
      <4> QED BY <3>5, <4>1 DEF Tells
    <3> QED BY <2>1, <3>6 DEF Told
  <2> QED BY <2>2, <2>3
<1>6. CASE Enrich
  <2>1. call' = call /\ bundle' = bundle /\ pc' \in {"conclude", "raised"}
    BY <1>6 DEF Enrich, dispatched, collected
  <2>2. CASE UNCHANGED evidence
    BY <2>1, <2>2, ToldKept DEF evidence
  <2>3. CASE /\ call.snapshot # None
             /\ Add(EnrichSnapshot(store, call.snapshot), <<>>) \/ AddSome(EnrichSnapshot(store, call.snapshot))
    <3>1. IsList(store) /\ Fed(feed, store)
      BY DEF Inv, Kept, AllHeld
    <3>2. IsList(EnrichSnapshot(store, call.snapshot))
      <4>1. AllSound(EnrichSnapshot(store, call.snapshot), {"enrich"}, Started)
        BY <2>3, <3>1, GivenIs, EnrichSound DEF Inv
      <4> QED BY <4>1 DEF AllSound
    <3>3. PICK t : IsList(t) /\ \E names : Add(t, names)
      BY <2>3, <3>2, SomeAdded
    <3>4. PICK s, f, e : s = store /\ f = feed /\ e = Extend(s, t)
      OBVIOUS
    <3>5. store' = e
      BY <3>3, <3>4, Zenon DEF Add
    <3>6. Ids(e) = Ids(s) \cup Ids(t)
      BY <3>1, <3>3, <3>4, FedMore, Zenon
    <3> QED BY <2>1, <3>4, <3>5, <3>6, ToldKept
  <2> QED BY <1>6, <2>2, <2>3 DEF Enrich
<1>7. CASE Reconstruct \/ PersistRun \/ Ask \/ Propose
  <2>1. call' = call /\ bundle' = bundle /\ store' = store /\ pc' \in {"persist", "done", "answered"}
    BY <1>7 DEF Reconstruct, PersistRun, Ask, Propose, dispatched, evidence, collected
  <2> QED BY <2>1, ToldKept
<1> QED BY <1>1, <1>2, <1>3, <1>4, <1>5, <1>6, <1>7 DEF Next

(* runtime.py: the process tree has the processes that were seen to start. *)
LEMMA TreeIs ==
    ASSUME NEW s, IsList(s), NEW p \in ProcessTree(s).nodes
    PROVE  \E it \in Range(s) : Shown(it) /\ Starts(it) /\ it.object["pid"] = p
<1> DEFINE I == {i \in DOMAIN s : Shown(s[i]) /\ s[i].artifact = "process" /\ s[i].operation = "spawn" /\ Has(s[i].object, "pid")}
           spawns == Picked(s, I)
           pids   == {spawns[i].object["pid"] : i \in DOMAIN spawns}
           Spawn(q) == spawns[Max({i \in DOMAIN spawns : spawns[i].object["pid"] = q})]
           Parent(q) == FirstOf(Spawn(q).subject, <<"pid">>, "None")
           IsRoot(q) == Parent(q) \notin pids \ {q}
           Grow(x, i) == x \union {q \in pids : ~IsRoot(q) /\ Parent(q) \in x}
           roots  == {q \in pids : IsRoot(q)}
           parent == [q \in pids |-> Parent(q)]
           flat == Lib!FoldLeft(Grow, roots, [i \in DOMAIN spawns |-> i])
<1>1. ProcessTree(s) = [nodes |-> pids, parent |-> parent, roots |-> roots, flat |-> flat]
  BY ZenonT(60) DEF ProcessTree, Filter
<1>2. PICK n, a, b, c : n = pids /\ a = parent /\ b = roots /\ c = flat
  OBVIOUS
<1> HIDE DEF parent, roots, flat
<1>3. ProcessTree(s) = [nodes |-> n, parent |-> a, roots |-> b, flat |-> c]
  BY <1>1, <1>2, Zenon
<1>4. p \in n
  BY <1>3
<1>5. PICK i \in DOMAIN spawns : spawns[i].object["pid"] = p
  BY <1>2, <1>4
<1>6. PICK j \in I \cap DOMAIN s : spawns[i] = s[j]
  <2> HIDE DEF I
  <2> QED BY FilterHas
<1>7. s[j] \in Range(s) /\ Shown(s[j]) /\ Starts(s[j])
  BY <1>6, ListHas DEF Starts, Has
<1> QED BY <1>5, <1>6, <1>7

(* A process that the pool scanner of an accepted report finds and the
   process list lacks is told as hidden. *)
THEOREM HiddenToldAlways == Spec => []HiddenIsTold
<1>1. Init => Told
  BY DEF Init, Told
<1>2. ASSUME Inv, Told PROVE HiddenIsTold
  <2>1. SUFFICES ASSUME out # None, bundle = "kept", NEW p \in Unlinked
                 PROVE  \E id \in out.view.hidden : Is(id.object, "pid", p)
    BY Zenon DEF HiddenIsTold
  <2>2. PICK r : /\ r \in Range(call.bundle.memory) /\ Ingested("memory", r, sample, fmt)
                 /\ p \in Pids(ReportRows(r, {"PsScan"})) /\ p \notin Pids(ReportRows(r, {"PsList"})) /\ p # "None"
    BY Zenon DEF Unlinked
  <2>3. p \in HiddenPids(r.sections)
    <3>1. IsMemory(r.sections)
      BY <1>2, <2>2, GivenIs DEF Inv
    <3> QED BY <2>2, <3>1, RowPids DEF HiddenPids
  <2>4. PICK s, o, raw, iso, v : s = store /\ o = out /\ raw = sample.raw /\ iso = isolated /\ v = BuildRuntimeView(s)
    OBVIOUS
  <2>5. o = Conclude(s, raw, iso)
    BY <1>2, <2>1, <2>4, Zenon DEF Inv, Concluded
  <2>6. o.view = v
    BY <2>4, <2>5 DEF Conclude
  <2>7. v.hidden = {Id(s[i]) : i \in {j \in DOMAIN s : Hiding(s[j])}}
    BY <2>4, ViewIs
  <2>8. \E id \in v.hidden : Is(id.object, "pid", p)
    <3>1. PICK id \in Ids(s) : TellsOf(id, p)
      BY <1>2, <2>1, <2>2, <2>3, <2>4 DEF Told, Accepted, Tells
    <3>2. PICK i \in DOMAIN s : id = Id(s[i])
      BY <3>1 DEF Ids
    <3>3. Shaped(s[i])
      BY <1>2, <2>4, ListHas DEF Inv, Kept, AllHeld, Held
    <3>4. Hiding(s[i]) /\ Is(id.object, "pid", p)
      BY <3>1, <3>2, <3>3, IdKeeps, UnlinkedHides
    <3>5. id \in v.hidden
      BY <2>7, <3>2, <3>4
    <3> QED BY <3>4, <3>5
  <2> QED BY <2>4, <2>6, <2>8, Zenon
<1>3. Inv /\ Told /\ [Next]_vars => Told'
  BY ToldNext
<1> QED BY <1>1, <1>2, <1>3, Consistent, PTL DEF Spec

(* Such a process is in the process tree only if a report saw it start, or
   a process list or scan names it by the key of the tree. *)
THEOREM HiddenOutOfTree == Spec => []HiddenStaysOutOfTree
<1>1. ASSUME Inv PROVE HiddenStaysOutOfTree
  <2>1. SUFFICES ASSUME out # None, NEW p \in out.view.tree.nodes PROVE p \in Started
    BY Zenon DEF HiddenStaysOutOfTree, Started
  <2>2. PICK s, o, raw, iso, v : s = store /\ o = out /\ raw = sample.raw /\ iso = isolated /\ v = BuildRuntimeView(s)
    OBVIOUS
  <2>3. o = Conclude(s, raw, iso)
    BY <1>1, <2>1, <2>2, Zenon DEF Inv, Concluded
  <2>4. o.view = v
    BY <2>2, <2>3 DEF Conclude
  <2>5. v.tree = ProcessTree(s)
    BY <2>2, ViewIs
  <2>6. p \in ProcessTree(s).nodes
    BY <2>1, <2>2, <2>4, <2>5
  <2>7. AllHeld(store, Range(store), Started, Subject) /\ IsList(store)
    BY <1>1 DEF Inv, Kept, AllHeld
  <2>8. PICK it \in Range(s) : Shown(it) /\ Starts(it) /\ it.object["pid"] = p
    BY <2>2, <2>6, <2>7, TreeIs
  <2>9. Held(it, Range(store), Started, Subject)
    BY <2>2, <2>7, <2>8 DEF AllHeld
  <2> QED BY <2>8, <2>9 DEF Held, Shown, Seen
<1> QED BY <1>1, Consistent, PTL

-----------------------------------------------------------------------------
(* Order: what is read from two stores that hold the same items, with what a
   run showed in the same order, is the same. *)

(* The same items in two orders, what a run showed of them in one. *)
Alike(s, u) ==
    /\ IsList(s) /\ IsList(u) /\ IsInjective(s) /\ IsInjective(u) /\ Range(s) = Range(u)
    /\ \A U : (\A x \in U : x.lane # "static") =>
          Picked(s, {i \in DOMAIN s : s[i] \in U}) = Picked(u, {i \in DOMAIN u : u[i] \in U})

(* Lists that are alike are led onto one another. *)
LEMMA AlikeOnto == ASSUME NEW s, NEW u, Alike(s, u) PROVE \E h : Onto(h, s, u)
  BY SameElements DEF Alike

(* Two functions that take the same values, as often. *)
Paired(h, d, e) ==
    /\ \A i \in DOMAIN d : h[i] \in DOMAIN e /\ e[h[i]] = d[i]
    /\ \A j \in DOMAIN e : \E i \in DOMAIN d : h[i] = j
    /\ \A i, j \in DOMAIN d : h[i] = h[j] => i = j

(* The n-th largest value is one of the values, not of their places. *)
LEMMA NthSame ==
    ASSUME NEW d, IsFiniteSet(DOMAIN d), NEW e, NEW h, Paired(h, d, e), NEW n
    PROVE  NthLargest(d, n) = NthLargest(e, n)
<1>1. Cardinality(DOMAIN e) = Cardinality(DOMAIN d)
  <2>1. PICK A, B : A = DOMAIN d /\ B = DOMAIN e
    OBVIOUS
  <2> QED BY <2>1, SameCount DEF Paired
<1>2. Range(d) = Range(e)
  BY DEF Paired, Range
<1>3. ASSUME NEW v PROVE Cardinality({j \in DOMAIN e : e[j] >= v}) = Cardinality({i \in DOMAIN d : d[i] >= v})
  <2>1. PICK A, B : A = {i \in DOMAIN d : d[i] >= v} /\ B = {j \in DOMAIN e : e[j] >= v}
    OBVIOUS
  <2>2. IsFiniteSet(A)
    BY <2>1, FS_Subset
  <2>3. \A a \in A : h[a] \in B
    BY <2>1 DEF Paired
  <2>4. \A b \in B : \E a \in A : h[a] = b
    BY <2>1 DEF Paired
  <2>5. \A a, c \in A : h[a] = h[c] => a = c
    BY <2>1 DEF Paired
  <2> QED BY <2>1, <2>2, <2>3, <2>4, <2>5, SameCount
<1>4. {v \in Range(d) : Cardinality({i \in DOMAIN d : d[i] >= v}) >= n}
        = {v \in Range(e) : Cardinality({i \in DOMAIN e : e[i] >= v}) >= n}
  <2>1. PICK c, f : c = [v \in Range(d) |-> Cardinality({i \in DOMAIN d : d[i] >= v})]
                    /\ f = [v \in Range(e) |-> Cardinality({i \in DOMAIN e : e[i] >= v})]
    OBVIOUS
  <2>2. c = f
    BY <1>2, <1>3, <2>1, Zenon
  <2>3. \A v \in Range(d) : c[v] = Cardinality({i \in DOMAIN d : d[i] >= v})
    BY <2>1, Zenon
  <2>4. \A v \in Range(e) : f[v] = Cardinality({i \in DOMAIN e : e[i] >= v})
    BY <2>1, Zenon
  <2> QED BY <1>2, <2>2, <2>3, <2>4, Zenon
<1> QED BY <1>1, <1>4, Zenon DEF NthLargest

(* So is what the values are pooled to: the largest whole, each
   further one for 0.55 of the one before it. *)
LEMMA PooledSame ==
    ASSUME NEW d, IsFiniteSet(DOMAIN d), NEW e, NEW h, Paired(h, d, e)
    PROVE  Pooled(d) = Pooled(e)
<1>1. PICK p, q : p = Gain(d) /\ q = Gain(e)
  OBVIOUS
<1>2. DOMAIN p = DOMAIN d /\ DOMAIN q = DOMAIN e
  BY <1>1 DEF Gain
<1>3. \A i \in DOMAIN d : p[i] = LogOdds[d[i]] - LogOdds[Prior]
  BY <1>1 DEF Gain
<1>4. \A i \in DOMAIN e : q[i] = LogOdds[e[i]] - LogOdds[Prior]
  BY <1>1 DEF Gain
<1>5. Paired(h, p, q)
  BY <1>2, <1>3, <1>4 DEF Paired
<1>6. \A n : NthLargest(p, n) = NthLargest(q, n)
  BY <1>2, <1>5, NthSame
<1>7. ASSUME NEW x, NEW y, y = Gain(x)
      PROVE  Pooled(x) = 8000 * NthLargest(y, 1) + 4400 * NthLargest(y, 2) + 2420 * NthLargest(y, 3) + 1331 * NthLargest(y, 4)
  BY <1>7 DEF Pooled
<1> QED BY <1>1, <1>6, <1>7

(* The same techniques are mapped, each with the same confidence and the same lanes. *)
LEMMA MapSame == ASSUME NEW s, NEW u, Alike(s, u) PROVE MapEvidence(s) = MapEvidence(u)
<1>1. PICK h : Onto(h, s, u)
  BY AlikeOnto
<1>2. IsList(s) /\ IsList(u) /\ IsFiniteSet(DOMAIN s)
  <2>1. IsList(s) /\ IsList(u)
    BY DEF Alike
  <2> QED BY <2>1, ListHas, FS_Interval
<1>3. ASSUME NEW t PROVE /\ \A i \in Attributing(s, t) : h[i] \in Attributing(u, t) /\ u[h[i]] = s[i]
                         /\ \A j \in Attributing(u, t) : \E i \in Attributing(s, t) : h[i] = j
                         /\ \A i, j \in Attributing(s, t) : h[i] = h[j] => i = j
  BY <1>1, Zenon DEF Attributing, Onto
<1>4. ASSUME NEW t PROVE LaneDeltas(s, t) = LaneDeltas(u, t)
  <2>1. {LaneOf(s[i]) : i \in Attributing(s, t)} = {LaneOf(u[i]) : i \in Attributing(u, t)}
    BY <1>3
  <2>2. ASSUME NEW lane
        PROVE  Pooled([i \in Through(s, t, lane) |-> Support(s[i], t)]) = Pooled([i \in Through(u, t, lane) |-> Support(u[i], t)])
    <3>1. PICK d, e : d = [i \in Through(s, t, lane) |-> Support(s[i], t)] /\ e = [i \in Through(u, t, lane) |-> Support(u[i], t)]
      OBVIOUS
    <3>2. DOMAIN d = Through(s, t, lane) /\ DOMAIN e = Through(u, t, lane)
      BY <3>1, Zenon
    <3>3. \A i \in DOMAIN d : d[i] = Support(s[i], t)
      BY <3>1, <3>2, Zenon
    <3>4. \A i \in DOMAIN e : e[i] = Support(u[i], t)
      BY <3>1, <3>2, Zenon
    <3>5. Paired(h, d, e)
      BY <1>3, <3>2, <3>3, <3>4 DEF Paired, Through
    <3>6. IsFiniteSet(DOMAIN d)
      BY <1>2, <3>2, FS_Subset DEF Through, Attributing
    <3> QED BY <3>1, <3>5, <3>6, PooledSame
  <2> QED BY <2>1, <2>2, Zenon DEF LaneDeltas
<1>5. ASSUME NEW t PROVE {Id(s[i]) : i \in Attributing(s, t)} = {Id(u[i]) : i \in Attributing(u, t)}
  BY <1>3
<1>6. ASSUME NEW t PROVE {ProvenanceOf(s[i]) : i \in Attributing(s, t)} = {ProvenanceOf(u[i]) : i \in Attributing(u, t)}
  BY <1>3
<1>7. ASSUME NEW t PROVE {LaneOf(s[i]) : i \in Attributing(s, t)} = {LaneOf(u[i]) : i \in Attributing(u, t)}
  BY <1>3
<1>8. DOMAIN MapEvidence(s) = DOMAIN MapEvidence(u)
  <2>1. \A t : t \in DOMAIN MapEvidence(s) <=> Attributing(s, t) # {}
    BY <1>2, MapIs
  <2>2. \A t : t \in DOMAIN MapEvidence(u) <=> Attributing(u, t) # {}
    BY <1>2, MapIs
  <2>3. \A t : Attributing(s, t) # {} <=> Attributing(u, t) # {}
    BY <1>3
  <2>4. \A t : t \in DOMAIN MapEvidence(s) <=> t \in DOMAIN MapEvidence(u)
    BY <2>1, <2>2, <2>3, Zenon
  <2>5. ASSUME NEW d, NEW e, \A t : t \in d <=> t \in e PROVE d = e
    BY <2>5
  <2> QED BY <2>4, <2>5, Zenon
<1>9. ASSUME NEW t \in DOMAIN MapEvidence(s) PROVE MapEvidence(s)[t] = MapEvidence(u)[t]
  <2>1. MapEvidence(s)[t] = MappingOf(s, t)
    BY <1>2, <1>9, MapWhole
  <2>2. MapEvidence(u)[t] = MappingOf(u, t)
    BY <1>2, <1>8, <1>9, MapWhole
  <2>3. MappingOf(s, t) = MappingOf(u, t)
    BY <1>4, <1>5, <1>6, <1>7, Zenon DEF MappingOf
  <2> QED BY <2>1, <2>2, <2>3
<1>10. MapEvidence(s) = [t \in DOMAIN MapEvidence(s) |-> MapEvidence(s)[t]]
  <2>1. PICK f : f = [t \in DOMAIN MapEvidence(s) |-> MappingOf(s, t)]
    OBVIOUS
  <2>2. MapEvidence(s) = f
    BY <1>2, <2>1, MapWhole
  <2> QED BY <2>1, <2>2
<1>11. MapEvidence(u) = [t \in DOMAIN MapEvidence(u) |-> MapEvidence(u)[t]]
  <2>1. PICK f : f = [t \in DOMAIN MapEvidence(u) |-> MappingOf(u, t)]
    OBVIOUS
  <2>2. MapEvidence(u) = f
    BY <1>2, <2>1, MapWhole
  <2> QED BY <2>1, <2>2
<1> QED BY <1>8, <1>9, <1>10, <1>11

(* Each item of either list is in the other. *)
Echoes(s, u) ==
    /\ \A i \in DOMAIN s : \E j \in DOMAIN u : u[j] = s[i]
    /\ \A j \in DOMAIN u : \E i \in DOMAIN s : s[i] = u[j]

(* Lists that are alike hold the same items. *)
LEMMA AlikeEchoes == ASSUME NEW s, NEW u, Alike(s, u) PROVE Echoes(s, u)
<1>1. IsList(s) /\ IsList(u) /\ Range(s) = Range(u)
  BY DEF Alike
<1> QED BY <1>1 DEF Echoes, Range

(* The strings a YARA rule may use. *)
LEMMA CandidatesSame == ASSUME NEW s, NEW u, Echoes(s, u), NEW raw PROVE CandidateStrings(s, raw) = CandidateStrings(u, raw)
<1> DEFINE Of(d, k)  == IF Has(d, k) THEN {d[k]} ELSE {}
           Named(it) == {tok \in Of(it.details, "decoded_preview") \union Of(it.object, "sink")
                              \union Of(it.object, "value") : ~Has_(tok, "stop")}
                        \union Of(it.object, "yara_rule")
           Names(z) == UNION {Named(z[i]) : i \in DOMAIN z}
           Known(named) == ListOf(IF Cardinality(named) < 2 THEN named \union raw ELSE named)
           Rank(named, n) == Picked(Known(named), {i \in DOMAIN Known(named) : Specificity(Known(named)[i]) = n})
           Ranked(named) == Flatten(KeptSeq([i \in DOMAIN <<6, 5, 4, 3, 2, 1, 0>> |-> Rank(named, <<6, 5, 4, 3, 2, 1, 0>>[i])]))
           Best(named) == SubSeq(Ranked(named), 1, Min({MaxStrings, Len(Ranked(named))}))
<1>1. ASSUME NEW z PROVE CandidateStrings(z, raw) = Best(Names(z))
  BY ZenonT(30) DEF CandidateStrings, Filter, MapSeq
<1>2. Names(s) = Names(u)
  <2> HIDE DEF Named
  <2>1. \A tok : tok \in Names(s) <=> tok \in Names(u)
    BY DEF Echoes
  <2> QED BY <2>1
<1> HIDE DEF Names, Best
<1> QED BY <1>1, <1>2

(* The YARA rule. *)
LEMMA YaraSame == ASSUME NEW s, NEW u, Echoes(s, u), NEW raw, NEW corpus PROVE GenerateYara(s, raw, corpus) = GenerateYara(u, raw, corpus)
<1>1. CandidateStrings(s, raw) = CandidateStrings(u, raw)
  BY CandidatesSame
<1> QED BY <1>1, Zenon DEF GenerateYara

(* Whether a list has an item that a reader looks for. *)
LEMMA HasSame == ASSUME NEW s, NEW u, Echoes(s, u), NEW key, NEW v PROVE HasObject(s, key, v) <=> HasObject(u, key, v)
<1>1. \A i : Is(s[i].object, key, v) => \A j : u[j] = s[i] => Is(u[j].object, key, v)
  OBVIOUS
<1>2. \A j : Is(u[j].object, key, v) => \A i : s[i] = u[j] => Is(s[i].object, key, v)
  OBVIOUS
<1> QED BY <1>1, <1>2, Zenon DEF HasObject, Echoes

(* The timeline that the model of the graph is given. *)
LEMMA TimelineSame == ASSUME NEW s, NEW u, Range(s) = Range(u) PROVE Timeline(s) = Timeline(u)
  BY Zenon DEF Timeline

(* The statements that only reason. *)
LEMMA ReasonedSame == ASSUME NEW s, NEW u, Echoes(s, u) PROVE Reasoned(s) = Reasoned(u)
<1>1. \A x : x \in Reasoned(s) => x \in Reasoned(u)
  BY DEF Reasoned, Echoes
<1>2. \A x : x \in Reasoned(u) => x \in Reasoned(s)
  BY DEF Reasoned, Echoes
<1> QED BY <1>1, <1>2, Zenon

(* The nodes and the edges of the graph. *)
LEMMA GraphSame == ASSUME NEW s, NEW u, Echoes(s, u), NEW map PROVE BuildGraph(s, map) = BuildGraph(u, map)
<1>1. Reasoned(s) = Reasoned(u)
  BY ReasonedSame
<1> QED BY <1>1, ZenonT(60) DEF BuildGraph

(* The Sigma rule. *)
LEMMA SigmaSame == ASSUME NEW s, NEW u, Echoes(s, u), NEW map PROVE GenerateSigma(s, map) = GenerateSigma(u, map)
<1> DEFINE Execs(it) == /\ it.artifact \in {"process", "api_call", "macro"}
                        /\ it.operation \in {"exec", "spawn"}
           Egress(it) == it.artifact \in {"network", "host"} /\ it.operation \in {"connect", "resolve"}
           Writes(it) == it.artifact = "registry" /\ it.operation = "write"
           Cmds(z) == {FirstOf(it.object, <<"sink", "command", "api">>, "None") : it \in {z[i] : i \in {j \in DOMAIN z : Execs(z[j])}}} \ {"None"}
           Hosts(z) == {FirstOf(it.object, <<"host", "value">>, "None") : it \in {z[i] : i \in {j \in DOMAIN z : Egress(z[j])}}} \ {"None"}
           Keys(z) == {FirstOf(it.object, <<"key">>, "None") : it \in {z[i] : i \in {j \in DOMAIN z : Writes(z[j])}}} \ {"None"}
           Rule(c, r) == IF c THEN {r} ELSE {}
           Or(tagged, default) == IF tagged = {} THEN default ELSE tagged
           Own(S) == TagsOf(map, S \intersect DOMAIN map)
           Rules(cmds, hosts, keys, inhibit, shell, ransom) ==
             Rule(cmds # {}, SigmaRule("ioc", cmds, TagsOf(map, OfTactic(map, "execution"))))
             \union Rule(hosts # {}, SigmaRule("ioc", hosts, TagsOf(map, OfTactic(map, "command-and-control"))))
             \union Rule(keys # {}, SigmaRule("behavioral", keys, TagsOf(map, OfTactic(map, "persistence"))))
             \union Rule(inhibit, SigmaRule("behavioral", {"vssadmin.exe"}, Or(Own({"T1490"}), {"impact", "T1490"})))
             \union Rule(shell, SigmaRule("behavioral", {"php.exe", "cmd.exe"},
                            Or(Own({"T1505.003", "T1059"}), {"persistence", "T1505.003"})))
             \union Rule(ransom, SigmaRule("behavioral", {".wnry"}, Or(Own({"T1486"}), {"impact", "T1486"})))
<1>1. ASSUME NEW z PROVE GenerateSigma(z, map) = Rules(Cmds(z), Hosts(z), Keys(z), HasCapability(z, "inhibit_recovery"),
                                                       HasVerdict(z, "php_webshell"), HasCapability(z, "ransomware"))
  BY ZenonT(60) DEF GenerateSigma
<1>2. {s[i] : i \in {j \in DOMAIN s : Execs(s[j])}} = {u[i] : i \in {j \in DOMAIN u : Execs(u[j])}}
  <2> HIDE DEF Execs
  <2>1. \A x : x \in {s[i] : i \in {j \in DOMAIN s : Execs(s[j])}} <=> x \in {u[i] : i \in {j \in DOMAIN u : Execs(u[j])}}
    BY DEF Echoes
  <2> QED BY <2>1
<1>3. {s[i] : i \in {j \in DOMAIN s : Egress(s[j])}} = {u[i] : i \in {j \in DOMAIN u : Egress(u[j])}}
  <2> HIDE DEF Egress
  <2>1. \A x : x \in {s[i] : i \in {j \in DOMAIN s : Egress(s[j])}} <=> x \in {u[i] : i \in {j \in DOMAIN u : Egress(u[j])}}
    BY DEF Echoes
  <2> QED BY <2>1
<1>4. {s[i] : i \in {j \in DOMAIN s : Writes(s[j])}} = {u[i] : i \in {j \in DOMAIN u : Writes(u[j])}}
  <2> HIDE DEF Writes
  <2>1. \A x : x \in {s[i] : i \in {j \in DOMAIN s : Writes(s[j])}} <=> x \in {u[i] : i \in {j \in DOMAIN u : Writes(u[j])}}
    BY DEF Echoes
  <2> QED BY <2>1
<1>5. Cmds(s) = Cmds(u) /\ Hosts(s) = Hosts(u) /\ Keys(s) = Keys(u)
  BY <1>2, <1>3, <1>4, Zenon
<1>6. /\ HasCapability(s, "inhibit_recovery") = HasCapability(u, "inhibit_recovery")
      /\ HasCapability(s, "ransomware") = HasCapability(u, "ransomware")
      /\ HasVerdict(s, "php_webshell") = HasVerdict(u, "php_webshell")
  <2>1. ASSUME NEW k, NEW v PROVE HasObject(s, k, v) = HasObject(u, k, v)
    <3>1. HasObject(s, k, v) \in BOOLEAN /\ HasObject(u, k, v) \in BOOLEAN
      BY DEF HasObject
    <3> QED BY <3>1, HasSame
  <2> QED BY <2>1 DEF HasCapability, HasVerdict
<1> HIDE DEF Cmds, Hosts, Keys, Rules
<1> QED BY <1>1, <1>5, <1>6, Zenon

(* What is picked of either list holds the same items. *)
LEMMA PickedEchoes ==
    ASSUME NEW s, IsList(s), NEW u, IsList(u), Echoes(s, u), NEW I, NEW J,
           \A i \in DOMAIN s : \A j \in DOMAIN u : s[i] = u[j] => (i \in I <=> j \in J)
    PROVE  Echoes(Picked(s, I), Picked(u, J))
<1>1. PICK p, q : p = Picked(s, I) /\ q = Picked(u, J)
  OBVIOUS
<1>2. IsList(p) /\ IsList(q)
  BY <1>1, ListPicked
<1>3. Range(p) = {s[i] : i \in I \cap DOMAIN s} /\ Range(q) = {u[j] : j \in J \cap DOMAIN u}
  BY <1>1, ListPicked
<1>4. \A x : x \in {s[i] : i \in I \cap DOMAIN s} <=> x \in {u[j] : j \in J \cap DOMAIN u}
  BY DEF Echoes
<1>5. Range(p) = Range(q)
  BY <1>3, <1>4
<1> QED BY <1>1, <1>2, <1>5 DEF Echoes, Range

(* The Suricata rules. *)
LEMMA SuricataSame == ASSUME NEW s, NEW u, IsList(s), IsList(u), Echoes(s, u) PROVE SuricataCandidates(s) = SuricataCandidates(u)
<1> DEFINE Value(it) == FirstOf(it.object, <<"host", "value">>, "None")
           Usable(it) == /\ it.artifact = "network" /\ it.conf >= 60
                         /\ ~Is(it.details, "false_positive_risk", "high")
                         /\ Value(it) \in DOMAIN HostOf
           Use(z) == Picked(z, {j \in DOMAIN z : Usable(z[j])})
           Named(l) == {HostOf[Value(l[j])] : j \in DOMAIN l}
           Refs(l, h) == {Id(l[j]) : j \in {k \in DOMAIN l : HostOf[Value(l[k])] = h}}
           Rules(l, hosts) == [n \in 1..Min({MaxSids, Len(hosts)}) |-> [sid |-> n, host |-> hosts[n], refs |-> Refs(l, hosts[n])]]
           C(l) == Rules(l, ListOf(Named(l)))
<1>1. ASSUME NEW z PROVE SuricataCandidates(z) = C(Use(z))
  BY ZenonT(30) DEF SuricataCandidates, Filter
<1>2. Echoes(Use(s), Use(u))
  <2> HIDE DEF Usable
  <2>1. PICK I, J : I = {j \in DOMAIN s : Usable(s[j])} /\ J = {j \in DOMAIN u : Usable(u[j])}
    OBVIOUS
  <2>2. \A i \in DOMAIN s : \A j \in DOMAIN u : s[i] = u[j] => (i \in I <=> j \in J)
    BY <2>1
  <2>3. Echoes(Picked(s, I), Picked(u, J))
    BY <2>2, PickedEchoes
  <2> QED BY <2>1, <2>3
<1> HIDE DEF Use
<1>3. ASSUME NEW l, NEW m, Echoes(l, m) PROVE C(l) = C(m)
  <2> HIDE DEF Value
  <2>1. Named(l) = Named(m)
    <3>1. \A x : x \in Named(l) <=> x \in Named(m)
      BY <1>3 DEF Echoes
    <3> QED BY <3>1
  <2>2. ASSUME NEW h PROVE Refs(l, h) = Refs(m, h)
    <3>1. \A x : x \in Refs(l, h) <=> x \in Refs(m, h)
      BY <1>3 DEF Echoes
    <3> QED BY <3>1
  <2> HIDE DEF Named, Refs
  <2>3. ASSUME NEW hosts PROVE Rules(l, hosts) = Rules(m, hosts)
    BY <2>2, Zenon
  <2> HIDE DEF Rules
  <2> QED BY <2>1, <2>3, Zenon
<1> HIDE DEF C
<1> QED BY <1>1, <1>2, <1>3

(* The ransomware markers. *)
LEMMA MarkersSame == ASSUME NEW s, NEW u, Echoes(s, u) PROVE FamilyHint(s) = FamilyHint(u)
<1> DEFINE Markers(it) == {it.object[k] : k \in {"value", "indicators", "yara_rule", "capability"} \intersect DOMAIN it.object}
           All(z) == UNION {Markers(z[i]) : i \in DOMAIN z}
<1>1. ASSUME NEW z PROVE FamilyMarkers(z) = All(z)
  BY Zenon DEF FamilyMarkers
<1>2. All(s) = All(u)
  <2> HIDE DEF Markers
  <2>1. \A x : x \in All(s) <=> x \in All(u)
    BY DEF Echoes
  <2> QED BY <2>1
<1> HIDE DEF All
<1> QED BY <1>1, <1>2, Zenon DEF FamilyHint

(* The sinks, and how many. *)
LEMMA SinksSame == ASSUME NEW s, NEW u, Echoes(s, u) PROVE ExecSinkCount(s) = ExecSinkCount(u)
<1> DEFINE Exec(it) == it.artifact = "api_call" /\ it.operation = "exec" /\ Has(it.object, "sink")
           Sinks(z) == {z[i].object["sink"] : i \in {j \in DOMAIN z : Exec(z[j])}}
<1>1. Sinks(s) = Sinks(u)
  <2> HIDE DEF Exec
  <2>1. \A x : x \in Sinks(s) <=> x \in Sinks(u)
    BY DEF Echoes
  <2> QED BY <2>1
<1>2. ASSUME NEW z PROVE ExecSinkCount(z) = Cardinality(Sinks(z))
  BY Zenon DEF ExecSinkCount
<1> QED BY <1>1, <1>2, Zenon

(* The network indicators, and how many. *)
LEMMA NetworkSame == ASSUME NEW s, NEW u, Alike(s, u) PROVE NetworkIndicators(s) = NetworkIndicators(u)
<1>1. PICK h : Onto(h, s, u)
  BY AlikeOnto
<1> DEFINE Net(it) == Has(it.details, "ioc") /\ Among(it.object, "kind", {"url", "domain", "ipv4"})
<1>2. PICK A, B : A = {i \in DOMAIN s : Net(s[i])} /\ B = {i \in DOMAIN u : Net(u[i])}
  OBVIOUS
<1>3. NetworkIndicators(s) = Cardinality(A) /\ NetworkIndicators(u) = Cardinality(B)
  BY <1>2, Zenon DEF NetworkIndicators
<1>4. IsFiniteSet(A)
  <2>1. IsList(s)
    BY DEF Alike
  <2>2. IsFiniteSet(DOMAIN s) /\ A \subseteq DOMAIN s
    BY <1>2, <2>1, ListHas, FS_Interval
  <2> QED BY <2>2, FS_Subset
<1> HIDE DEF Net
<1>5. \A a \in A : h[a] \in B
  BY <1>1, <1>2 DEF Onto
<1>6. \A b \in B : \E a \in A : h[a] = b
  BY <1>1, <1>2 DEF Onto
<1>7. \A a, c \in A : h[a] = h[c] => a = c
  BY <1>1, <1>2 DEF Onto
<1>8. Cardinality(B) = Cardinality(A)
  BY <1>4, <1>5, <1>6, <1>7, SameCount
<1> QED BY <1>3, <1>8

(* How mature the sample is. *)
LEMMA MaturitySame == ASSUME NEW s, NEW u, Echoes(s, u) PROVE EvidenceMaturity(s) = EvidenceMaturity(u)
<1>1. {s[i].lane : i \in {j \in DOMAIN s : Runtime(s[j])}} = {u[i].lane : i \in {j \in DOMAIN u : Runtime(u[j])}}
  <2>1. \A x : x \in {s[i].lane : i \in {j \in DOMAIN s : Runtime(s[j])}} <=> x \in {u[i].lane : i \in {j \in DOMAIN u : Runtime(u[j])}}
    BY DEF Echoes
  <2> QED BY <2>1
<1> QED BY <1>1, Zenon DEF EvidenceMaturity

(* A reader that finds an item in one list finds it in the other. *)
LEMMA EqualHas ==
    ASSUME NEW s, NEW u, Echoes(s, u)
    PROVE  /\ \A k, v : HasObject(s, k, v) = HasObject(u, k, v)
           /\ \A v : HasCapability(s, v) = HasCapability(u, v) /\ HasVerdict(s, v) = HasVerdict(u, v)
           /\ (\E i \in DOMAIN s : s[i].operation = "decode") = (\E i \in DOMAIN u : u[i].operation = "decode")
           /\ (\E i \in DOMAIN s : Runtime(s[i])) = (\E i \in DOMAIN u : Runtime(u[i]))
<1>1. ASSUME NEW k, NEW v PROVE HasObject(s, k, v) = HasObject(u, k, v)
  <2>1. HasObject(s, k, v) \in BOOLEAN /\ HasObject(u, k, v) \in BOOLEAN
    BY DEF HasObject
  <2> QED BY <2>1, HasSame
<1>2. (\E i \in DOMAIN s : s[i].operation = "decode") <=> (\E i \in DOMAIN u : u[i].operation = "decode")
  BY DEF Echoes
<1>3. (\E i \in DOMAIN s : Runtime(s[i])) <=> (\E i \in DOMAIN u : Runtime(u[i]))
  BY DEF Echoes
<1>4. \A v : HasCapability(s, v) = HasCapability(u, v) /\ HasVerdict(s, v) = HasVerdict(u, v)
  BY <1>1 DEF HasCapability, HasVerdict
<1> QED BY <1>1, <1>2, <1>3, <1>4

(* The axes that are present. *)
LEMMA PresentSame == ASSUME NEW s, NEW u, Alike(s, u), Echoes(s, u), NEW map PROVE Present(s, map) = Present(u, map)
<1> DEFINE Axis(name, is) == IF is THEN {name} ELSE {}
           tids == DOMAIN map
           All(ransom, inhibit, shell, net, sinks, decoded, hint) ==
               Axis("technique", tids # {})
               \union Axis("ransomware", ransom)
               \union Axis("inhibit_recovery", inhibit)
               \union Axis("webshell", shell)
               \union Axis("injection", "T1055" \in tids)
               \union Axis("credential_access", OfTactic(map, "credential-access") # {})
               \union Axis("persistence", OfTactic(map, "persistence") # {})
               \union Axis("c2", net > 0 \/ OfTactic(map, "command-and-control") # {})
               \union Axis("exec_sinks", sinks >= 2)
               \union Axis("discovery", OfTactic(map, "discovery") # {})
               \union Axis("evasion", {"T1497", "T1622"} \intersect tids # {})
               \union Axis("obfuscation", {"T1027", "T1140"} \intersect tids # {} \/ decoded)
               \union Axis("collection", OfTactic(map, "collection") # {})
               \union Axis("family", hint # "unknown")
<1>1. ASSUME NEW z
      PROVE  Present(z, map) = All(HasCapability(z, "ransomware"), HasCapability(z, "inhibit_recovery"), HasVerdict(z, "php_webshell"),
                                   NetworkIndicators(z), ExecSinkCount(z), \E i \in DOMAIN z : z[i].operation = "decode", FamilyHint(z))
  BY ZenonT(60) DEF Present
<1>2. /\ HasCapability(s, "ransomware") = HasCapability(u, "ransomware")
      /\ HasCapability(s, "inhibit_recovery") = HasCapability(u, "inhibit_recovery")
      /\ HasVerdict(s, "php_webshell") = HasVerdict(u, "php_webshell")
      /\ (\E i \in DOMAIN s : s[i].operation = "decode") = (\E i \in DOMAIN u : u[i].operation = "decode")
  BY EqualHas
<1>3. NetworkIndicators(s) = NetworkIndicators(u) /\ ExecSinkCount(s) = ExecSinkCount(u) /\ FamilyHint(s) = FamilyHint(u)
  BY NetworkSame, SinksSame, MarkersSame
<1> HIDE DEF All
<1> QED BY <1>1, <1>2, <1>3, Zenon

(* The techniques of the summary. *)
LEMMA PrimarySame == ASSUME NEW s, NEW u, Echoes(s, u), NEW map PROVE PrimaryCapability(s, map) = PrimaryCapability(u, map)
<1> DEFINE St(t) == BestStatus(map, {t} \intersect DOMAIN map)
           tactics == Picked(PrimaryTactics, {i \in DOMAIN PrimaryTactics : OfTactic(map, PrimaryTactics[i]) # {}})
           Says(shell, ransom) == FirstCase(<<
              <<shell, <<"web shell", St("T1505.003")>> >>,
              <<ransom \/ "T1486" \in DOMAIN map,
                <<"ransomware", St("T1486")>> >>,
              <<"T1055" \in DOMAIN map, <<"injection", St("T1055")>> >>,
              <<OfTactic(map, "impact") # {}, <<"destructive impact", St("T1486")>> >>,
              <<tactics # <<>>, <<HeadOr(tactics, "none"),
                                    BestStatus(map, OfTactic(map, HeadOr(tactics, "none")))>> >>,
              <<DOMAIN map # {}, <<"technique", BestStatus(map, DOMAIN map)>> >> >>,
              <<"no clear malicious capability">>)
<1>1. ASSUME NEW z PROVE PrimaryCapability(z, map) = Says(HasVerdict(z, "php_webshell"), HasCapability(z, "ransomware"))
  BY ZenonT(60) DEF PrimaryCapability, Filter
<1>2. HasVerdict(s, "php_webshell") = HasVerdict(u, "php_webshell") /\ HasCapability(s, "ransomware") = HasCapability(u, "ransomware")
  BY EqualHas
<1> HIDE DEF Says
<1> QED BY <1>1, <1>2, Zenon

(* The risk. *)
LEMMA RiskSame == ASSUME NEW s, NEW u, Alike(s, u), Echoes(s, u), NEW map PROVE Risk(s, map) = Risk(u, map)
<1> DEFINE credible == Cardinality({t \in DOMAIN map : \/ map[t].status = "observed"
                                                       \/ map[t].conf >= Scaled(60)})
           Strong(ransom, inhibit, shell, sinks, hint) ==
               \/ ransom
               \/ inhibit
               \/ shell
               \/ "T1055" \in DOMAIN map
               \/ sinks >= 2
               \/ hint # "unknown"
               \/ \E t \in DOMAIN map : map[t].status = "observed"
           Weighed(strong, sinks, net) ==
               [risk |-> FirstCase(<<
                    <<OfTactic(map, "impact") # {}, 4>>,
                    <<strong \/ OfTactic(map, "credential-access") # {} \/ (credible >= 2 /\ net >= 1), 3>>,
                    <<credible >= 1 \/ net >= 2 \/ sinks = 1, 2>> >>, 1),
                likelihood |-> FirstCase(<<
                    <<strong \/ sinks >= 3, 3>>,
                    <<credible >= 1 \/ net >= 2, 2>> >>, 1)]
           All(ransom, inhibit, shell, net, sinks, hint) == Weighed(Strong(ransom, inhibit, shell, sinks, hint), sinks, net)
<1>1. ASSUME NEW z
      PROVE  Risk(z, map) = All(HasCapability(z, "ransomware"), HasCapability(z, "inhibit_recovery"), HasVerdict(z, "php_webshell"),
                                NetworkIndicators(z), ExecSinkCount(z), FamilyHint(z))
  BY ZenonT(60) DEF Risk
<1>2. /\ HasCapability(s, "ransomware") = HasCapability(u, "ransomware")
      /\ HasCapability(s, "inhibit_recovery") = HasCapability(u, "inhibit_recovery")
      /\ HasVerdict(s, "php_webshell") = HasVerdict(u, "php_webshell")
  BY EqualHas
<1>3. NetworkIndicators(s) = NetworkIndicators(u) /\ ExecSinkCount(s) = ExecSinkCount(u) /\ FamilyHint(s) = FamilyHint(u)
  BY NetworkSame, SinksSame, MarkersSame
<1> HIDE DEF All
<1> QED BY <1>1, <1>2, <1>3, Zenon

(* Whether it is malicious. *)
LEMMA MaliciousSame == ASSUME NEW s, NEW u, Alike(s, u), Echoes(s, u), NEW map PROVE Maliciousness(s, map) = Maliciousness(u, map)
<1> DEFINE All(axes, seen) ==
    LET points == [a \in axes |-> Points(a, map)]
        raw  == SumFunction(points)
        comp == IF raw > Knee THEN Compressed(raw) ELSE raw
        table == points
              @@ Diminishing(raw)
              @@ (IF ~seen /\ axes # {} THEN "static only" :> -4 ELSE Dict)
    IN  [factors |-> table,
         score |-> IF ~seen /\ axes # {} THEN Max({0, Min({96, comp - 4})}) ELSE Min({100, comp})]
<1>1. ASSUME NEW z PROVE Maliciousness(z, map) = All(Present(z, map), \E i \in DOMAIN z : Runtime(z[i]))
  BY ZenonT(60) DEF Maliciousness
<1>2. Present(s, map) = Present(u, map)
  BY PresentSame
<1>3. (\E i \in DOMAIN s : Runtime(s[i])) = (\E i \in DOMAIN u : Runtime(u[i]))
  BY EqualHas
<1> HIDE DEF All
<1> QED BY <1>1, <1>2, <1>3, Zenon

(* The lines of the summary. *)
LEMMA SummarySame ==
    ASSUME NEW s, NEW u, Alike(s, u), Echoes(s, u), NEW map, NEW phases, NEW iso
    PROVE  BuildSummary(s, map, phases, iso) = BuildSummary(u, map, phases, iso)
<1>1. /\ FamilyHint(s) = FamilyHint(u) /\ Risk(s, map) = Risk(u, map) /\ Maliciousness(s, map) = Maliciousness(u, map)
      /\ PrimaryCapability(s, map) = PrimaryCapability(u, map) /\ EvidenceMaturity(s) = EvidenceMaturity(u)
  BY MarkersSame, RiskSame, MaliciousSame, PrimarySame, MaturitySame
<1> DEFINE All(family, risk, mal, primary, maturity) ==
        [analysis_mode |-> IF iso THEN "static + dynamic" ELSE "static only",
         runtime_observed |-> RuntimeObserved(phases),
         highest_observed |-> HighestObserved(phases),
         highest_inferred |-> HighestInferred(phases),
         family |-> family,
         family_label |-> FirstCase(<< <<family # "unknown" /\ RuntimeObserved(phases), "High">>,
                                       <<family # "unknown", "Medium">> >>, "none"),
         primary |-> primary,
         risk |-> risk.risk, likelihood |-> risk.likelihood,
         score |-> mal.score, factors |-> mal.factors,
         maturity |-> maturity]
<1>2. ASSUME NEW z
      PROVE  BuildSummary(z, map, phases, iso) = All(FamilyHint(z), Risk(z, map), Maliciousness(z, map), PrimaryCapability(z, map), EvidenceMaturity(z))
  BY ZenonT(60) DEF BuildSummary
<1> HIDE DEF All
<1> QED BY <1>1, <1>2, Zenon

(* The reasons of the verdict. *)
LEMMA WhySame ==
    ASSUME NEW s, IsList(s), NEW u, IsList(u), Echoes(s, u), NEW mapping
    PROVE  ConfidenceBreakdown(s, mapping) = ConfidenceBreakdown(u, mapping)
<1> DEFINE Items(z) == Picked(z, {i \in DOMAIN z : Id(z[i]) \in mapping.cites})
           Sources(l) == {<<l[i].lane, l[i].tool>> : i \in DOMAIN l}
           Of(l, src) == {l[i].conf : i \in {j \in DOMAIN l : <<l[j].lane, l[j].tool>> = src}}
           Methods(l) == {MethodOf(l[i]) : i \in DOMAIN l}
           By_(l, m) == {Id(l[i]) : i \in {j \in DOMAIN l : MethodOf(l[j]) = m}}
           Lns(l) == {LaneOf(l[i]) : i \in DOMAIN l}
           In(l, lane) == {l[i].conf : i \in {j \in DOMAIN l : LaneOf(l[j]) = lane}}
           F(l) == [src \in Sources(l) |-> Max(Of(l, src))]
           G(l) == [m \in Methods(l) |-> By_(l, m)]
           H(l) == [lane \in Lns(l) |-> Max(In(l, lane))]
<1>1. ASSUME NEW z
      PROVE  ConfidenceBreakdown(z, mapping) = [by_source |-> F(Items(z)), by_method |-> G(Items(z)), lane_confidence |-> H(Items(z))]
  BY ZenonT(60) DEF ConfidenceBreakdown, Filter
<1>2. Echoes(Items(s), Items(u))
  <2>1. PICK I, J : I = {i \in DOMAIN s : Id(s[i]) \in mapping.cites} /\ J = {i \in DOMAIN u : Id(u[i]) \in mapping.cites}
    OBVIOUS
  <2>2. \A i \in DOMAIN s : \A j \in DOMAIN u : s[i] = u[j] => (i \in I <=> j \in J)
    BY <2>1
  <2>3. Echoes(Picked(s, I), Picked(u, J))
    BY <2>2, PickedEchoes
  <2> QED BY <2>1, <2>3
<1> HIDE DEF Items
<1>3. ASSUME NEW l, NEW m, Echoes(l, m) PROVE F(l) = F(m) /\ G(l) = G(m) /\ H(l) = H(m)
  <2>1. Sources(l) = Sources(m)
    <3>1. \A x : x \in Sources(l) <=> x \in Sources(m)
      BY <1>3 DEF Echoes
    <3> QED BY <3>1
  <2>2. ASSUME NEW src PROVE Of(l, src) = Of(m, src)
    <3>1. \A x : x \in Of(l, src) <=> x \in Of(m, src)
      BY <1>3 DEF Echoes
    <3> QED BY <3>1
  <2>3. Methods(l) = Methods(m)
    <3>1. \A x : x \in Methods(l) <=> x \in Methods(m)
      BY <1>3 DEF Echoes
    <3> QED BY <3>1
  <2>4. ASSUME NEW n PROVE By_(l, n) = By_(m, n)
    <3>1. \A x : x \in By_(l, n) <=> x \in By_(m, n)
      BY <1>3 DEF Echoes
    <3> QED BY <3>1
  <2>5. Lns(l) = Lns(m)
    <3>1. \A x : x \in Lns(l) <=> x \in Lns(m)
      BY <1>3 DEF Echoes
    <3> QED BY <3>1
  <2>6. ASSUME NEW lane PROVE In(l, lane) = In(m, lane)
    <3>1. \A x : x \in In(l, lane) <=> x \in In(m, lane)
      BY <1>3 DEF Echoes
    <3> QED BY <3>1
  <2> HIDE DEF Sources, Of, Methods, By_, Lns, In
  <2>7. F(l) = F(m)
    BY <2>1, <2>2, Zenon
  <2>8. G(l) = G(m)
    BY <2>3, <2>4, Zenon
  <2>9. H(l) = H(m)
    BY <2>5, <2>6, Zenon
  <2> QED BY <2>7, <2>8, <2>9
<1> HIDE DEF F, G, H
<1> QED BY <1>1, <1>2, <1>3, Zenon

(* What only a run shows is picked in the same order. *)
LEMMA ShownSame ==
    ASSUME NEW s, NEW u, Alike(s, u), NEW I, NEW J, I \subseteq DOMAIN s, J \subseteq DOMAIN u,
           \A i \in I : s[i].lane # "static",
           \A i \in DOMAIN s : \A j \in DOMAIN u : s[i] = u[j] => (i \in I <=> j \in J)
    PROVE  Picked(s, I) = Picked(u, J)
<1>1. PICK U : U = {s[i] : i \in I}
  OBVIOUS
<1>2. Echoes(s, u)
  BY AlikeEchoes
<1>3. \A x \in U : x.lane # "static"
  BY <1>1
<1>4. \A i \in DOMAIN s : s[i] \in U <=> i \in I
  BY <1>1, <1>2 DEF Echoes
<1>5. \A j \in DOMAIN u : u[j] \in U <=> j \in J
  BY <1>1, <1>2 DEF Echoes
<1>6. {i \in DOMAIN s : s[i] \in U} = I
  BY <1>4
<1>7. {j \in DOMAIN u : u[j] \in U} = J
  BY <1>5
<1>8. Picked(s, {i \in DOMAIN s : s[i] \in U}) = Picked(u, {j \in DOMAIN u : u[j] \in U})
  BY <1>3 DEF Alike
<1> QED BY <1>6, <1>7, <1>8

(* The process tree. *)
LEMMA TreeSame == ASSUME NEW s, NEW u, Alike(s, u) PROVE ProcessTree(s) = ProcessTree(u)
<1> DEFINE Spawns(it) == /\ Shown(it) /\ it.artifact = "process" /\ it.operation = "spawn"
                         /\ Has(it.object, "pid")
           Of(z) == Picked(z, {i \in DOMAIN z : Spawns(z[i])})
           pids(spawns)   == {spawns[i].object["pid"] : i \in DOMAIN spawns}
           Spawn(spawns, p) == spawns[Max({i \in DOMAIN spawns : spawns[i].object["pid"] = p})]
           Parent(spawns, p) == FirstOf(Spawn(spawns, p).subject, <<"pid">>, "None")
           IsRoot(spawns, p) == Parent(spawns, p) \notin pids(spawns) \ {p}
           roots(spawns)  == {p \in pids(spawns) : IsRoot(spawns, p)}
           Tree(spawns) ==
               LET Grow(e, i) == e \union {p \in pids(spawns) : ~IsRoot(spawns, p) /\ Parent(spawns, p) \in e}
               IN [nodes |-> pids(spawns), parent |-> [p \in pids(spawns) |-> Parent(spawns, p)], roots |-> roots(spawns),
                   flat  |-> Lib!FoldLeft(Grow, roots(spawns), [i \in DOMAIN spawns |-> i])]
<1>1. ASSUME NEW z PROVE ProcessTree(z) = Tree(Of(z))
  BY ZenonT(60) DEF ProcessTree, Filter
<1>2. Of(s) = Of(u)
  <2>1. PICK I, J : I = {i \in DOMAIN s : Spawns(s[i])} /\ J = {j \in DOMAIN u : Spawns(u[j])}
    OBVIOUS
  <2>2. \A i \in I : s[i].lane # "static"
    BY <2>1 DEF Shown, Seen, Runtime
  <2> HIDE DEF Spawns
  <2>3. I \subseteq DOMAIN s /\ J \subseteq DOMAIN u
    BY <2>1
  <2>4. \A i \in DOMAIN s : \A j \in DOMAIN u : s[i] = u[j] => (i \in I <=> j \in J)
    BY <2>1
  <2>5. Picked(s, I) = Picked(u, J)
    BY <2>2, <2>3, <2>4, ShownSame
  <2> QED BY <2>1, <2>5
<1> HIDE DEF Tree, Of
<1> QED BY <1>1, <1>2, Zenon

(* The timeline of the run. *)
LEMMA TemporalSame ==
    ASSUME NEW s, NEW u, Alike(s, u), \A it \in Range(s) : it.t # NoTime => Runtime(it)
    PROVE  TemporalTimeline(s) = TemporalTimeline(u)
<1> DEFINE Of(z) == Picked(z, {i \in DOMAIN z : z[i].t # NoTime})
           Before(timed, i) == {j \in DOMAIN timed : \/ timed[j].t < timed[i].t
                                                     \/ timed[j].t = timed[i].t /\ j < i}
           Nth(timed, n)    == CHOOSE i \in DOMAIN timed : Cardinality(Before(timed, i)) = n - 1
           Says(it) == [offset |-> it.t, kind |-> KindOf(it), status |-> ProvenanceOf(it), id |-> Id(it)]
           Line(timed) == [n \in DOMAIN timed |-> Says(timed[Nth(timed, n)])]
<1>1. ASSUME NEW z PROVE TemporalTimeline(z) = Line(Of(z))
  BY ZenonT(60) DEF TemporalTimeline, Filter
<1>2. Of(s) = Of(u)
  <2>1. PICK I, J : I = {i \in DOMAIN s : s[i].t # NoTime} /\ J = {j \in DOMAIN u : u[j].t # NoTime}
    OBVIOUS
  <2>2. \A i \in I : s[i].lane # "static"
    BY <2>1 DEF Runtime, Range
  <2>3. I \subseteq DOMAIN s /\ J \subseteq DOMAIN u
    BY <2>1
  <2>4. \A i \in DOMAIN s : \A j \in DOMAIN u : s[i] = u[j] => (i \in I <=> j \in J)
    BY <2>1
  <2>5. Picked(s, I) = Picked(u, J)
    BY <2>2, <2>3, <2>4, ShownSame
  <2> QED BY <2>1, <2>5
<1> HIDE DEF Line, Of
<1> QED BY <1>1, <1>2, Zenon

(* The statements of the rule and of the graph. *)
LEMMA ViewSame == ASSUME NEW s, NEW u, Alike(s, u) PROVE BuildRuntimeView(s) = BuildRuntimeView(u)
<1> DEFINE obs(z) == \E i \in DOMAIN z : Seen(z[i])
           hid(z) == {Id(z[i]) : i \in {j \in DOMAIN z : Hiding(z[j])}}
           hook(z) == {Id(z[i]) : i \in {j \in DOMAIN z : Hooked(z[j])}}
           Conf(it) == /\ Shown(it) /\ Has(it.details, "memory_extracted")
                       /\ \E k \in {"encrypted_count", "key_material", "value"} : Has(it.object, k)
           Inj(it) == Shown(it) /\ it.artifact = "process" /\ it.operation = "inject"
           Net(it) == /\ Shown(it) /\ it.artifact = "network"
                      /\ \E k \in {"value", "host", "ForeignAddr"} : Has(it.object, k)
           File(it) == Shown(it) /\ it.artifact = "file" /\ Has(it.object, "path")
           Reg(it) == Shown(it) /\ it.artifact = "registry" /\ Has(it.object, "key")
           conf(z) == {Id(z[i]) : i \in {j \in DOMAIN z : Conf(z[j])}}
           inj(z) == {Id(z[i]) : i \in {j \in DOMAIN z : Inj(z[j])}}
           net(z) == {Id(z[i]) : i \in {j \in DOMAIN z : Net(z[j])}}
           fil(z) == {Id(z[i]) : i \in {j \in DOMAIN z : File(z[j])}}
           reg(z) == {Id(z[i]) : i \in {j \in DOMAIN z : Reg(z[j])}}
           All(o, h, k, c, j, n, f, r, t) == [observed |-> o, hidden |-> h, hooks |-> k, config |-> c, injected |-> j, network |-> n,
                                              files |-> f, registry |-> r, tree |-> t]
<1>1. ASSUME NEW z
      PROVE  BuildRuntimeView(z) = All(obs(z), hid(z), hook(z), conf(z), inj(z), net(z), fil(z), reg(z), ProcessTree(z))
  BY ZenonT(60) DEF BuildRuntimeView
<1>2. Echoes(s, u)
  BY AlikeEchoes
<1> HIDE DEF Conf, Inj, Net, File, Reg
<1>3. obs(s) = obs(u)
  <2>1. obs(s) <=> obs(u)
    BY <1>2 DEF Echoes
  <2>2. obs(s) \in BOOLEAN /\ obs(u) \in BOOLEAN
    BY Zenon
  <2> HIDE DEF obs
  <2> QED BY <2>1, <2>2
<1>4. \A x : x \in hid(s) <=> x \in hid(u)
  BY <1>2 DEF Echoes
<1>5. \A x : x \in hook(s) <=> x \in hook(u)
  BY <1>2 DEF Echoes
<1>6. \A x : x \in conf(s) <=> x \in conf(u)
  BY <1>2 DEF Echoes
<1>7. \A x : x \in inj(s) <=> x \in inj(u)
  BY <1>2 DEF Echoes
<1>8. \A x : x \in net(s) <=> x \in net(u)
  BY <1>2 DEF Echoes
<1>9. \A x : x \in fil(s) <=> x \in fil(u)
  BY <1>2 DEF Echoes
<1>10. \A x : x \in reg(s) <=> x \in reg(u)
  BY <1>2 DEF Echoes
<1>11. hid(s) = hid(u) /\ hook(s) = hook(u) /\ conf(s) = conf(u) /\ inj(s) = inj(u) /\ net(s) = net(u) /\ fil(s) = fil(u) /\ reg(s) = reg(u)
  BY <1>4, <1>5, <1>6, <1>7, <1>8, <1>9, <1>10, Zenon
<1>12. ProcessTree(s) = ProcessTree(u)
  BY TreeSame
<1> HIDE DEF obs, hid, hook, conf, inj, net, fil, reg, All
<1> QED BY <1>1, <1>3, <1>11, <1>12, Zenon

(* All that is concluded. *)
LEMMA ConcludeSame ==
    ASSUME NEW s, NEW u, Alike(s, u), \A it \in Range(s) : it.t # NoTime => Runtime(it), NEW raw, NEW iso
    PROVE  Conclude(s, raw, iso) = Conclude(u, raw, iso)
<1>1. Echoes(s, u) /\ IsList(s) /\ IsList(u) /\ Range(s) = Range(u)
  BY AlikeEchoes DEF Alike
<1>2. PICK map : map = MapEvidence(s) /\ map = MapEvidence(u)
  BY MapSame
<1>3. /\ GenerateYara(s, raw, Corpus) = GenerateYara(u, raw, Corpus) /\ GenerateSigma(s, map) = GenerateSigma(u, map)
      /\ BuildGraph(s, map) = BuildGraph(u, map) /\ Timeline(s) = Timeline(u) /\ TemporalTimeline(s) = TemporalTimeline(u)
      /\ BuildRuntimeView(s) = BuildRuntimeView(u) /\ SuricataCandidates(s) = SuricataCandidates(u)
      /\ \A phase : BuildSummary(s, map, phase, iso) = BuildSummary(u, map, phase, iso)
  BY <1>1, YaraSame, SigmaSame, GraphSame, TimelineSame, TemporalSame, ViewSame, SuricataSame, SummarySame
<1>4. [t \in DOMAIN map |-> ConfidenceBreakdown(s, map[t])] = [t \in DOMAIN map |-> ConfidenceBreakdown(u, map[t])]
  BY <1>1, WhySame, Zenon
<1> DEFINE All(yara, sigma, graph, timeline, temporal, view, suricata, summary, why) ==
        [map |-> map, phases |-> BuildNarrative(map), yara |-> yara, sigma |-> sigma,
         coverage |-> ComputeCoverage(map, sigma, Cardinality(yara)),
         graph    |-> AddDetections(graph, sigma, Cardinality(yara)),
         timeline |-> timeline, temporal |-> temporal,
         view     |-> view, suricata |-> suricata,
         summary  |-> summary, why |-> why]
<1>5. Conclude(s, raw, iso) = All(GenerateYara(s, raw, Corpus), GenerateSigma(s, map), BuildGraph(s, map), Timeline(s), TemporalTimeline(s),
          BuildRuntimeView(s), SuricataCandidates(s), BuildSummary(s, map, BuildNarrative(map), iso),
          [t \in DOMAIN map |-> ConfidenceBreakdown(s, map[t])])
  BY <1>2, ZenonT(60) DEF Conclude
<1>6. Conclude(u, raw, iso) = All(GenerateYara(u, raw, Corpus), GenerateSigma(u, map), BuildGraph(u, map), Timeline(u), TemporalTimeline(u),
          BuildRuntimeView(u), SuricataCandidates(u), BuildSummary(u, map, BuildNarrative(map), iso),
          [t \in DOMAIN map |-> ConfidenceBreakdown(u, map[t])])
  BY <1>2, ZenonT(60) DEF Conclude
<1> HIDE DEF All
<1> QED BY <1>3, <1>4, <1>5, <1>6, Zenon

-----------------------------------------------------------------------------
(* No two items of the store have one id. *)
Unlike(s) == IsList(s) /\ \A i, j \in DOMAIN s : Id(s[i]) = Id(s[j]) => i = j

(* Items of different ids are different items. *)
LEMMA UnlikeInjective == ASSUME NEW s, Unlike(s) PROVE IsInjective(s)
  BY DEF Unlike, IsInjective

(* Nothing is in the empty store twice. *)
LEMMA UnlikeEmpty == Unlike(<<>>)
  BY ListEmpty DEF Unlike

(* Joining lists without a common id repeats none. *)
LEMMA UnlikeConcat ==
    ASSUME NEW s, Unlike(s), NEW t, Unlike(t), Ids(s) \cap Ids(t) = {}
    PROVE  Unlike(s \o t)
<1>1. PICK q : q = s \o t
  OBVIOUS
<1>2. IsList(s) /\ IsList(t)
  BY DEF Unlike
<1>3. PICK m : m = Len(s) /\ m \in Nat
  BY <1>2, ListHas
<1>4. /\ IsList(q) /\ DOMAIN q \subseteq Int
      /\ \A k \in DOMAIN q : \/ k \in DOMAIN s /\ q[k] = s[k]
                             \/ k - m \in DOMAIN t /\ q[k] = t[k - m]
  <2>1. IsList(q) /\ Joined(q, s, t)
    BY <1>1, <1>2, JoinAt
  <2> QED BY <1>3, <2>1 DEF Joined
<1>5. \A i \in DOMAIN s, j \in DOMAIN t : Id(s[i]) # Id(t[j])
  <2>1. \A i \in DOMAIN s : Id(s[i]) \in Ids(s)
    BY DEF Ids
  <2>2. \A i \in DOMAIN t : Id(t[i]) \in Ids(t)
    BY DEF Ids
  <2> QED BY <2>1, <2>2
<1>6. ASSUME NEW k \in DOMAIN q, NEW l \in DOMAIN q, Id(q[k]) = Id(q[l]) PROVE k = l
  <2>1. CASE k \in DOMAIN s /\ q[k] = s[k]
    <3>1. l \in DOMAIN s /\ q[l] = s[l]
      BY <1>4, <1>5, <1>6, <2>1
    <3> QED BY <1>6, <2>1, <3>1 DEF Unlike
  <2>2. CASE k - m \in DOMAIN t /\ q[k] = t[k - m]
    <3>1. l - m \in DOMAIN t /\ q[l] = t[l - m]
      BY <1>4, <1>5, <1>6, <2>2
    <3>2. k - m = l - m
      BY <1>6, <2>2, <3>1 DEF Unlike
    <3> QED BY <1>3, <1>4, <3>2
  <2> QED BY <1>4, <2>1, <2>2
<1> QED BY <1>1, <1>4, <1>6 DEF Unlike

(* Nor does picking. *)
LEMMA UnlikePicked ==
    ASSUME NEW t, IsList(t), NEW I, \A i, j \in I \cap DOMAIN t : Id(t[i]) = Id(t[j]) => i = j
    PROVE  Unlike(Picked(t, I))
<1>1. PICK r : r = Picked(t, I)
  OBVIOUS
<1>2. PICK pos : Leads(pos, t, I, Len(t), r) /\ Len(r) \in Nat
  BY <1>1, PickedPos
<1>3. IsList(r) /\ DOMAIN r = 1..Len(r) /\ DOMAIN t = 1..Len(t)
  BY <1>1, ListPicked, ListHas
<1>4. /\ \A m \in 1..Len(r) : pos[m] \in I \cap DOMAIN t /\ r[m] = t[pos[m]]
      /\ \A l, m \in 1..Len(r) : l < m => pos[l] < pos[m]
  BY <1>2, <1>3 DEF Leads
<1>5. \A i \in DOMAIN t : i \in Int
  BY <1>3
<1>6. ASSUME NEW l \in DOMAIN r, NEW m \in DOMAIN r, Id(r[l]) = Id(r[m]) PROVE l = m
  <2>1. pos[l] = pos[m]
    BY <1>3, <1>4, <1>6
  <2>2. pos[l] \in Int /\ l \in Int /\ m \in Int
    BY <1>2, <1>3, <1>4, <1>5
  <2> QED BY <1>3, <1>4, <2>1, <2>2
<1> QED BY <1>1, <1>3, <1>6 DEF Unlike

(* What is added to s of the items of t. *)
Fresh(s, t) == {i \in DOMAIN t : Id(t[i]) \notin Ids(s) /\ \A j \in 1..(i - 1) : Id(t[j]) # Id(t[i])}

(* What the store becomes: itself, then the new items in their order. *)
LEMMA ExtendBy == ASSUME NEW s, NEW t, IsList(t) PROVE Extend(s, t) = s \o Picked(t, Fresh(s, t))
<1> DEFINE ids == MapSeq(Id, t)
           fresh == {i \in DOMAIN t : ids[i] \notin Ids(s) /\ \A j \in 1..(i - 1) : ids[j] # ids[i]}
<1>1. PICK f : f = [i \in DOMAIN t |-> Id(t[i])]
  OBVIOUS
<1>2. ids = f
  <2>1. f = [i \in DOMAIN t |-> f[i]]
    BY <1>1
  <2>2. KeptSeq(f) = f
    BY <2>1, ListMap
  <2> QED BY <1>1, <2>2 DEF MapSeq
<1>3. Extend(s, t) = s \o Picked(t, fresh)
  BY Zenon DEF Extend
<1>4. \A i \in DOMAIN t : ids[i] = Id(t[i])
  BY <1>1, <1>2
<1> HIDE DEF ids
<1>5. DOMAIN t = 1..Len(t) /\ Len(t) \in Nat
  BY ListHas
<1>6. \A i \in DOMAIN t : \A j \in 1..(i - 1) : j \in DOMAIN t
  BY <1>5
<1>7. fresh = Fresh(s, t)
  BY <1>4, <1>6 DEF Fresh
<1> QED BY <1>3, <1>7

(* Extending repeats no id. *)
LEMMA ExtendUnlike == ASSUME NEW s, Unlike(s), NEW t, IsList(t) PROVE Unlike(Extend(s, t))
<1>1. PICK I, p : I = Fresh(s, t) /\ p = Picked(t, I)
  OBVIOUS
<1>2. DOMAIN t = 1..Len(t) /\ Len(t) \in Nat
  BY ListHas
<1>3. \A i \in I : i \in DOMAIN t /\ Id(t[i]) \notin Ids(s) /\ \A j \in 1..(i - 1) : Id(t[j]) # Id(t[i])
  BY <1>1 DEF Fresh
<1>4. ASSUME NEW i \in I \cap DOMAIN t, NEW j \in I \cap DOMAIN t, Id(t[i]) = Id(t[j]) PROVE i = j
  <2>1. i \in Nat /\ j \in Nat /\ i >= 1 /\ j >= 1
    BY <1>2
  <2>2. ~(i < j)
    <3>1. i < j => i \in 1..(j - 1)
      BY <2>1
    <3> QED BY <1>3, <1>4, <3>1
  <2>3. ~(j < i)
    <3>1. j < i => j \in 1..(i - 1)
      BY <2>1
    <3> QED BY <1>3, <1>4, <3>1
  <2> QED BY <2>1, <2>2, <2>3
<1>5. Unlike(p)
  BY <1>1, <1>4, UnlikePicked
<1>6. Range(p) = {t[i] : i \in I \cap DOMAIN t}
  BY <1>1, ListPicked
<1>7. Ids(s) \cap Ids(p) = {}
  <2>1. Ids(p) = {Id(it) : it \in Range(p)}
    BY IdsAre
  <2>2. \A it \in Range(p) : Id(it) \notin Ids(s)
    BY <1>3, <1>6
  <2> QED BY <2>1, <2>2
<1> QED BY <1>1, <1>5, <1>7, ExtendBy, UnlikeConcat

(* A store that is written and read again is the store. *)
LEMMA ReloadSame == ASSUME NEW s, Unlike(s) PROVE Reload(s) = s
<1>1. PICK e : e = <<>>
  OBVIOUS
<1>2. IsList(s) /\ Ids(e) = {}
  BY <1>1, ListEmpty, IdsAre DEF Unlike
<1>3. DOMAIN s = 1..Len(s) /\ Len(s) \in Nat
  BY <1>2, ListHas
<1>4. PICK I : I = Fresh(e, s)
  OBVIOUS
<1>5. DOMAIN s \subseteq I
  <2>1. ASSUME NEW i \in DOMAIN s, NEW j \in 1..(i - 1) PROVE Id(s[j]) # Id(s[i])
    <3>1. j \in DOMAIN s /\ j # i
      BY <1>3
    <3> QED BY <3>1 DEF Unlike
  <2> QED BY <1>2, <1>4, <2>1 DEF Fresh
<1>6. Picked(s, I) = s
  BY <1>2, <1>5, PickAll
<1>7. e \o s = s
  BY <1>1, <1>2, ConcatEmptySeq DEF IsList
<1> QED BY <1>1, <1>2, <1>4, <1>6, <1>7, ExtendBy DEF Reload

-----------------------------------------------------------------------------
(* The static items in an order of their own, then what a run showed. *)
Reordered(s) ==
    ListOf({it \in Range(s) : it.lane = "static"}) \o Picked(s, {i \in DOMAIN s : s[i].lane # "static"})

(* The other order is one: the same items, and what a run showed as it was. *)
LEMMA ReorderedIs == ASSUME NEW s, Unlike(s) PROVE Unlike(Reordered(s)) /\ Alike(s, Reordered(s))
<1>1. PICK R, S, N : /\ R = {it \in Range(s) : it.lane = "static"} /\ S = {it \in Range(s) : it.lane # "static"}
                     /\ N = {i \in DOMAIN s : s[i].lane # "static"}
  OBVIOUS
<1>2. PICK a, b, z : a = ListOf(R) /\ b = Picked(s, N) /\ z = a \o b
  OBVIOUS
<1>3. z = Reordered(s)
  BY <1>1, <1>2, Zenon DEF Reordered
<1>4. IsList(s) /\ IsInjective(s) /\ DOMAIN s = 1..Len(s) /\ Len(s) \in Nat
  BY UnlikeInjective, ListHas DEF Unlike
<1>5. IsList(a) /\ Range(a) = R /\ IsInjective(a)
  <2>1. IsFiniteSet(R)
    BY <1>1, <1>4, ListFinite, FS_Subset
  <2> QED BY <1>2, <2>1, ListOfIs, ListOfInjective
<1>6. IsList(b) /\ Range(b) = S
  <2>1. IsList(b) /\ Range(b) = {s[i] : i \in N \cap DOMAIN s}
    BY <1>2, <1>4, ListPicked
  <2>2. \A x : x \in {s[i] : i \in N \cap DOMAIN s} <=> x \in S
    BY <1>1 DEF Range
  <2> QED BY <2>1, <2>2
<1>7. \A x, y \in Range(s) : Id(x) = Id(y) => x = y
  BY DEF Unlike, Range
<1>8. Unlike(a)
  <2>1. \A i \in DOMAIN a : a[i] \in Range(s)
    BY <1>1, <1>5, ListHas
  <2> QED BY <1>5, <1>7, <2>1 DEF Unlike, IsInjective
<1>9. Unlike(b)
  <2>1. \A i, j \in N \cap DOMAIN s : Id(s[i]) = Id(s[j]) => i = j
    BY DEF Unlike
  <2> QED BY <1>2, <1>4, <2>1, UnlikePicked
<1>10. Unlike(z)
  <2>1. Ids(a) = {Id(it) : it \in R} /\ Ids(b) = {Id(it) : it \in S}
    BY <1>5, <1>6, IdsAre
  <2>2. \A x \in R, y \in S : Id(x) # Id(y)
    BY <1>1, <1>7
  <2>3. Ids(a) \cap Ids(b) = {}
    BY <2>1, <2>2
  <2> QED BY <1>2, <1>8, <1>9, <2>3, UnlikeConcat
<1>11. IsList(z) /\ IsInjective(z) /\ Range(z) = Range(s)
  <2>1. IsList(z) /\ Range(z) = R \cup S
    BY <1>2, <1>5, <1>6, ListConcat
  <2>2. R \cup S = Range(s)
    BY <1>1
  <2> QED BY <1>10, <2>1, <2>2, UnlikeInjective
<1>12. ASSUME NEW U, \A x \in U : x.lane # "static"
       PROVE  Picked(s, {i \in DOMAIN s : s[i] \in U}) = Picked(z, {i \in DOMAIN z : z[i] \in U})
  <2>1. PICK I, V, J : I = {i \in DOMAIN z : z[i] \in U} /\ V = U \cap S /\ J = {j \in DOMAIN b : b[j] \in V}
    OBVIOUS
  <2>2. PICK m, n : /\ m = Len(a) /\ n = Len(b) /\ m \in Nat /\ n \in Nat /\ DOMAIN a = 1..m /\ DOMAIN b = 1..n
    BY <1>5, <1>6, ListHas
  <2>3. DOMAIN z = 1..(m + n) /\ (\A j \in 1..m : z[j] = a[j]) /\ \A j \in 1..n : z[m + j] = b[j]
    <3>1. Adjoined(z, a, b, m, n)
      BY <1>2, <1>5, <1>6, <2>2, JoinedAt
    <3> QED BY <3>1 DEF Adjoined
  <2>4. \A i \in DOMAIN a : i \notin I
    <3>1. \A i \in DOMAIN a : a[i].lane = "static"
      BY <1>1, <1>5, ListHas
    <3> QED BY <1>12, <2>1, <2>2, <2>3, <3>1
  <2>5. J = {j \in DOMAIN b : m + j \in I}
    <3>1. \A j \in DOMAIN b : b[j] \in S
      BY <1>6, ListHas
    <3>2. \A j \in DOMAIN b : m + j \in DOMAIN z /\ z[m + j] = b[j]
      BY <2>2, <2>3
    <3>3. \A j \in DOMAIN b : b[j] \in V <=> m + j \in I
      BY <2>1, <3>1, <3>2
    <3> QED BY <2>1, <3>3
  <2>6. Picked(z, I) = Picked(b, J)
    <3>1. J \subseteq DOMAIN b /\ \A j \in DOMAIN b : j \in J <=> Len(a) + j \in I
      BY <2>2, <2>5
    <3>2. Picked(a \o b, I) = Picked(b, J)
      BY <1>5, <1>6, <2>4, <3>1, PickSecond
    <3> QED BY <1>2, <3>2
  <2>7. N = {i \in DOMAIN s : s[i] \in S}
    BY <1>1 DEF Range
  <2>8. Picked(b, J) = Picked(s, {i \in DOMAIN s : s[i] \in V})
    <3>1. PICK H : H = {i \in DOMAIN s : s[i] \in V}
      OBVIOUS
    <3>2. /\ V \subseteq S
          /\ \A i : i \in N <=> i \in DOMAIN s /\ s[i] \in S
          /\ \A i : i \in H <=> i \in DOMAIN s /\ s[i] \in V
          /\ \A j : j \in J <=> j \in DOMAIN b /\ b[j] \in V
      BY <2>1, <2>7, <3>1
    <3>3. IsList(s) /\ b = Picked(s, N)
      BY <1>2, <1>4
    <3>4. Picked(b, J) = Picked(s, H)
      BY <3>2, <3>3, PickPicked, SMTT(60)
    <3> QED BY <3>1, <3>4
  <2>9. {i \in DOMAIN s : s[i] \in V} = {i \in DOMAIN s : s[i] \in U}
    <3>1. \A i \in DOMAIN s : s[i] \in V <=> s[i] \in U
      BY <1>1, <1>12, <2>1 DEF Range
    <3> QED BY <3>1
  <2> QED BY <2>1, <2>6, <2>8, <2>9
<1> QED BY <1>3, <1>4, <1>10, <1>11, <1>12, Zenon DEF Alike

-----------------------------------------------------------------------------
(* The store only ever takes more. *)
LEMMA StoreGrows ==
    ASSUME Inv, [Next]_vars
    PROVE  store' = store \/ \E items : IsList(items) /\ store' = Extend(store, items)
<1> USE DEF Inv
<1>1. CASE UNCHANGED vars \/ Triage \/ Dispatch \/ Analyze \/ StartBackend \/ StageCape \/ StageMemory \/ StageTraces \/ StageDumps
           \/ BackendFails \/ Reconstruct \/ PersistRun \/ Ask \/ Propose
  BY <1>1 DEF vars, Triage, Dispatch, Analyze, StartBackend, StageCape, StageMemory, StageTraces, StageDumps, BackendFails,
     Reconstruct, PersistRun, Ask, Propose, evidence
<1>2. ASSUME NEW items, IsList(items), NEW names, Add(items, names)
      PROVE  \E p : IsList(p) /\ store' = Extend(store, p)
  BY <1>2, Zenon DEF Add
<1>7. ASSUME NEW items, IsList(items), AddSome(items)
      PROVE  \E p : IsList(p) /\ store' = Extend(store, p)
  BY <1>2, <1>7, SomeAdded
<1>3. CASE Collect
  <2>1. PICK items : items = Head(results).items /\ ((\E names : Add(items, names)) \/ AddSome(items))
    BY <1>3 DEF Collect
  <2>2. Head(results) = results[1] /\ 1 \in DOMAIN results
    <3>1. results # <<>> /\ IsList(results)
      BY <1>3 DEF Collect, Gathered
    <3> QED BY <3>1, HeadTailProperties DEF IsList
  <2>3. IsList(items)
    BY <2>1, <2>2 DEF Gathered, StaticItems, AllSound
  <2> QED BY <1>2, <1>7, <2>1, <2>3
<1>4. CASE Decompile
  <2>1. CASE UNCHANGED evidence
    BY <2>1 DEF evidence
  <2>2. CASE /\ call.decompiled # None
             /\ Add(GhidraItems(call.decompiled), <<"static.ghidra">>) \/ AddSome(GhidraItems(call.decompiled))
    <3>1. IsList(GhidraItems(call.decompiled))
      BY <2>2, GivenIs, GhidraSound DEF StaticItems, AllSound
    <3> QED BY <1>2, <1>7, <2>2, <3>1
  <2> QED BY <1>4, <2>1, <2>2 DEF Decompile
<1>5. CASE Enrich
  <2>1. CASE UNCHANGED evidence
    BY <2>1 DEF evidence
  <2>2. CASE /\ call.snapshot # None
             /\ Add(EnrichSnapshot(store, call.snapshot), <<>>) \/ AddSome(EnrichSnapshot(store, call.snapshot))
    <3>1. IsList(EnrichSnapshot(store, call.snapshot))
      BY <2>2, GivenIs, EnrichSound DEF Kept, AllHeld, AllSound
    <3> QED BY <1>2, <1>7, <2>2, <3>1
  <2> QED BY <1>5, <2>1, <2>2 DEF Enrich
<1>6. CASE Merge
  <2>1. (\E names : Add(staged.items, names)) \/ AddSome(staged.items)
    BY <1>6 DEF Merge
  <2>2. IsList(staged.items)
    BY DEF Kept, AllHeld
  <2> QED BY <1>2, <1>7, <2>1, <2>2
<1> QED BY <1>1, <1>3, <1>4, <1>5, <1>6 DEF Next

(* No id is in the store twice, and from the moment it is there the result
   is what is concluded from the store. *)
Settled ==
    /\ Unlike(store)
    /\ pc \in {"persist", "done", "answered"} => out = Conclude(store, sample.raw, isolated)

(* Every step keeps that. *)
LEMMA SettledNext == ASSUME Inv, Settled, [Next]_vars PROVE Settled'
<1>1. Unlike(store')
  <2>1. CASE store' = store
    BY <2>1 DEF Settled
  <2>2. ASSUME NEW items, IsList(items), store' = Extend(store, items) PROVE Unlike(store')
    BY <2>2, ExtendUnlike DEF Settled
  <2> QED BY <2>1, <2>2, StoreGrows
<1>2. CASE UNCHANGED vars
  <2>1. call' = call /\ UNCHANGED <<store, bundle, out, pc>>
    BY <1>2 DEF vars, dispatched, evidence, collected, result
  <2>2. sample' = sample /\ isolated' = isolated
    BY <2>1 DEF sample, isolated
  <2> QED BY <1>1, <2>1, <2>2 DEF Settled
<1>3. CASE \/ Triage \/ Dispatch \/ Analyze \/ Collect \/ Decompile
           \/ StartBackend \/ StageCape \/ StageMemory \/ StageTraces \/ StageDumps \/ Merge \/ BackendFails \/ Enrich
  <2>1. pc' \notin {"persist", "done", "answered"}
    BY <1>3 DEF Triage, Dispatch, Analyze, Collect, Decompile, StartBackend, StageCape, StageMemory, StageTraces, StageDumps,
       Merge, BackendFails, Enrich
  <2> QED BY <1>1, <2>1 DEF Settled
<1>4. CASE Reconstruct
  <2>1. sample' = sample /\ isolated' = isolated /\ store' = store
    BY <1>4 DEF Reconstruct, dispatched, evidence, collected, sample, isolated
  <2>2. out' = Conclude(store, sample.raw, isolated)
    BY <1>4, Zenon DEF Reconstruct
  <2> QED BY <1>1, <2>1, <2>2 DEF Settled
<1>5. CASE PersistRun \/ Ask \/ Propose
  <2>1. sample' = sample /\ isolated' = isolated /\ store' = store /\ out' = out /\ pc \in {"persist", "done", "answered"}
    BY <1>5 DEF PersistRun, Ask, Propose, dispatched, evidence, collected, sample, isolated
  <2> QED BY <1>1, <2>1 DEF Settled
<1> QED BY <1>2, <1>3, <1>4, <1>5 DEF Next

(* Whatever order the process goes through its tags in, and whether the
   evidence was written and read again or not, the same is concluded. *)
THEOREM OrderIsFree == Spec => []AnyOrderConcludesTheSame
<1>1. Init => Settled
  BY UnlikeEmpty DEF Init, Settled
<1>2. Inv /\ Settled /\ [Next]_vars => Settled'
  BY SettledNext
<1>3. ASSUME Inv, Settled PROVE AnyOrderConcludesTheSame
  <2> SUFFICES ASSUME pc = "done"
               PROVE  Conclude(Reload(ListOf({it \in Range(store) : it.lane = "static"})
                                        \o Picked(saved, {i \in DOMAIN saved : saved[i].lane # "static"})),
                               sample.raw, isolated) = out
    BY ZenonT(30) DEF AnyOrderConcludesTheSame, Filter
  <2>1. saved = store /\ out = Conclude(store, sample.raw, isolated) /\ Unlike(store)
    BY <1>3 DEF Inv, Concluded, Settled
  <2>2. PICK z : z = Reordered(store) /\ Unlike(z) /\ Alike(store, z)
    BY <2>1, ReorderedIs
  <2>3. Reload(z) = z
    BY <2>2, ReloadSame
  <2>4. \A it \in Range(store) : it.t # NoTime => Runtime(it)
    BY <1>3 DEF Inv, Kept, AllHeld, Held
  <2>5. Conclude(store, sample.raw, isolated) = Conclude(z, sample.raw, isolated)
    BY <2>2, <2>4, ConcludeSame
  <2> QED BY <2>1, <2>2, <2>3, <2>5, Zenon DEF Reordered
<1> QED BY <1>1, <1>2, <1>3, Consistent, PTL DEF Spec

-----------------------------------------------------------------------------
(* With more evidence the support of a technique grows: what is pooled of a
   lane, then what is fused of the lanes, then the table.  First, of a finite
   function: e has the values of d, and may have more. *)
Widens(d, e) ==
    /\ IsFiniteSet(DOMAIN e) /\ DOMAIN d \subseteq DOMAIN e
    /\ \A i \in DOMAIN d : e[i] = d[i]

(* Who has at least v, and the values that at least n have. *)
Reaching(d, v) == {i \in DOMAIN d : d[i] >= v}
Reached(d, n) == {v \in Range(d) : Cardinality(Reaching(d, v)) >= n}

LEMMA NthIs ==
    ASSUME NEW b \in Nat, NEW d, IsFiniteSet(DOMAIN d), \A i \in DOMAIN d : d[i] \in 0..b,
           NEW n \in Nat \ {0}, ~(n > Cardinality(DOMAIN d))
    PROVE  /\ NthLargest(d, n) = Max(Reached(d, n)) /\ Max(Reached(d, n)) \in Reached(d, n)
           /\ \A v \in Reached(d, n) : Max(Reached(d, n)) >= v
<1>1. NthLargest(d, n) = Max(Reached(d, n))
  BY Zenon DEF NthLargest, Reached, Reaching
<1>2. PICK T, R : T = Reached(d, n) /\ R = Range(d)
  OBVIOUS
<1>3. R \subseteq 0..b /\ T \subseteq R
  BY <1>2 DEF Range, Reached
<1>4. R # {}
  <2>1. DOMAIN d # {}
    BY FS_EmptySet
  <2> QED BY <1>2, <2>1 DEF Range
<1>5. PICK v \in R : \A w \in R : v <= w
  <2>1. R \subseteq Nat
    BY <1>3
  <2> QED BY <1>4, <2>1, LeastNat
<1>6. v \in T
  <2>1. \A i \in DOMAIN d : d[i] >= v
    BY <1>2, <1>3, <1>5 DEF Range
  <2>2. Reaching(d, v) = DOMAIN d
    BY <2>1 DEF Reaching
  <2>3. Cardinality(DOMAIN d) \in Nat
    BY FS_CardinalityType
  <2>4. Cardinality(DOMAIN d) >= n
    BY <2>3
  <2> QED BY <1>2, <1>5, <2>2, <2>4 DEF Reached
<1>7. T # {} /\ T \subseteq Nat /\ \A w \in T : w <= b
  BY <1>3, <1>6
<1>8. Max(T) \in T /\ \A w \in T : Max(T) >= w
  BY <1>7, MaxIs
<1> QED BY <1>1, <1>2, <1>8

LEMMA NthNat ==
    ASSUME NEW b \in Nat, NEW d, IsFiniteSet(DOMAIN d), \A i \in DOMAIN d : d[i] \in 0..b, NEW n \in Nat \ {0}
    PROVE  NthLargest(d, n) \in 0..b
<1>1. CASE n > Cardinality(DOMAIN d)
  BY <1>1 DEF NthLargest
<1>2. CASE ~(n > Cardinality(DOMAIN d))
  <2>1. Reached(d, n) \subseteq 0..b
    BY DEF Reached, Range
  <2> QED BY <1>2, <2>1, NthIs
<1> QED BY <1>1, <1>2

(* With more values, none of the largest is smaller. *)
LEMMA NthMore ==
    ASSUME NEW b \in Nat, NEW d, NEW e, Widens(d, e), \A i \in DOMAIN e : e[i] \in 0..b, NEW n \in Nat \ {0}
    PROVE  NthLargest(d, n) <= NthLargest(e, n)
<1>1. /\ IsFiniteSet(DOMAIN d) /\ IsFiniteSet(DOMAIN e) /\ \A i \in DOMAIN d : d[i] \in 0..b
      /\ Cardinality(DOMAIN d) \in Nat /\ Cardinality(DOMAIN e) \in Nat /\ Cardinality(DOMAIN d) <= Cardinality(DOMAIN e)
  BY FS_Subset, FS_CardinalityType DEF Widens
<1>2. CASE n > Cardinality(DOMAIN d)
  <2>1. NthLargest(d, n) = 0
    BY <1>2 DEF NthLargest
  <2> QED BY <1>1, <2>1, NthNat
<1>3. CASE ~(n > Cardinality(DOMAIN d))
  <2>1. PICK v : v = NthLargest(d, n) /\ v \in Reached(d, n)
    BY <1>1, <1>3, NthIs
  <2>2. v \in Range(e)
    BY <2>1 DEF Reached, Range, Widens
  <2>3. Cardinality(Reaching(e, v)) >= n
    <3>1. PICK A, B : A = Reaching(d, v) /\ B = Reaching(e, v)
      OBVIOUS
    <3>2. A \subseteq B
      BY <3>1 DEF Reaching, Widens
    <3>3. IsFiniteSet(B)
      BY <1>1, <3>1, FS_Subset DEF Reaching
    <3>4. Cardinality(A) <= Cardinality(B) /\ Cardinality(A) \in Nat /\ Cardinality(B) \in Nat
      BY <3>2, <3>3, FS_Subset, FS_CardinalityType
    <3>5. Cardinality(A) >= n
      BY <2>1, <3>1 DEF Reached
    <3> QED BY <3>1, <3>4, <3>5
  <2>4. v \in Reached(e, n)
    BY <2>2, <2>3 DEF Reached
  <2>5. ~(n > Cardinality(DOMAIN e))
    BY <1>1, <1>3
  <2>6. NthLargest(e, n) >= v /\ NthLargest(e, n) \in 0..b
    BY <1>1, <2>4, <2>5, NthIs, NthNat
  <2>7. v \in 0..b
    BY <1>1, <2>1, NthNat
  <2> QED BY <2>1, <2>6, <2>7
<1> QED BY <1>2, <1>3

LEMMA OddsAre == \A k \in 30..99 : LogOdds[k] \in (-17)..92
  BY DEF LogOdds

LEMMA GainIs == \A k \in 30..99 : LogOdds[k] - LogOdds[Prior] \in 0..132
<1>1. LogOdds[Prior] = -40
  BY DEF LogOdds, Prior
<1> QED BY <1>1, OddsAre

(* Nor is what they are pooled to. *)
LEMMA PooledMore ==
    ASSUME NEW d, NEW e, Widens(d, e), \A i \in DOMAIN e : e[i] \in 30..99
    PROVE  Pooled(d) \in Nat /\ Pooled(e) \in Nat /\ Pooled(d) <= Pooled(e)
<1>1. PICK p, q : p = Gain(d) /\ q = Gain(e)
  OBVIOUS
<1>2. DOMAIN p = DOMAIN d /\ DOMAIN q = DOMAIN e
  BY <1>1 DEF Gain
<1>3. \A i \in DOMAIN d : p[i] = LogOdds[d[i]] - LogOdds[Prior]
  BY <1>1 DEF Gain
<1>4. \A i \in DOMAIN e : q[i] = LogOdds[e[i]] - LogOdds[Prior]
  BY <1>1 DEF Gain
<1>5. Widens(p, q)
  BY <1>2, <1>3, <1>4 DEF Widens
<1>6. \A i \in DOMAIN q : q[i] \in 0..132
  <2>1. ASSUME NEW i \in DOMAIN e PROVE q[i] \in 0..132
    <3>1. PICK k \in 30..99 : k = e[i]
      OBVIOUS
    <3>2. q[i] = LogOdds[k] - LogOdds[Prior]
      BY <1>4, <3>1
    <3> QED BY <3>2, GainIs
  <2> QED BY <1>2, <2>1
<1>7. \A i \in DOMAIN p : p[i] \in 0..132
  BY <1>5, <1>6 DEF Widens
<1>8. IsFiniteSet(DOMAIN p) /\ IsFiniteSet(DOMAIN q)
  BY <1>5, FS_Subset DEF Widens
<1>9. ASSUME NEW n \in Nat \ {0}
      PROVE  NthLargest(p, n) \in 0..132 /\ NthLargest(q, n) \in 0..132 /\ NthLargest(p, n) <= NthLargest(q, n)
  BY <1>5, <1>6, <1>7, <1>8, NthNat, NthMore
<1>10. ASSUME NEW x, NEW y, y = Gain(x)
       PROVE  Pooled(x) = 8000 * NthLargest(y, 1) + 4400 * NthLargest(y, 2) + 2420 * NthLargest(y, 3) + 1331 * NthLargest(y, 4)
  BY <1>10 DEF Pooled
<1>11. PICK p1, p2, p3, p4 : p1 = NthLargest(p, 1) /\ p2 = NthLargest(p, 2) /\ p3 = NthLargest(p, 3) /\ p4 = NthLargest(p, 4)
  OBVIOUS
<1>12. PICK q1, q2, q3, q4 : q1 = NthLargest(q, 1) /\ q2 = NthLargest(q, 2) /\ q3 = NthLargest(q, 3) /\ q4 = NthLargest(q, 4)
  OBVIOUS
<1>13. /\ Pooled(d) = 8000 * p1 + 4400 * p2 + 2420 * p3 + 1331 * p4
       /\ Pooled(e) = 8000 * q1 + 4400 * q2 + 2420 * q3 + 1331 * q4
  BY <1>1, <1>10, <1>11, <1>12
<1>14. /\ p1 \in 0..132 /\ p2 \in 0..132 /\ p3 \in 0..132 /\ p4 \in 0..132
       /\ q1 \in 0..132 /\ q2 \in 0..132 /\ q3 \in 0..132 /\ q4 \in 0..132
       /\ p1 <= q1 /\ p2 <= q2 /\ p3 <= q3 /\ p4 <= q4
  BY <1>9, <1>11, <1>12
<1> QED BY <1>13, <1>14

(* Nor what the lanes are fused to. *)
LEMMA FuseMore ==
    ASSUME NEW d, NEW e, IsFiniteSet(DOMAIN e), DOMAIN d \subseteq DOMAIN e, DOMAIN e \subseteq {"static", "dynamic", "memory"},
           \A l \in DOMAIN e : e[l] \in Nat, \A l \in DOMAIN d : d[l] \in Nat /\ d[l] <= e[l]
    PROVE  Fuse(d) <= Fuse(e)
<1>1. PICK p, q : p = Weighted(d) /\ q = Weighted(e)
  OBVIOUS
<1>2. \A l \in {"static", "dynamic", "memory"} : LaneWeight[l] \in {20, 26, 27}
  BY DEF LaneWeight
<1>3. DOMAIN p = DOMAIN d /\ DOMAIN q = DOMAIN e
  BY <1>1 DEF Weighted
<1>4. \A l \in DOMAIN e : q[l] = LaneWeight[l] * e[l]
  BY <1>1 DEF Weighted
<1>5. \A l \in DOMAIN d : p[l] = LaneWeight[l] * d[l]
  BY <1>1 DEF Weighted
<1>6. \A w \in {20, 26, 27}, a, b \in Nat : w * a \in Nat /\ (a <= b => w * a <= w * b)
  OBVIOUS
<1>7. \A l \in DOMAIN q : q[l] \in Nat
  BY <1>2, <1>3, <1>4, <1>6
<1>8. \A l \in DOMAIN p : p[l] \in Nat /\ p[l] <= q[l]
  <2>1. ASSUME NEW l \in DOMAIN d PROVE p[l] \in Nat /\ p[l] <= q[l]
    <3>1. PICK w, a, b : w = LaneWeight[l] /\ a = d[l] /\ b = e[l]
      OBVIOUS
    <3>2. w \in {20, 26, 27} /\ a \in Nat /\ b \in Nat /\ a <= b
      BY <1>2, <3>1
    <3>3. p[l] = w * a /\ q[l] = w * b
      BY <1>4, <1>5, <3>1
    <3> QED BY <1>6, <3>2, <3>3
  <2> QED BY <1>3, <2>1
<1>9. SumFunction(p) <= SumFunction(q)
  BY <1>3, <1>7, <1>8, SumMore
<1>10. SumFunction(p) \in Nat /\ SumFunction(q) \in Nat
  <2>1. p = [l \in DOMAIN p |-> p[l]] /\ q = [l \in DOMAIN q |-> q[l]]
    BY <1>1, <1>3 DEF Weighted
  <2>2. IsFiniteSet(DOMAIN p) /\ IsFiniteSet(DOMAIN q)
    BY <1>3, FS_Subset
  <2> QED BY <1>7, <1>8, <2>1, <2>2, SumNat
<1>11. Scaled(Prior) \in Int /\ Scaled(99) \in Int
  BY DEF Scaled, LogOdds, Prior
<1>12. PICK a, b, m, x : a = SumFunction(p) /\ b = SumFunction(q) /\ m = Scaled(Prior) /\ x = Scaled(99)
  OBVIOUS
<1>13. /\ Fuse(d) = IF m + a > x THEN x ELSE m + a
       /\ Fuse(e) = IF m + b > x THEN x ELSE m + b
  BY <1>1, <1>12 DEF Fuse
<1> QED BY <1>9, <1>10, <1>11, <1>12, <1>13

(* What one item supports a technique with is within the table of odds. *)
LEMMA SupportIs == ASSUME NEW it, it.conf \in Nat, NEW t \in Techniques(it) PROVE Support(it, t) \in 30..99
<1>1. PICK base : base = IF t \in Hinted(it) THEN 70 ELSE RuleBase[t]
  OBVIOUS
<1>2. base \in 60..100
  <2>1. t \notin Hinted(it) => t \in DOMAIN RuleBase
    BY DEF Techniques, ByRule
  <2>2. \A r \in DOMAIN RuleBase : RuleBase[r] \in 60..100
    <3> DEFINE V == 60..100
               a == "T1059" :> 90 @@ "T1059.005" :> 80 @@ "T1059.004" :> 85 @@ "T1027" :> 90
               b == a @@ "T1140" :> 85 @@ "T1055" :> 92 @@ "T1071" :> 70 @@ "T1105" :> 70
               c == b @@ "T1547.001" :> 70 @@ "T1053" :> 70 @@ "T1059.001" :> 80 @@ "T1505.003" :> 85
    <3>1. RuleBase = (c @@ "T1056.001" :> 60 @@ "T1486" :> 70 @@ "T1490" :> 85 @@ "T1552.001" :> 85)
      BY Zenon DEF RuleBase
    <3>2. 90 \in V /\ 80 \in V /\ 85 \in V /\ 92 \in V /\ 70 \in V /\ 60 \in V
      OBVIOUS
    <3> HIDE DEF V
    <3>3. Within(a, V)
      BY <3>2, WithinPair, WithinJoin
    <3> HIDE DEF a
    <3>4. Within(b, V)
      BY <3>2, <3>3, WithinPair, WithinJoin
    <3> HIDE DEF b
    <3>5. Within(c, V)
      BY <3>2, <3>4, WithinPair, WithinJoin
    <3> HIDE DEF c
    <3>6. Within(RuleBase, V)
      BY <3>1, <3>2, <3>5, WithinPair, WithinJoin
    <3> QED BY <3>6 DEF Within, V
  <2> QED BY <1>1, <2>1, <2>2
<1>3. PICK c \in Nat : c = it.conf
  OBVIOUS
<1>4. base * (100 + c) >= 6000
  <2>1. base * (100 + c) = base * 100 + base * c /\ base * c >= 0
    BY <1>2
  <2> QED BY <1>2, <2>1
<1>5. PICK x \in Nat : x = base * (100 + c) /\ x >= 6000
  BY <1>2, <1>4
<1>6. x \div 200 \in Nat /\ x \div 200 >= 30
  BY <1>5
<1>7. Support(it, t) = IF x \div 200 > 99 THEN 99 ELSE x \div 200
  BY <1>1, <1>3, <1>5 DEF Support
<1> QED BY <1>6, <1>7

(* u is s with more after it. *)
Grown(s, u) == IsList(s) /\ IsList(u) /\ DOMAIN s \subseteq DOMAIN u /\ \A i \in DOMAIN s : u[i] = s[i]

LEMMA GrownConcat == ASSUME NEW s, IsList(s), NEW t, IsList(t) PROVE Grown(s, s \o t)
<1>1. PICK q, m, n : q = s \o t /\ m = Len(s) /\ n = Len(t) /\ m \in Nat /\ n \in Nat /\ DOMAIN s = 1..m
  BY ListHas
<1>2. IsList(q) /\ Adjoined(q, s, t, m, n)
  BY <1>1, JoinedAt
<1>3. DOMAIN q = 1..(m + n) /\ \A j \in 1..m : q[j] = s[j]
  BY <1>2 DEF Adjoined
<1>4. 1..m \subseteq 1..(m + n)
  BY <1>1
<1>5. Grown(s, q)
  BY <1>1, <1>2, <1>3, <1>4 DEF Grown
<1> QED BY <1>1, <1>5

(* Every item has a confidence. *)
Confident(s) == \A i \in DOMAIN s : s[i].conf \in Nat

(* What the items of a lane support a technique with. *)
PooledIn(s, t, lane) == Pooled([i \in Through(s, t, lane) |-> Support(s[i], t)])

LEMMA LaneIs == \A it : LaneOf(it) \in {"static", "dynamic", "memory"}
  BY DEF LaneOf, Runtime

(* The table of techniques of more evidence. *)
LEMMA GrownMap ==
    ASSUME NEW s, NEW u, Grown(s, u), Confident(u)
    PROVE  Strengthens(MapEvidence(s), MapEvidence(u))
<1>1. IsList(s) /\ IsList(u) /\ DOMAIN s \subseteq DOMAIN u /\ \A i \in DOMAIN s : u[i] = s[i]
  BY DEF Grown
<1>2. IsFiniteSet(DOMAIN u)
  BY <1>1, ListHas, FS_Interval
<1>3. ASSUME NEW t PROVE Attributing(s, t) \subseteq Attributing(u, t)
  BY <1>1, Zenon DEF Attributing
<1>4. ASSUME NEW t, NEW lane, NEW d, NEW e, d = [i \in Through(s, t, lane) |-> Support(s[i], t)],
             e = [i \in Through(u, t, lane) |-> Support(u[i], t)]
      PROVE  Widens(d, e) /\ \A i \in DOMAIN e : e[i] \in 30..99
  <2>1. DOMAIN d = Through(s, t, lane) /\ DOMAIN e = Through(u, t, lane)
    BY <1>4, Zenon
  <2>2. \A i \in DOMAIN d : d[i] = Support(s[i], t)
    BY <1>4, <2>1, Zenon
  <2>3. \A i \in DOMAIN e : e[i] = Support(u[i], t)
    BY <1>4, <2>1, Zenon
  <2>4. DOMAIN d \subseteq DOMAIN e /\ \A i \in DOMAIN d : u[i] = s[i]
    BY <1>1, <2>1 DEF Through, Attributing
  <2>5. \A i \in DOMAIN d : e[i] = d[i]
    BY <2>2, <2>3, <2>4
  <2>6. IsFiniteSet(DOMAIN e)
    BY <1>2, <2>1, FS_Subset DEF Through, Attributing
  <2>7. ASSUME NEW i \in DOMAIN e PROVE e[i] \in 30..99
    <3>1. i \in DOMAIN u /\ t \in Techniques(u[i])
      BY <2>1 DEF Through, Attributing
    <3>2. PICK it : it = u[i] /\ it.conf \in Nat
      BY <3>1 DEF Confident
    <3> QED BY <2>3, <3>1, <3>2, SupportIs
  <2> QED BY <2>4, <2>5, <2>6, <2>7 DEF Widens
<1>5. ASSUME NEW t PROVE Fuse(LaneDeltas(s, t)) <= Fuse(LaneDeltas(u, t))
  <2>1. PICK p, q : p = LaneDeltas(s, t) /\ q = LaneDeltas(u, t)
    OBVIOUS
  <2>2. PICK A, B : A = {LaneOf(s[i]) : i \in Attributing(s, t)} /\ B = {LaneOf(u[i]) : i \in Attributing(u, t)}
    OBVIOUS
  <2>3. A \subseteq B /\ B \subseteq {"static", "dynamic", "memory"}
    <3>1. \A i \in Attributing(s, t) : i \in Attributing(u, t) /\ u[i] = s[i]
      BY <1>1, <1>3 DEF Attributing
    <3> QED BY <2>2, <3>1, LaneIs
  <2>4. DOMAIN p = A /\ DOMAIN q = B
    BY <2>1, <2>2, Zenon DEF LaneDeltas
  <2>5. \A l \in A : p[l] = PooledIn(s, t, l)
    BY <2>1, <2>2, Zenon DEF LaneDeltas, PooledIn
  <2>6. \A l \in B : q[l] = PooledIn(u, t, l)
    BY <2>1, <2>2, Zenon DEF LaneDeltas, PooledIn
  <2>7. ASSUME NEW l
        PROVE  /\ PooledIn(s, t, l) \in Nat
               /\ PooledIn(u, t, l) \in Nat
               /\ PooledIn(s, t, l) <= PooledIn(u, t, l)
    <3>1. PICK d, e : d = [i \in Through(s, t, l) |-> Support(s[i], t)] /\ e = [i \in Through(u, t, l) |-> Support(u[i], t)]
      OBVIOUS
    <3>2. Widens(d, e) /\ \A i \in DOMAIN e : e[i] \in 30..99
      BY <1>4, <3>1
    <3>3. Pooled(d) \in Nat /\ Pooled(e) \in Nat /\ Pooled(d) <= Pooled(e)
      BY <3>2, PooledMore
    <3> QED BY <3>1, <3>3 DEF PooledIn
  <2>8. \A l \in B : q[l] \in Nat
    BY <2>6, <2>7, Zenon
  <2>9. ASSUME NEW l \in A PROVE p[l] \in Nat /\ p[l] <= q[l]
    <3>1. p[l] = PooledIn(s, t, l) /\ q[l] = PooledIn(u, t, l)
      BY <2>3, <2>5, <2>6
    <3> QED BY <2>7, <3>1
  <2>10. IsFiniteSet(B)
    <3>1. IsFiniteSet({"static", "dynamic", "memory"})
      <4>1. IsFiniteSet({"static"}) /\ IsFiniteSet({"dynamic"}) /\ IsFiniteSet({"memory"})
        BY FS_Singleton
      <4>2. IsFiniteSet({"static"} \cup {"dynamic"})
        BY <4>1, FS_Union
      <4>3. IsFiniteSet(({"static"} \cup {"dynamic"}) \cup {"memory"})
        BY <4>1, <4>2, FS_Union
      <4>4. ({"static"} \cup {"dynamic"}) \cup {"memory"} = {"static", "dynamic", "memory"}
        OBVIOUS
      <4> QED BY <4>3, <4>4
    <3> QED BY <2>3, <3>1, FS_Subset
  <2>11. Fuse(p) <= Fuse(q)
    BY <2>3, <2>4, <2>8, <2>9, <2>10, FuseMore
  <2> QED BY <2>1, <2>11
<1>6. ASSUME NEW t
      PROVE  StandingRank(Strongest({ProvenanceOf(s[i]) : i \in Attributing(s, t)}))
               <= StandingRank(Strongest({ProvenanceOf(u[i]) : i \in Attributing(u, t)}))
  <2>1. PICK A, B : A = {ProvenanceOf(s[i]) : i \in Attributing(s, t)} /\ B = {ProvenanceOf(u[i]) : i \in Attributing(u, t)}
    OBVIOUS
  <2>2. A \subseteq B
    <3>1. \A i \in Attributing(s, t) : i \in Attributing(u, t) /\ u[i] = s[i]
      BY <1>1, <1>3 DEF Attributing
    <3> QED BY <2>1, <3>1
  <2>3. A \subseteq ThreeStandings /\ B \subseteq ThreeStandings
    BY <2>1 DEF ProvenanceOf, ThreeStandings
  <2>4. StandingRank(Strongest(A)) <= StandingRank(Strongest(B))
    <3>1. CASE A = {}
      <4>1. Strongest(A) = "speculative" /\ Strongest(B) \in ThreeStandings
        BY <2>3, <3>1, StrongestIs DEF Strongest
      <4> QED BY <4>1, RankIs DEF ThreeStandings
    <3>2. CASE A # {}
      <4>1. Strongest(A) \in B
        BY <2>2, <2>3, <3>2, StrongestIs
      <4> QED BY <2>3, <4>1, StrongestIs
    <3> QED BY <3>1, <3>2
  <2> QED BY <2>1, <2>4
<1>7. ASSUME NEW t \in DOMAIN MapEvidence(s)
      PROVE  /\ t \in DOMAIN MapEvidence(u) /\ MapEvidence(s)[t].conf <= MapEvidence(u)[t].conf
             /\ StandingRank(MapEvidence(s)[t].status) <= StandingRank(MapEvidence(u)[t].status)
  <2>1. t \in DOMAIN MapEvidence(u)
    <3>1. Attributing(s, t) # {}
      BY <1>1, <1>7, MapIs
    <3>2. Attributing(u, t) # {}
      BY <1>3, <3>1
    <3> QED BY <1>1, <3>2, MapIs
  <2>2. /\ MapEvidence(s)[t].conf = Fuse(LaneDeltas(s, t))
        /\ MapEvidence(s)[t].status = Strongest({ProvenanceOf(s[i]) : i \in Attributing(s, t)})
    BY <1>1, <1>7, MapIs, Zenon
  <2>3. /\ MapEvidence(u)[t].conf = Fuse(LaneDeltas(u, t))
        /\ MapEvidence(u)[t].status = Strongest({ProvenanceOf(u[i]) : i \in Attributing(u, t)})
    BY <1>1, <2>1, MapIs, Zenon
  <2> QED BY <1>5, <1>6, <2>1, <2>2, <2>3, Zenon
<1> QED BY <1>7, Zenon DEF Strengthens

(* Every step that changes the store adds at its end. *)
LEMMA Strengthened ==
    ASSUME Inv, [Next]_vars, Confident(store'), IsList(store)
    PROVE  Strengthens(MapEvidence(store), MapEvidence(store'))
<1>1. Grown(store, store')
  <2>1. CASE store' = store
    BY <2>1 DEF Grown
  <2>2. ASSUME NEW items, IsList(items), store' = Extend(store, items) PROVE Grown(store, store')
    <3>1. PICK p : p = Picked(items, Fresh(store, items)) /\ IsList(p)
      BY <2>2, ListPicked
    <3>2. store' = store \o p
      BY <2>2, <3>1, ExtendBy
    <3> QED BY <3>1, <3>2, GrownConcat
  <2> QED BY <2>1, <2>2, StoreGrows
<1> QED BY <1>1, GrownMap

(* The table of techniques of an analysis that goes on never loses one, nor
   any of its confidence or standing: evidence is added at the end of the
   store, and what is pooled and fused does not shrink with more of it. *)
THEOREM Strengthening == Spec => EvidenceOnlyStrengthens
<1>1. ASSUME Inv, Inv', [Next]_vars
      PROVE  [store' # store => Strengthens(MapEvidence(store), MapEvidence(store'))]_store
  <2>1. IsList(store)
    BY <1>1 DEF Inv, Kept, AllHeld
  <2>2. AllHeld(store', Range(store'), Started', Subject')
    BY <1>1 DEF Inv, Kept
  <2>3. Confident(store')
    <3> SUFFICES ASSUME NEW i \in DOMAIN store' PROVE store'[i].conf \in Nat
      BY DEF Confident
    <3>1. Rated(store'[i].conf)
      BY <2>2, ListHas DEF AllHeld, Held
    <3> QED BY <3>1 DEF Rated
  <2> QED BY <1>1, <2>1, <2>3, Strengthened
<1> QED BY <1>1, Consistent, PTL DEF Spec, EvidenceOnlyStrengthens
=============================================================================
