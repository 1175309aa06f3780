----------------------------- MODULE Signatures -----------------------------
(***************************************************************************)
(* detect/yara_gen.py: the YARA rule of a sample, tested against clean     *)
(* documents before it ships; and the Suricata candidates of               *)
(* detect/bundle.py.                                                       *)
(*                                                                         *)
(* A string of a rule is a token.  What the ranking and the matching see   *)
(* of a token is in Traits: "stop" (a stopword, or too short for where it  *)
(* was found), "generic" (a ubiquitous API name), "embedded" (a URL, path  *)
(* or family marker in it), "long" (20 bytes, or an underscore), "module"  *)
(* (ends in dll or exe), "binary" (not printable ASCII).  A document is    *)
(* the tokens it contains, each with the encoding it is in: "raw" or       *)
(* "wide" (UTF-16).  HostOf is what parsing makes of a network value: its  *)
(* kind, "dns" or "ip" (a global address), and the host itself; any other  *)
(* value is refused.                                                       *)
(***************************************************************************)
EXTENDS Evidence, FiniteSetsExt

CONSTANTS Traits, HostOf, MaxStrings, MaxSids

ASSUME SignatureAssumption == /\ \A tok \in DOMAIN Traits : "binary" \notin Traits[tok] \/ "stop" \notin Traits[tok]
                              /\ MaxStrings \in Nat \ {0} /\ MaxSids \in Nat \ {0}

Has_(tok, trait) == tok \in DOMAIN Traits /\ trait \in Traits[tok]

(* _specificity: higher is a stronger anchor *)
Specificity(tok) ==
    IF Has_(tok, "generic") THEN 0
    ELSE 1 + (IF Has_(tok, "embedded") THEN 3 ELSE 0)
           + (IF Has_(tok, "long") THEN 1 ELSE 0) + (IF Has_(tok, "module") THEN 1 ELSE 0)

(* _candidate_strings: the strongest MaxStrings of what the evidence names,
   with tokens of the sample's own bytes when it names fewer than two. *)
CandidateStrings(store, raw) ==
    LET Of(d, k)  == IF Has(d, k) THEN {d[k]} ELSE {}
        Named(it) == {tok \in Of(it.details, "decoded_preview") \union Of(it.object, "sink")
                              \union Of(it.object, "value") : ~Has_(tok, "stop")}
                     \union Of(it.object, "yara_rule")
        named  == UNION {Named(store[i]) : i \in DOMAIN store}
        known  == ListOf(IF Cardinality(named) < 2 THEN named \union raw ELSE named)
        Rank(n) == Filter(known, LAMBDA tok : Specificity(tok) = n)
        ranked == Flatten(MapSeq(Rank, <<6, 5, 4, 3, 2, 1, 0>>))
    IN  SubSeq(ranked, 1, Min({MaxStrings, Len(ranked)}))

InDoc_RawOnly(tok, doc) == <<tok, "raw">> \in doc                       \* mutant

(* YaraRule.matches: a string may be there in either encoding. *)
InDoc(tok, doc) == <<tok, "raw">> \in doc \/ (~Has_(tok, "binary") /\ <<tok, "wide">> \in doc)

MatchesDoc(rule, doc) == Cardinality({tok \in rule.strings : InDoc(tok, doc)}) >= rule.condition_min

PassesCleanCorpus(rules, corpus) == \A r \in rules, doc \in corpus : ~MatchesDoc(r, doc)

(* _make_clean: strings found as they are in a clean document are dropped;
   then the threshold is raised until no clean document matches, and the
   rule is given up when even all of them do.  The loop ends at the least
   threshold that is clean, or at the number of strings. *)
MakeClean(rule, corpus) ==
    LET kept  == {tok \in rule.strings : \A doc \in corpus : <<tok, "raw">> \notin doc}
        start == Min({rule.condition_min, Cardinality(kept)})
        With(n) == [strings |-> kept, condition_min |-> n]
        clean == {n \in start..Cardinality(kept) : PassesCleanCorpus({With(n)}, corpus)}
    IN  IF kept = {} \/ clean = {} THEN {} ELSE {With(Min(clean))}

(* generate_yara, as the set of the one rule or none *)
GenerateYara(store, raw, corpus) ==
    LET strings == Range(CandidateStrings(store, raw))
    IN  IF strings = {} THEN {}
        ELSE MakeClean([strings |-> strings, condition_min |-> Min({2, Cardinality(strings)})], corpus)

-----------------------------------------------------------------------------
(* suricata_candidates: one rule for each distinct indicator, up to 1000 *)
SuricataCandidates(store) ==
    LET Value(it) == FirstOf(it.object, <<"host", "value">>, "None")
        Usable(it) == /\ it.artifact = "network" /\ it.conf >= 60
                      /\ ~Is(it.details, "false_positive_risk", "high")
                      /\ Value(it) \in DOMAIN HostOf
        usable == Filter(store, Usable)
        hosts  == ListOf({HostOf[Value(usable[i])] : i \in DOMAIN usable})
    IN  [n \in 1..Min({MaxSids, Len(hosts)}) |->
            [sid |-> n, host |-> hosts[n],
             refs |-> {Id(usable[i]) : i \in {j \in DOMAIN usable : HostOf[Value(usable[j])] = hosts[n]}}]]
=============================================================================
