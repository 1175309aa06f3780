------------------------------ MODULE Evidence ------------------------------
(***************************************************************************)
(* sandworm/core/evidence.py and core/provenance.py: the one record every  *)
(* engine produces, the store it is appended to, and the standing a        *)
(* finding has.                                                            *)
(*                                                                         *)
(* A dictionary of an item is a function from the keys it has to strings;  *)
(* a key it lacks, or maps to None or the empty string, is not in its      *)
(* domain.  A boolean True is the string "yes".  A source such as          *)
(* "static.pe" is its lane and its tool.  Confidence is in percent.  The   *)
(* numbers an item carries are kept beside its dictionaries: t, the        *)
(* details["t_offset"] of a trace event, and at, its location.  The        *)
(* timestamp, the run and evidence_refs are left out.                      *)
(***************************************************************************)
EXTENDS Lists

(* TLC's functions. *)
k :> v == [key \in {k} |-> v]
Merged(d, e) == [k \in DOMAIN d \union DOMAIN e |-> IF k \in DOMAIN d THEN d[k] ELSE e[k]]
d @@ e == Merged(d, e)

NoTime == -1
Dict   == [k \in {} |-> "None"]

Has(d, k)      == k \in DOMAIN d
Is(d, k, v)    == k \in DOMAIN d /\ d[k] = v
Among(d, k, S) == k \in DOMAIN d /\ d[k] \in S

NoAddr == -1
Opt(k, v)    == IF v = "None" THEN Dict ELSE k :> v
OptNum(k, n) == IF n = NoAddr THEN Dict ELSE k :> n

(* obj.get(k1) or obj.get(k2) or ... or otherwise *)
FirstOf(d, keys, otherwise) ==
    LET given == {i \in DOMAIN keys : Has(d, keys[i])}
    IN  IF given = {} THEN otherwise ELSE d[keys[Min(given)]]

EvidenceItem(lane, tool, artifact, operation, object, details, conf) ==
    [lane |-> lane, tool |-> tool, artifact |-> artifact, operation |-> operation,
     subject |-> Dict, object |-> object, details |-> details,
     conf |-> conf, at |-> Dict, t |-> NoTime]

By(it, subject) == [it EXCEPT !.subject = subject]
When(it, t)     == [it EXCEPT !.t = t]
Located(it, at) == [it EXCEPT !.at = at]

(* The content an id is derived from: two observations that differ in
   nothing but their confidence have the same id. *)
Id(it) == [it EXCEPT !.conf = 0]
Ids(store) == {Id(store[i]) : i \in DOMAIN store}

(* EvidenceStore.append, for one item after the other: an item whose id is
   there is dropped, and it is the first one's confidence that stays. *)
Extend(store, items) ==
    LET ids == MapSeq(Id, items)
        known == Ids(store)
        fresh == {i \in DOMAIN items : ids[i] \notin known /\ \A j \in 1..(i - 1) : ids[j] # ids[i]}
    IN  store \o Picked(items, fresh)

(* EvidenceStore.dump, then load: a line per item, appended one by one. *)
Reload(store) == Extend(<<>>, store)

-----------------------------------------------------------------------------
(* provenance.py *)

Standings == <<"speculative", "inferred", "observed">>
StandingRank(s) == CHOOSE i \in 1..3 : Standings[i] = s

Runtime(it) == it.lane \in {"dynamic", "memory"}

ProvenanceOf(it) ==
    IF Runtime(it) THEN "observed" ELSE IF it.conf < 50 THEN "speculative" ELSE "inferred"

Strongest(standings) ==
    IF standings = {} THEN "speculative"
    ELSE CHOOSE s \in standings : \A r \in standings : StandingRank(r) <= StandingRank(s)
=============================================================================
