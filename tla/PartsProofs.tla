---------------------------- MODULE PartsProofs -----------------------------
(***************************************************************************)
(* Proofs about the parts that MCService checks, for any value of their    *)
(* constants: the static-evidence cache, the accounts, the discovery of    *)
(* functions, the rate limits, the corpus index and the search for rules.  *)
(***************************************************************************)
EXTENDS Accounts, StaticCache, Disassembly, RateLimit, CorpusIndex, RuleSearch, ListProofs,
        SequenceTheorems, TLAPS

(* The cache: a run that took nothing from the file has no evidence before its
   analysis, and exactly that of its analysis from then on; any run that analyses
   the sample has at least that. *)
CacheInv ==
    /\ pc  \in [Runs -> {"start", "load", "analyse", "open", "write", "done", "dead"}]
    /\ hit \in [Runs -> {"no", "yes", "part"}]
    /\ store = [r \in Runs |-> store[r]]
    /\ \A r \in Runs :
          /\ pc[r] \in {"start", "load"} => hit[r] = "no"
          /\ pc[r] \in {"start", "load", "analyse"} /\ hit[r] = "no" => store[r] = {}
          /\ pc[r] \in {"open", "write", "done"} =>
                /\ hit[r] = "no" => store[r] = Analysis(r)
                /\ hit[r] = "part" => Analysis(r) \subseteq store[r]

LEMMA CacheInvInit == CacheInit => CacheInv
  BY DEF CacheInit, CacheInv

LEMMA CacheInvStep == CacheInv /\ [CacheNext]_cacheVars => CacheInv'
<1> SUFFICES ASSUME CacheInv, [CacheNext]_cacheVars PROVE CacheInv'
  OBVIOUS
<1>1. ASSUME NEW r \in Runs, Start(r) PROVE CacheInv'
  BY <1>1 DEF CacheInv, Start, RunAt, Analysis
<1>2. ASSUME NEW r \in Runs, Load(r) PROVE CacheInv'
  <2>1. CASE UNCHANGED <<store, hit>> /\ pc' = [pc EXCEPT ![r] = "analyse"]
    BY <1>2, <2>1 DEF CacheInv, Load, Analysis
  <2>2. CASE \E lines : /\ store' = [store EXCEPT ![r] = lines]
                        /\ hit' = [hit EXCEPT ![r] = "yes"]
                        /\ pc' = [pc EXCEPT ![r] = "done"]
    BY <2>2 DEF CacheInv, Analysis
  <2>3. CASE \E lines : /\ store' = [store EXCEPT ![r] = lines]
                        /\ hit' = [hit EXCEPT ![r] = "part"]
                        /\ pc' = [pc EXCEPT ![r] = "analyse"]
    BY <2>3 DEF CacheInv, Analysis
  <2> QED BY <1>2, <2>1, <2>2, <2>3 DEF Load, RunAt
<1>3. ASSUME NEW r \in Runs, Analyse(r) PROVE CacheInv'
  <2>1. /\ pc[r] = "analyse" /\ hit' = hit
        /\ store' = [store EXCEPT ![r] = store[r] \cup Analysis(r)]
        /\ \E l \in {"done", "open"} : pc' = [pc EXCEPT ![r] = l]
    BY <1>3 DEF Analyse, RunAt
  <2>2. hit[r] = "no" => store'[r] = Analysis(r)
    BY <2>1 DEF CacheInv
  <2>3. Analysis(r) \subseteq store'[r]
    BY <2>1 DEF CacheInv
  <2> QED BY <2>1, <2>2, <2>3 DEF CacheInv, Analysis
<1>4. ASSUME NEW r \in Runs, OpenFile(r) \/ Write(r) \/ WriteFails(r) \/ Die(r) PROVE CacheInv'
  <2>1. /\ hit' = hit /\ store' = store
        /\ \/ pc[r] \in {"open", "write"} /\ \E l \in {"write", "done"} : pc' = [pc EXCEPT ![r] = l]
           \/ pc' = [pc EXCEPT ![r] = "dead"]
    BY <1>4 DEF OpenFile, Write, WriteFails, Die, RunAt
  <2> QED BY <2>1 DEF CacheInv, Analysis
<1>5. CASE UNCHANGED cacheVars
  BY <1>5 DEF CacheInv, cacheVars, Analysis
<1> QED BY <1>1, <1>2, <1>3, <1>4, <1>5 DEF CacheNext

(* Whatever the other runs do to the file, and however often they fail or die, a
   run that analyses the sample itself finds all of its analysis, and nothing else
   unless its load of the file began and failed (the cache of analyze_sample()). *)
THEOREM CacheLeavesNothing == CacheSpec => []FreshRunIsItsOwn
<1>1. CacheInv => FreshRunIsItsOwn
  BY DEF CacheInv, FreshRunIsItsOwn
<1> QED BY CacheInvInit, CacheInvStep, <1>1, PTL DEF CacheSpec

-----------------------------------------------------------------------------
(* The accounts: what a thread does is done for an account that exists, and
   what a rotation is about to revoke is that account's own. *)
AccountsTypeOK ==
    /\ account \in [Users -> {"absent", "active", "disabled"}]
    /\ role    \in [Users -> {"admin", "analyst"}]
    /\ owner   \in [Creds -> Users \union {NoUser}]
    /\ kind    \in [Creds -> {"key", "session"}]
    /\ expired \in [Creds -> BOOLEAN] /\ revoked \in [Creds -> BOOLEAN]
    /\ overlap \in BOOLEAN
    /\ req \in [Requests -> [at : {"idle", "handler", "issue", "revoke"},
                             op : Operations \union {"login", "cli"},
                             by : Users \union {NoUser},
                             target : Users \union Creds \union {NoCred}]]

Rotating(r) == req[r].at = "revoke" \/ (req[r].at = "issue" /\ req[r].op = "rotate")

RequestsAreOwn ==
    \A r \in Requests :
        /\ req[r].at # "idle" => req[r].by \in Users
        /\ req[r].at = "revoke" => req[r].op = "rotate"
        /\ Rotating(r) => req[r].target \in Creds /\ owner[req[r].target] = req[r].by

UnissuedAreNotRevoked == \A c \in Creds : owner[c] = NoUser => ~revoked[c]

(* Some key is not revoked, and no rotation is about to revoke it. *)
Lasting(c) == ~revoked[c] /\ \A r \in Requests : req[r].at = "revoke" => req[r].target # c
SomeKeyLasts == \A u \in Users \ dropped : KeysOf(u) # {} => \E c \in KeysOf(u) : Lasting(c)

(* Who is about to disable an account is alone in that, and active. *)
OneDisables ==
    overlap \/ \A r \in Requests : Disabling(r) =>
                  /\ account[req[r].by] = "active"
                  /\ \A q \in Requests : Disabling(q) => q = r

AccountsInv == /\ AccountsTypeOK /\ RequestsAreOwn /\ UnissuedAreNotRevoked
               /\ SomeKeyLasts /\ OneDisables /\ WorkspaceKeepsAdmin

LEMMA AccountsInvInit == AccountsInit => AccountsInv
<1> SUFFICES ASSUME AccountsInit PROVE AccountsInv
  OBVIOUS
<1> USE AccountsAssumption
<1>1. AccountsTypeOK
  BY DEF AccountsInit, AccountsTypeOK, Idle, Operations
<1>2. \A r \in Requests : req[r].at = "idle"
  BY DEF AccountsInit, Idle
<1>3. RequestsAreOwn /\ OneDisables
  BY <1>2 DEF RequestsAreOwn, OneDisables, Rotating, Disabling
<1>4. UnissuedAreNotRevoked /\ WorkspaceKeepsAdmin
  BY DEF AccountsInit, UnissuedAreNotRevoked, WorkspaceKeepsAdmin
<1>5. SomeKeyLasts
  BY DEF AccountsInit, SomeKeyLasts, KeysOf
<1> QED BY <1>1, <1>3, <1>4, <1>5 DEF AccountsInv

LEMMA AccountsTypeStep == AccountsTypeOK /\ RequestsAreOwn /\ [AccountsNext]_accountsVars => AccountsTypeOK'
<1> SUFFICES ASSUME AccountsTypeOK, RequestsAreOwn, [AccountsNext]_accountsVars PROVE AccountsTypeOK'
  OBVIOUS
<1> USE DEF AccountsTypeOK
<1>1. ASSUME NEW c \in Creds, Expire(c) PROVE AccountsTypeOK'
  BY <1>1 DEF Expire, users, history
<1>2. ASSUME NEW r \in Requests, NEW o \in Operations, NEW c \in Creds, NEW x \in Targets(o), Authenticate(r, o, c, x)
      PROVE  AccountsTypeOK'
  <2>1. x \in Users \union Creds \union {NoCred}
    BY DEF Targets
  <2>2. overlap' \in BOOLEAN
    BY <1>2 DEF Authenticate
  <2>3. UNCHANGED <<account, role, owner, kind, expired, revoked>>
    BY <1>2 DEF Authenticate, users, creds
  <2>4. req' \in [Requests -> [at : {"idle", "handler", "issue", "revoke"},
                             op : Operations \union {"login", "cli"},
                             by : Users \union {NoUser},
                             target : Users \union Creds \union {NoCred}]]
    BY <1>2, <2>1 DEF Authenticate
  <2> QED BY <2>2, <2>3, <2>4
<1>3. ASSUME NEW r \in Requests, NEW o \in {"login", "cli"}, NEW u \in Users, LookUp(r, o, u) PROVE AccountsTypeOK'
  BY <1>3 DEF LookUp, Idle, users, creds, history, Operations
<1>4. ASSUME NEW r \in Requests, NEW c \in Creds, Issue(r, c) PROVE AccountsTypeOK'
  BY <1>4 DEF Issue, Kind, RequestAt, Replies, Idle, users, history, Operations
<1>5. ASSUME NEW r \in Requests, Rotate(r) \/ Revoke(r) \/ Disable(r) \/ Closes(r) PROVE AccountsTypeOK'
  <2>1. CASE Rotate(r)
    BY <2>1 DEF Rotate, RequestAt, Replies, Idle, users, creds, history, Operations
  <2>2. CASE Revoke(r)
    BY <2>2 DEF Revoke, Replies, Idle, users, Operations
  <2>3. CASE Disable(r)
    BY <2>3 DEF Disable, Replies, Idle, creds, history, Operations
  <2>4. CASE Closes(r)
    BY <2>4 DEF Closes, Replies, Idle, users, creds, history, Operations
  <2> QED BY <1>5, <2>1, <2>2, <2>3, <2>4
<1>6. ASSUME NEW r \in Requests, NEW p \in {"admin", "analyst"}, Create(r, p) PROVE AccountsTypeOK'
  BY <1>6 DEF Create, Replies, Idle, users, creds, history, Operations
<1>7. ASSUME NEW u \in Users, NEW p \in {"admin", "analyst"}, UserAdd(u, p) PROVE AccountsTypeOK'
  BY <1>7 DEF UserAdd, creds, history
<1>8. CASE ApiDies
  BY <1>8 DEF ApiDies, Idle, users, creds, history, Operations
<1>9. CASE UNCHANGED accountsVars
  BY <1>9 DEF accountsVars, users, creds, history
<1>10. ASSUME NEW r \in Requests, NEW c \in Creds, Refuse(r, c) PROVE AccountsTypeOK'
  BY <1>9, <1>10 DEF Refuse
<1> QED BY <1>1, <1>2, <1>3, <1>4, <1>5, <1>6, <1>7, <1>8, <1>9, <1>10 DEF AccountsNext, Serve

(* One request goes on, or begins, or all end: what the others are doing is
   what they were doing. *)
LEMMA OwnRequestsStep == AccountsInv /\ [AccountsNext]_accountsVars => RequestsAreOwn' /\ UnissuedAreNotRevoked'
<1> SUFFICES ASSUME AccountsInv, [AccountsNext]_accountsVars PROVE RequestsAreOwn' /\ UnissuedAreNotRevoked'
  OBVIOUS
<1> USE AccountsAssumption DEF AccountsInv, AccountsTypeOK, RequestsAreOwn, UnissuedAreNotRevoked
<1>1. ASSUME NEW c \in Creds, Expire(c) PROVE RequestsAreOwn' /\ UnissuedAreNotRevoked'
  BY <1>1 DEF Expire, users, history, Rotating
<1>2. ASSUME NEW r \in Requests, NEW o \in Operations, NEW c \in Creds, NEW x \in Targets(o), Authenticate(r, o, c, x)
      PROVE  RequestsAreOwn' /\ UnissuedAreNotRevoked'
  <2>1. owner[c] \in Users /\ UNCHANGED <<owner, revoked>>
    BY <1>2 DEF Authenticate, Authentic, creds
  <2>2. req' = [req EXCEPT ![r] = [at |-> IF o = "key" THEN "issue" ELSE "handler", op |-> o,
                                  by |-> owner[c], target |-> x]]
    BY <1>2 DEF Authenticate
  <2> QED BY <2>1, <2>2 DEF Rotating
<1>3. ASSUME NEW r \in Requests, NEW o \in {"login", "cli"}, NEW u \in Users, LookUp(r, o, u)
      PROVE  RequestsAreOwn' /\ UnissuedAreNotRevoked'
  BY <1>3 DEF LookUp, Idle, creds, Rotating
<1>4. ASSUME NEW r \in Requests, NEW c \in Creds, Issue(r, c) PROVE RequestsAreOwn' /\ UnissuedAreNotRevoked'
  <2>1. /\ owner[c] = NoUser /\ owner' = [owner EXCEPT ![c] = req[r].by] /\ revoked' = revoked
        /\ req[r].at = "issue" /\ req[r].by \in Users
    BY <1>4 DEF Issue
  <2>2. UnissuedAreNotRevoked'
    BY <2>1
  <2>3. \A q \in Requests : Rotating(q) => req[q].target # c /\ owner'[req[q].target] = req[q].by
    BY <2>1 DEF Rotating
  <2>4. CASE req[r].op = "rotate" /\ req' = [req EXCEPT ![r].at = "revoke"]
    BY <2>1, <2>2, <2>3, <2>4 DEF Rotating
  <2>5. CASE req' = [req EXCEPT ![r] = Idle]
    BY <2>1, <2>2, <2>3, <2>5 DEF Rotating, Idle
  <2> QED BY <1>4, <2>4, <2>5 DEF Issue, RequestAt, Replies
<1>5. ASSUME NEW r \in Requests, Rotate(r) \/ Revoke(r) \/ Disable(r) \/ Closes(r)
      PROVE  RequestsAreOwn' /\ UnissuedAreNotRevoked'
  <2>1. CASE Rotate(r)
    BY <2>1 DEF Rotate, RequestAt, Replies, Idle, creds, Rotating
  <2>2. CASE Revoke(r)
    BY <2>2 DEF Revoke, Replies, Idle, Rotating
  <2>3. CASE Disable(r)
    BY <2>3 DEF Disable, Replies, Idle, creds, Rotating
  <2>4. CASE Closes(r)
    BY <2>4 DEF Closes, Replies, Idle, creds, Rotating
  <2> QED BY <1>5, <2>1, <2>2, <2>3, <2>4
<1>6. ASSUME NEW r \in Requests, NEW p \in {"admin", "analyst"}, Create(r, p)
      PROVE  RequestsAreOwn' /\ UnissuedAreNotRevoked'
  BY <1>6 DEF Create, Replies, Idle, creds, Rotating
<1>7. ASSUME NEW u \in Users, NEW p \in {"admin", "analyst"}, UserAdd(u, p)
      PROVE  RequestsAreOwn' /\ UnissuedAreNotRevoked'
  BY <1>7 DEF UserAdd, creds, Rotating
<1>8. CASE ApiDies
  BY <1>8 DEF ApiDies, Idle, creds, Rotating
<1>9. CASE UNCHANGED accountsVars
  BY <1>9 DEF accountsVars, creds, Rotating
<1>10. ASSUME NEW r \in Requests, NEW c \in Creds, Refuse(r, c) PROVE RequestsAreOwn' /\ UnissuedAreNotRevoked'
  BY <1>9, <1>10 DEF Refuse
<1> QED BY <1>1, <1>2, <1>3, <1>4, <1>5, <1>6, <1>7, <1>8, <1>9, <1>10 DEF AccountsNext, Serve

(* A rotation revokes its key after the new one is issued, so the new one
   lasts; a key is revoked otherwise only by who is in dropped from then on. *)
LEMMA KeysLastStep == AccountsInv /\ [AccountsNext]_accountsVars => SomeKeyLasts'
<1> SUFFICES ASSUME AccountsInv, [AccountsNext]_accountsVars,
                    NEW u \in Users, u \notin dropped', KeysOf(u)' # {}
             PROVE  \E c \in KeysOf(u)' : Lasting(c)'
  BY DEF SomeKeyLasts
<1> USE AccountsAssumption
<1> DEFINE Keeps == UNCHANGED <<owner, kind, revoked, dropped>>
           NoneRevokes == \A q \in Requests : req'[q].at = "revoke" => req[q].at = "revoke" /\ req'[q].target = req[q].target
<1>0. AccountsTypeOK /\ RequestsAreOwn /\ UnissuedAreNotRevoked /\ SomeKeyLasts
  BY DEF AccountsInv
<1>1. ASSUME Keeps, NoneRevokes PROVE \E c \in KeysOf(u)' : Lasting(c)'
  <2>1. KeysOf(u)' = KeysOf(u) /\ u \notin dropped
    BY <1>1 DEF KeysOf
  <2>2. PICK c \in KeysOf(u) : Lasting(c)
    BY <1>0, <2>1 DEF SomeKeyLasts
  <2> QED BY <1>1, <2>1, <2>2 DEF Lasting
<1>2. ASSUME NEW r \in Requests, NEW c \in Creds, Issue(r, c) PROVE \E k \in KeysOf(u)' : Lasting(k)'
  <2> USE <1>0, <1>2 DEF AccountsTypeOK
  <2>1. /\ owner[c] = NoUser /\ ~revoked[c] /\ owner' = [owner EXCEPT ![c] = req[r].by]
        /\ kind' = [kind EXCEPT ![c] = Kind(r)] /\ revoked' = revoked /\ dropped' = dropped
        /\ req[r].at = "issue" /\ req[r].by \in Users
    BY DEF Issue, history, UnissuedAreNotRevoked, RequestsAreOwn
  <2>2. \A q \in Requests : /\ req'[q].at = "revoke" => Rotating(q) /\ req'[q].target = req[q].target
                            /\ Rotating(q) => /\ req[q].target \in Creds /\ req[q].target # c
                                              /\ owner[req[q].target] = req[q].by
    BY <2>1 DEF Issue, RequestAt, Replies, Idle, Rotating, RequestsAreOwn
  <2>3. CASE req[r].by = u /\ Kind(r) = "key"
    <3>1. c \in KeysOf(u)'
      BY <2>1, <2>3 DEF KeysOf
    <3> QED BY <2>1, <2>2, <3>1 DEF Lasting
  <2>4. CASE ~(req[r].by = u /\ Kind(r) = "key")
    <3>1. KeysOf(u)' = KeysOf(u)
      BY <2>1, <2>4 DEF KeysOf
    <3>2. PICK k \in KeysOf(u) : Lasting(k)
      BY <2>1, <3>1 DEF SomeKeyLasts
    <3>3. ASSUME NEW q \in Requests, req'[q].at = "revoke" PROVE req'[q].target # k
      <4>1. CASE q = r
        <5>1. req[r].op = "rotate"
          BY <2>2, <3>3, <4>1, <2>1 DEF Rotating
        <5>2. Kind(r) = "key"
          BY <5>1 DEF Kind
        <5> QED BY <2>2, <2>4, <3>2, <3>3, <4>1, <5>2 DEF KeysOf
      <4>2. CASE q # r
        BY <2>1, <3>2, <3>3, <4>2 DEF Issue, RequestAt, Replies, Lasting
      <4> QED BY <4>1, <4>2
    <3> QED BY <2>1, <3>1, <3>2, <3>3 DEF Lasting
  <2> QED BY <2>3, <2>4
<1>3. ASSUME NEW r \in Requests, Revoke(r) PROVE \E k \in KeysOf(u)' : Lasting(k)'
  <2> USE <1>0, <1>3 DEF AccountsTypeOK
  <2>1. KeysOf(u)' = KeysOf(u) /\ u \notin dropped
    BY DEF Revoke, KeysOf
  <2>2. PICK k \in KeysOf(u) : Lasting(k)
    BY <2>1 DEF SomeKeyLasts
  <2>3. revoked'[k] = revoked[k]
    <3>1. CASE req[r].at = "revoke"
      BY <2>2, <3>1 DEF Revoke, Lasting, KeysOf
    <3>2. CASE req[r].at # "revoke"
      <4>1. req[r].op = "revoke" /\ req[r].by # u
        BY <3>2 DEF Revoke
      <4> QED BY <2>2, <4>1 DEF Revoke, KeysOf
    <3> QED BY <3>1, <3>2
  <2>4. \A q \in Requests : req'[q].at = "revoke" => req'[q] = req[q]
    BY DEF Revoke, Replies, Idle
  <2> QED BY <2>1, <2>2, <2>3, <2>4 DEF Lasting
<1>4. ASSUME NEW r \in Requests, Rotate(r) PROVE Keeps /\ NoneRevokes
  BY <1>0, <1>4 DEF Rotate, RequestAt, Replies, Idle, creds, history, AccountsTypeOK
<1>5. ASSUME NEW r \in Requests, Disable(r) \/ Closes(r) \/ \E p \in {"admin", "analyst"} : Create(r, p)
      PROVE  Keeps /\ NoneRevokes
  <2>1. Replies(r) /\ Keeps
    BY <1>5 DEF Disable, Closes, Create, creds, history
  <2> QED BY <1>0, <2>1 DEF Replies, Idle, AccountsTypeOK
<1>6. ASSUME NEW r \in Requests, NEW o \in Operations, NEW c \in Creds, NEW x \in Targets(o), Authenticate(r, o, c, x)
      PROVE  Keeps /\ NoneRevokes
  <2>1. Keeps /\ req' = [req EXCEPT ![r] = [at |-> IF o = "key" THEN "issue" ELSE "handler", op |-> o,
                                            by |-> owner[c], target |-> x]]
    BY <1>6 DEF Authenticate, creds
  <2> QED BY <1>0, <2>1 DEF AccountsTypeOK
<1>7. ASSUME NEW r \in Requests, NEW o \in {"login", "cli"}, NEW v \in Users, LookUp(r, o, v) PROVE Keeps /\ NoneRevokes
  <2>1. Keeps /\ req' = [req EXCEPT ![r] = [Idle EXCEPT !.at = "issue", !.op = o, !.by = v]]
    BY <1>7 DEF LookUp, creds, history
  <2> QED BY <1>0, <2>1 DEF Idle, AccountsTypeOK
<1>8. ASSUME \/ \E c \in Creds : Expire(c)
             \/ \E v \in Users, p \in {"admin", "analyst"} : UserAdd(v, p)
             \/ \E r \in Requests, c \in Creds : Refuse(r, c)
             \/ ApiDies \/ UNCHANGED accountsVars
      PROVE  Keeps /\ NoneRevokes
  BY <1>8 DEF Expire, UserAdd, Refuse, ApiDies, Idle, accountsVars, users, creds, history
<1> HIDE DEF Keeps, NoneRevokes
<1> QED BY <1>1, <1>2, <1>3, <1>4, <1>5, <1>6, <1>7, <1>8 DEF AccountsNext, Serve

(* Who disables an account is a colleague that stays: active since the
   request arrived, as nobody else was disabling. *)
LEMMA AdminsStep == AccountsInv /\ [AccountsNext]_accountsVars => OneDisables' /\ WorkspaceKeepsAdmin'
<1> SUFFICES ASSUME AccountsInv, [AccountsNext]_accountsVars PROVE OneDisables' /\ WorkspaceKeepsAdmin'
  OBVIOUS
<1> DEFINE Same == UNCHANGED <<account, role, overlap>>
           NoneDisables == \A q \in Requests : Disabling(q)' => Disabling(q) /\ req'[q] = req[q]
<1>0. AccountsTypeOK /\ RequestsAreOwn /\ OneDisables /\ WorkspaceKeepsAdmin
  BY DEF AccountsInv
<1>1. ASSUME Same, NoneDisables PROVE OneDisables' /\ WorkspaceKeepsAdmin'
  BY <1>0, <1>1 DEF OneDisables, WorkspaceKeepsAdmin
<1>2. ASSUME NEW r \in Requests, NEW o \in Operations, NEW c \in Creds, NEW x \in Targets(o), Authenticate(r, o, c, x)
      PROVE  OneDisables' /\ WorkspaceKeepsAdmin'
  <2>1. /\ account' = account /\ role' = role /\ owner[c] \in Users /\ account[owner[c]] = "active"
        /\ req' = [req EXCEPT ![r] = [at |-> IF o = "key" THEN "issue" ELSE "handler", op |-> o,
                                      by |-> owner[c], target |-> x]]
        /\ ~overlap' => ~overlap /\ (o = "disable" => \A q \in Requests : ~Disabling(q))
    BY <1>0, <1>2 DEF Authenticate, Authentic, users, AccountsTypeOK
  <2>2. WorkspaceKeepsAdmin'
    BY <1>0, <2>1 DEF WorkspaceKeepsAdmin
  <2>3. /\ Disabling(r)' => o = "disable" /\ req'[r].by = owner[c]
        /\ \A q \in Requests : q # r => (Disabling(q)' <=> Disabling(q)) /\ req'[q] = req[q]
    BY <1>0, <2>1 DEF Disabling, AccountsTypeOK
  <2>4. OneDisables'
    BY <1>0, <2>1, <2>3 DEF OneDisables
  <2> QED BY <2>2, <2>4
<1>3. ASSUME NEW r \in Requests, Disable(r) PROVE OneDisables' /\ WorkspaceKeepsAdmin'
  <2> DEFINE b == req[r].by
             t == req[r].target
  <2>1. /\ Disabling(r) /\ b \in Users /\ t \in Users /\ role' = role /\ overlap' = overlap
        /\ req' = [req EXCEPT ![r] = Idle]
    BY <1>0, <1>3 DEF Disable, Disabling, RequestsAreOwn, history, Replies
  <2>2. \A q \in Requests : Disabling(q)' => Disabling(q) /\ q # r
    BY <1>0, <2>1 DEF Disabling, Idle, AccountsTypeOK
  <2>3. OneDisables'
    BY <1>0, <2>1, <2>2 DEF OneDisables
  <2>4. CASE account' = account
    BY <1>0, <2>1, <2>3, <2>4 DEF WorkspaceKeepsAdmin
  <2>5. CASE /\ account' = [account EXCEPT ![t] = "disabled"]
             /\ role[b] = "admin" /\ t # b /\ HomeOf[t] = HomeOf[b] /\ account[t] = "active" /\ ~overlap
    <3>1. account'[b] = "active"
      BY <1>0, <2>1, <2>5 DEF OneDisables, AccountsTypeOK
    <3>2. ASSUME NEW u \in Users, account'[u] # "absent", role[u] = "admin"
          PROVE  \E v \in Users : HomeOf[v] = HomeOf[u] /\ role[v] = "admin" /\ account'[v] = "active"
      <4>1. account[u] # "absent"
        BY <1>0, <2>5, <3>2 DEF AccountsTypeOK
      <4>2. PICK v \in Users : HomeOf[v] = HomeOf[u] /\ role[v] = "admin" /\ account[v] = "active"
        BY <1>0, <2>5, <3>2, <4>1 DEF WorkspaceKeepsAdmin
      <4>3. CASE v = t
        BY <2>1, <2>5, <3>1, <4>2, <4>3
      <4>4. CASE v # t
        BY <1>0, <2>1, <2>5, <4>2, <4>4 DEF AccountsTypeOK
      <4> QED BY <4>3, <4>4
    <3> QED BY <2>1, <2>3, <3>2 DEF WorkspaceKeepsAdmin
  <2>6. CASE overlap
    BY <2>1, <2>3, <2>6 DEF WorkspaceKeepsAdmin
  <2> QED BY <1>3, <2>4, <2>5, <2>6 DEF Disable, MayDisable
<1>4. ASSUME NEW u \in Users, NEW p \in {"admin", "analyst"},
             account[u] = "absent", account' = [account EXCEPT ![u] = "active"], role' = [role EXCEPT ![u] = p],
             overlap' = overlap, NoneDisables
      PROVE  OneDisables' /\ WorkspaceKeepsAdmin'
  <2>1. OneDisables'
    BY <1>0, <1>4 DEF OneDisables, AccountsTypeOK, RequestsAreOwn, Disabling
  <2>2. ASSUME ~overlap, NEW w \in Users, account'[w] # "absent", role'[w] = "admin"
        PROVE  \E v \in Users : HomeOf[v] = HomeOf[w] /\ role'[v] = "admin" /\ account'[v] = "active"
    <3>1. CASE w = u
      BY <1>0, <1>4, <2>2, <3>1 DEF AccountsTypeOK
    <3>2. CASE w # u
      <4>1. PICK v \in Users : HomeOf[v] = HomeOf[w] /\ role[v] = "admin" /\ account[v] = "active"
        BY <1>0, <1>4, <2>2, <3>2 DEF WorkspaceKeepsAdmin, AccountsTypeOK
      <4> QED BY <1>0, <1>4, <4>1 DEF AccountsTypeOK
    <3> QED BY <3>1, <3>2
  <2> QED BY <1>4, <2>1, <2>2 DEF WorkspaceKeepsAdmin
<1>5. ASSUME NEW r \in Requests, NEW p \in {"admin", "analyst"}, Create(r, p)
      PROVE  OneDisables' /\ WorkspaceKeepsAdmin'
  <2>1. NoneDisables /\ overlap' = overlap
    BY <1>0, <1>5 DEF Create, Replies, Idle, Disabling, history, AccountsTypeOK
  <2>2. CASE UNCHANGED users
    BY <1>1, <2>1, <2>2 DEF users
  <2>3. CASE ~UNCHANGED users
    BY <1>4, <1>5, <2>1, <2>3 DEF Create
  <2> QED BY <2>2, <2>3
<1>6. ASSUME NEW u \in Users, NEW p \in {"admin", "analyst"}, UserAdd(u, p) PROVE OneDisables' /\ WorkspaceKeepsAdmin'
  <2>1. NoneDisables /\ overlap' = overlap
    BY <1>6 DEF UserAdd, history, Disabling
  <2> QED BY <1>4, <1>6, <2>1 DEF UserAdd
<1>7. ASSUME NEW r \in Requests, Revoke(r) \/ Closes(r) PROVE Same /\ NoneDisables
  <2>1. Replies(r) /\ Same
    BY <1>7 DEF Revoke, Closes, users, history
  <2> QED BY <1>0, <2>1 DEF Replies, Idle, Disabling, AccountsTypeOK
<1>8. ASSUME NEW r \in Requests, Rotate(r) \/ \E c \in Creds : Issue(r, c) PROVE Same /\ NoneDisables
  <2>1. Same /\ \/ Replies(r)
                \/ \E l \in {"issue", "revoke"} : RequestAt(r, l)
    BY <1>8 DEF Rotate, Issue, users, history
  <2> QED BY <1>0, <2>1 DEF Replies, RequestAt, Idle, Disabling, AccountsTypeOK
<1>9. ASSUME NEW r \in Requests, NEW o \in {"login", "cli"}, NEW v \in Users, LookUp(r, o, v) PROVE Same /\ NoneDisables
  <2>1. Same /\ req' = [req EXCEPT ![r] = [Idle EXCEPT !.at = "issue", !.op = o, !.by = v]]
    BY <1>9 DEF LookUp, users, history
  <2> QED BY <1>0, <2>1 DEF Idle, Disabling, AccountsTypeOK
<1>10. ASSUME \/ \E c \in Creds : Expire(c)
              \/ \E r \in Requests, c \in Creds : Refuse(r, c)
              \/ ApiDies \/ UNCHANGED accountsVars
       PROVE  Same /\ NoneDisables
  BY <1>10 DEF Expire, Refuse, ApiDies, Idle, Disabling, accountsVars, users, creds, history
<1> HIDE DEF Same, NoneDisables
<1> QED BY <1>1, <1>2, <1>3, <1>5, <1>6, <1>7, <1>8, <1>9, <1>10 DEF AccountsNext, Serve

LEMMA AccountsInvariant == AccountsSpec => []AccountsInv
<1>1. AccountsInv /\ [AccountsNext]_accountsVars => AccountsInv'
  BY AccountsTypeStep, OwnRequestsStep, KeysLastStep, AdminsStep DEF AccountsInv
<1> QED BY AccountsInvInit, <1>1, PTL DEF AccountsSpec

(* An account that only rotates its keys always has one that is not revoked,
   from however many places it does so and whenever the API dies in between
   (POST /api/keys/{kid}/rotate). *)
THEOREM RotatedKeysLast == AccountsSpec => []RotationKeepsKey
<1>1. AccountsInv => RotationKeepsKey
  BY DEF AccountsInv, SomeKeyLasts, Lasting, RotationKeepsKey
<1> QED BY AccountsInvariant, <1>1, PTL

(* A workspace that has an administrator keeps an active one, unless two
   accounts were being disabled at once (DELETE /api/users/{uid}). *)
THEOREM AdministratorsStay == AccountsSpec => []WorkspaceKeepsAdmin
<1>1. AccountsInv => WorkspaceKeepsAdmin
  BY DEF AccountsInv
<1> QED BY AccountsInvariant, <1>1, PTL

-----------------------------------------------------------------------------
(* The discovery: what has been decoded is one function's, or the one's at
   hand, which begins with its entry. *)
EntryIsFirst ==
    IF local = {} THEN \/ here = Nowhere /\ heads \in {<<start>>, <<>>}
                       \/ here = start /\ heads = <<>>
    ELSE start \in local

ApartInv ==
    /\ image \in Images
    /\ functions = [a \in DOMAIN functions |-> functions[a]]
    /\ \A a \in DOMAIN functions : a \in functions[a] /\ functions[a] \subseteq claimed
    /\ local \intersect claimed = {}
    /\ EntryIsFirst
    /\ FunctionsAreApart

LEMMA ApartInvInit == DiscoverInit => ApartInv
  BY DEF DiscoverInit, ApartInv, EntryIsFirst, FunctionsAreApart

LEMMA ApartInvStep == ApartInv /\ [DiscoverNext]_discoverVars => ApartInv'
<1> SUFFICES ASSUME ApartInv, [DiscoverNext]_discoverVars PROVE ApartInv'
  OBVIOUS
<1> USE DEF ApartInv
<1>1. CASE TakeEntry
  <2>1. UNCHANGED <<image, functions, claimed>> /\ start = Nowhere
    BY <1>1 DEF TakeEntry
  <2>2. CASE UNCHANGED decoding
    BY <2>1, <2>2 DEF decoding, EntryIsFirst, FunctionsAreApart
  <2>3. CASE heads' = <<start'>> /\ local' = {} /\ here' = Nowhere
    BY <2>1, <2>3 DEF EntryIsFirst, FunctionsAreApart
  <2> QED BY <1>1, <2>2, <2>3 DEF TakeEntry
<1>2. CASE TakeBlock \/ EndBlock
  <2>1. UNCHANGED <<image, functions, claimed, start, local>>
    BY <1>2 DEF TakeBlock, EndBlock, found
  <2>2. EntryIsFirst'
    <3>1. CASE local # {}
      BY <2>1, <3>1 DEF EntryIsFirst
    <3>2. CASE local = {} /\ TakeBlock
      <4>1. heads = <<start>>
        BY <3>2 DEF TakeBlock, EntryIsFirst
      <4>2. Head(<<start>>) = start /\ Tail(<<start>>) = <<>>
        OBVIOUS
      <4>3. heads' = <<>> /\ here' \in {start, Nowhere}
        BY <3>2, <4>1, <4>2 DEF TakeBlock
      <4> QED BY <2>1, <3>2, <4>3 DEF EntryIsFirst
    <3>3. CASE local = {} /\ EndBlock
      BY <2>1, <3>3 DEF EndBlock, EntryIsFirst
    <3> QED BY <1>2, <3>1, <3>2, <3>3
  <2> QED BY <2>1, <2>2 DEF FunctionsAreApart
<1>3. CASE Decode
  <2>1. /\ here \notin local \union claimed /\ local' = local \union {here}
        /\ UNCHANGED <<image, functions, claimed, start>> /\ here \in DOMAIN image
    BY <1>3 DEF Decode, Taken
  <2>2. CASE local # {}
    BY <2>1, <2>2 DEF EntryIsFirst, FunctionsAreApart
  <2>3. CASE local = {} /\ here = start
    BY <2>1, <2>3 DEF EntryIsFirst, FunctionsAreApart
  <2>4. CASE local = {} /\ here = Nowhere
    BY <2>1, <2>4, ImageAssumption, <1>3 DEF EntryIsFirst
  <2> QED BY <2>2, <2>3, <2>4 DEF EntryIsFirst
<1>4. CASE EndFunction
  <2>1. /\ local' = {} /\ heads' = <<>> /\ here' = Nowhere /\ image' = image
        /\ \/ UNCHANGED <<functions, claimed>>
           \/ /\ local # {} /\ claimed' = claimed \union local
              /\ functions' = [a \in DOMAIN functions \union {start} |-> IF a = start THEN local ELSE functions[a]]
    BY <1>4 DEF EndFunction
  <2>2. EntryIsFirst'
    BY <2>1 DEF EntryIsFirst
  <2>3. CASE UNCHANGED <<functions, claimed>>
    BY <2>1, <2>2, <2>3 DEF FunctionsAreApart
  <2>4. CASE /\ local # {} /\ claimed' = claimed \union local
             /\ functions' = [a \in DOMAIN functions \union {start} |-> IF a = start THEN local ELSE functions[a]]
    <3>1. start \in local
      BY <2>4 DEF EntryIsFirst
    <3>2. \A a \in DOMAIN functions' : \/ a = start /\ functions'[a] = local
                                       \/ a \in DOMAIN functions /\ functions'[a] = functions[a]
      BY <2>4
    <3>3. \A a \in DOMAIN functions' : a \in functions'[a] /\ functions'[a] \subseteq claimed'
      BY <2>4, <3>1, <3>2
    <3>4. FunctionsAreApart'
      BY <3>2, <3>3 DEF FunctionsAreApart
    <3>5. functions' = [a \in DOMAIN functions' |-> functions'[a]] /\ local' \intersect claimed' = {}
      BY <2>1, <2>4
    <3> QED BY <1>4, <2>2, <3>3, <3>4, <3>5 DEF EndFunction
  <2> QED BY <2>1, <2>3, <2>4
<1>5. CASE UNCHANGED discoverVars
  BY <1>5 DEF discoverVars, found, decoding, EntryIsFirst, FunctionsAreApart
<1> QED BY <1>1, <1>2, <1>3, <1>4, <1>5 DEF DiscoverNext

(* However the functions of an image jump into one another, an instruction
   is one function's at most, and a function begins at its entry
   (discover()). *)
THEOREM FunctionsStayApart == DiscoverSpec => []FunctionsAreApart
<1>1. ApartInv => FunctionsAreApart
  BY DEF ApartInv
<1> QED BY ApartInvInit, ApartInvStep, <1>1, PTL DEF DiscoverSpec

(* A call leads to what is queued or was looked at; what was looked at was
   decoded, or is about to be, unless the instructions ran out. *)
Waiting(a) == \E n \in 1 .. Len(queued) : queued[n] = a

Underway(a) == /\ a = start /\ local = {}
               /\ heads = <<start>> \/ here = start

CallsLead ==
    \A c \in calls :
        /\ \/ c.caller \in DOMAIN functions /\ c.callsite \in functions[c.caller]
           \/ c.caller = start /\ c.callsite \in local
        /\ Mapped(c.callee) => Waiting(c.callee) \/ c.callee \in seen

SeenAreDecoded ==
    \A a \in seen : a \in DOMAIN image => \/ a \in claimed \union local
                                          \/ total >= MaxInstructions
                                          \/ Underway(a)

CalleesInv ==
    /\ ApartInv
    /\ queued \in Seq(Int) /\ total \in Nat
    /\ DOMAIN functions \subseteq seen
    /\ IF start = Nowhere THEN local = {} /\ here = Nowhere
       ELSE start \notin DOMAIN functions /\ start \in seen /\ Mapped(start)
    /\ CallsLead /\ SeenAreDecoded

LEMMA CalleesInvInit == DiscoverInit => CalleesInv
  BY ApartInvInit, ImageAssumption DEF DiscoverInit, CalleesInv, CallsLead, SeenAreDecoded

LEMMA QueueHead == ASSUME NEW q \in Seq(Int), q # <<>>
                   PROVE  /\ Tail(q) \in Seq(Int) /\ Head(q) = q[1] /\ Len(Tail(q)) = Len(q) - 1
                          /\ \A n \in 1 .. Len(q) : n = 1 \/ (n - 1 \in 1 .. Len(Tail(q)) /\ Tail(q)[n - 1] = q[n])
  OBVIOUS

LEMMA QueueEnd == ASSUME NEW q \in Seq(Int), NEW x \in Int
                  PROVE  /\ Append(q, x) \in Seq(Int) /\ Len(Append(q, x)) = Len(q) + 1
                         /\ Append(q, x)[Len(q) + 1] = x /\ Len(q) \in Nat
                         /\ \A n \in 1 .. Len(q) : Append(q, x)[n] = q[n]
  OBVIOUS

LEMMA CalleesInvStep == CalleesInv /\ [DiscoverNext]_discoverVars => CalleesInv'
<1> SUFFICES ASSUME CalleesInv, [DiscoverNext]_discoverVars PROVE CalleesInv'
  OBVIOUS
<1> USE DiscoverAssumption, ImageAssumption
<1>0. ApartInv' /\ image \in Images
  BY ApartInvStep DEF CalleesInv, ApartInv
<1>1. CASE TakeEntry
  <2> DEFINE e == Head(queued)
  <2>1. /\ queued # <<>> /\ queued' = Tail(queued) /\ start = Nowhere /\ local = {} /\ here = Nowhere
        /\ UNCHANGED <<image, functions, claimed, calls, total>>
    BY <1>1 DEF TakeEntry, CalleesInv
  <2>2. queued' \in Seq(Int) /\ \A a : Waiting(a) => a = e \/ Waiting(a)'
    BY <2>1, QueueHead, ZenonT(40) DEF CalleesInv, Waiting
  <2>3. CASE (e \in seen \/ ~Mapped(e)) /\ UNCHANGED <<seen, decoding>>
    <3>1. CallsLead'
      BY <2>1, <2>2, <2>3 DEF CalleesInv, CallsLead, decoding, Mapped
    <3> QED BY <1>0, <2>1, <2>2, <2>3, <3>1 DEF CalleesInv, decoding, SeenAreDecoded, Underway, Mapped
  <2>4. CASE /\ start' = e /\ seen' = seen \union {e} /\ heads' = <<e>> /\ local' = {} /\ here' = Nowhere
             /\ e \notin seen /\ Mapped(e)
    <3>1. CallsLead'
      BY <2>1, <2>2, <2>4 DEF CalleesInv, CallsLead, Mapped
    <3>2. SeenAreDecoded'
      <4>1. ASSUME NEW a \in seen, a \in DOMAIN image PROVE a \in claimed \/ total >= MaxInstructions \/ a = Nowhere
        BY <2>1, <4>1 DEF CalleesInv, SeenAreDecoded, Underway
      <4> QED BY <1>0, <2>1, <2>4, <4>1 DEF SeenAreDecoded, Underway
    <3>3. e # Nowhere
      BY <2>4, NowhereAssumption DEF Mapped
    <3> QED BY <1>0, <2>1, <2>2, <2>4, <3>1, <3>2, <3>3 DEF CalleesInv, Mapped
  <2> QED BY <1>1, <2>3, <2>4 DEF TakeEntry
<1>2. CASE TakeBlock \/ EndBlock
  <2>1. /\ start # Nowhere
        /\ UNCHANGED <<image, queued, seen, functions, claimed, calls, total, start, local>>
    BY <1>2 DEF TakeBlock, EndBlock, found, CalleesInv
  <2>2. CallsLead'
    BY <2>1 DEF CalleesInv, CallsLead, Waiting, Mapped
  <2>3. ASSUME NEW a \in seen, a \in DOMAIN image, Underway(a) PROVE a \in claimed \/ Underway(a)'
    <3>1. CASE TakeBlock
      <4>1. heads = <<start>>
        BY <1>0, <2>1, <2>3, <3>1 DEF TakeBlock, Underway
      <4>2. Head(<<start>>) = start
        OBVIOUS
      <4>3. here' = start
        BY <2>1, <2>3, <3>1, <4>1, <4>2 DEF TakeBlock, Underway, CalleesInv
      <4> QED BY <2>1, <2>3, <4>3 DEF Underway
    <3>2. CASE EndBlock
      BY <2>1, <2>3, <3>2 DEF EndBlock, Underway, Taken, CalleesInv, ApartInv, EntryIsFirst
    <3> QED BY <1>2, <3>1, <3>2
  <2>4. SeenAreDecoded'
    BY <2>1, <2>3 DEF CalleesInv, SeenAreDecoded
  <2> QED BY <1>0, <2>1, <2>2, <2>4 DEF CalleesInv, Mapped
<1>3. CASE Decode
  <2>0. here \in DOMAIN image /\ here # Nowhere /\ image[here].target \in Int
    BY <1>0, <1>3 DEF Decode
  <2> PICK x \in Int : x = image[here].target
    BY <2>0
  <2> DEFINE c == [caller |-> start, callee |-> x, callsite |-> here]
  <2>1. /\ start # Nowhere /\ total < MaxInstructions /\ total' = total + 1 /\ local' = local \union {here}
        /\ UNCHANGED <<image, seen, functions, claimed, start>>
    BY <2>0, <1>3 DEF Decode, CalleesInv
  <2>2. ~Mapped(Nowhere)
    BY NowhereAssumption DEF Mapped
  <2>3. \/ calls' = calls /\ queued' = queued
        \/ /\ calls' = calls \union {c}
           /\ \/ queued' = Append(queued, x)
              \/ queued' = queued /\ (~Mapped(x) \/ x \in seen)
    <3>1. /\ calls' = IF image[here].op = "call" /\ x # Nowhere THEN calls \union {c} ELSE calls
          /\ queued' = IF image[here].op = "call" /\ Mapped(x) /\ x \notin seen THEN Append(queued, x) ELSE queued
      BY <1>3 DEF Decode, Callees
    <3>2. CASE image[here].op = "call" /\ x # Nowhere
      BY <3>1, <3>2 DEF Mapped
    <3>3. CASE ~(image[here].op = "call" /\ x # Nowhere)
      BY <2>2, <3>1, <3>3 DEF Mapped
    <3> QED BY <3>2, <3>3
  <2>4. queued' \in Seq(Int) /\ \A a : Waiting(a) => Waiting(a)'
    <3>1. CASE queued' = queued
      BY <3>1 DEF CalleesInv, Waiting
    <3>2. CASE queued' = Append(queued, x)
      BY <3>2, QueueEnd, SMTT(30) DEF CalleesInv, Waiting
    <3> QED BY <2>3, <3>1, <3>2
  <2>5. calls' # calls /\ Mapped(x) => Waiting(x)' \/ x \in seen
    <3>1. CASE queued' = Append(queued, x)
      <4>1. Len(queued') \in Nat \ {0} /\ queued'[Len(queued')] = x
        BY <3>1, QueueEnd DEF CalleesInv
      <4> QED BY <4>1 DEF Waiting
    <3> QED BY <2>3, <3>1
  <2>6. \A d \in calls : /\ \/ d.caller \in DOMAIN functions' /\ d.callsite \in functions'[d.caller]
                            \/ d.caller = start' /\ d.callsite \in local'
                         /\ Mapped(d.callee)' => Waiting(d.callee)' \/ d.callee \in seen'
    BY <2>1, <2>4 DEF CalleesInv, CallsLead, Mapped
  <2>7. CallsLead'
    BY <2>1, <2>3, <2>5, <2>6 DEF CallsLead, Mapped
  <2>8. SeenAreDecoded'
    <3>1. ASSUME Underway(start) PROVE here = start
      BY <2>0, <2>1, <3>1 DEF Underway, CalleesInv, ApartInv, EntryIsFirst
    <3>2. ASSUME NEW a \in seen, a \in DOMAIN image PROVE a \in claimed' \union local'
      BY <2>1, <3>1, <3>2 DEF CalleesInv, SeenAreDecoded, Underway
    <3> QED BY <2>1, <3>2 DEF SeenAreDecoded
  <2> QED BY <1>0, <2>1, <2>4, <2>7, <2>8 DEF CalleesInv, Mapped
<1>4. CASE EndFunction
  <2>1. /\ start # Nowhere /\ start' = Nowhere /\ local' = {} /\ here' = Nowhere /\ here = Nowhere
        /\ heads = <<>> \/ total >= MaxInstructions
        /\ UNCHANGED <<image, queued, seen, calls, total>>
    BY <1>4 DEF EndFunction
  <2>2. /\ \A a \in DOMAIN functions : a \in DOMAIN functions' /\ functions'[a] = functions[a]
        /\ DOMAIN functions' \subseteq seen /\ claimed' = claimed \union local
        /\ local # {} => start \in DOMAIN functions' /\ functions'[start] = local
    <3>1. CASE local = {}
      BY <1>4, <3>1 DEF EndFunction, CalleesInv
    <3>2. CASE local # {}
      BY <1>4, <2>1, <3>2 DEF EndFunction, CalleesInv
    <3> QED BY <3>1, <3>2
  <2>3. CallsLead'
    BY <2>1, <2>2 DEF CalleesInv, CallsLead, Waiting, Mapped
  <2>4. ASSUME NEW a \in seen, a \in DOMAIN image PROVE a \in claimed' \/ total >= MaxInstructions
    <3>1. ~Underway(a) \/ total >= MaxInstructions
      BY <2>1 DEF Underway
    <3> QED BY <2>2, <2>4, <3>1 DEF CalleesInv, SeenAreDecoded
  <2>5. SeenAreDecoded'
    BY <2>1, <2>4 DEF SeenAreDecoded
  <2> QED BY <1>0, <2>1, <2>2, <2>3, <2>5 DEF CalleesInv
<1>5. CASE UNCHANGED discoverVars
  BY <1>0, <1>5 DEF discoverVars, found, decoding, CalleesInv, CallsLead, SeenAreDecoded, Underway, Waiting, Mapped
<1> QED BY <1>1, <1>2, <1>3, <1>4, <1>5 DEF DiscoverNext

(* When the discovery ends below its limits, every call in it leads into
   code that was decoded, unless it leads out of the image, and it is in
   the function it is told to be in (discover()). *)
THEOREM CalleesAreDecoded == DiscoverSpec => []CalleesAreFound
<1>1. CalleesInv => CalleesAreFound
  <2> SUFFICES ASSUME CalleesInv, Discovered, queued = <<>>, total < MaxInstructions, NEW c \in calls
               PROVE  /\ c.caller \in DOMAIN functions /\ c.callsite \in functions[c.caller]
                      /\ Mapped(c.callee) /\ c.callee \in DOMAIN image => c.callee \in claimed
    BY DEF CalleesAreFound
  <2>1. start = Nowhere /\ local = {} /\ total \in Nat /\ ~(total >= MaxInstructions)
    BY DiscoverAssumption DEF CalleesInv, Discovered
  <2>2. ~Waiting(c.callee)
    BY DEF Waiting
  <2>3. Nowhere \notin DOMAIN image
    BY ImageAssumption DEF CalleesInv, ApartInv
  <2> QED BY <2>1, <2>2, <2>3 DEF CalleesInv, CallsLead, SeenAreDecoded, Underway
<1> QED BY CalleesInvInit, CalleesInvStep, <1>1, PTL DEF DiscoverSpec

-----------------------------------------------------------------------------
(* The rate limits. *)

\* A bucket nobody straddled is counted in the row, or was not used yet; and a
\* row that is full stands for the limit.
CallsAreCounted ==
    \A b \in Buckets \ straddled :
        /\ b > now => admitted[b] = 0 /\ row.bucket # b
        /\ row.bucket = b => admitted[b] = IF row.count <= Limit THEN row.count ELSE Limit
        /\ b = now /\ row.bucket # b => admitted[b] = 0
        /\ admitted[b] <= Limit

\* A row never stands for more calls than its bucket admitted, and threads do not
\* know the future.
RowIsBacked ==
    /\ row.count <= Limit => row.count <= admitted[row.bucket]
    /\ row.count > Limit => admitted[row.bucket] >= Limit
    /\ row.bucket <= now
    /\ \A t \in Threads : read[t] <= now

RateInv == RateTypeOK /\ CallsAreCounted /\ RowIsBacked /\ RefusedMeansFull

\* The initial states.
LEMMA RateInitHolds == RateInit => RateInv
BY LimitAssumption, BucketAssumption
   DEF RateInit, RateInv, RateTypeOK, CallsAreCounted, RowIsBacked, RefusedMeansFull, Buckets

\* What a call writes back.
LEMMA CountBound ==
    ASSUME RateTypeOK, NEW b \in Buckets
    PROVE  /\ Count(b) \in 1 .. Limit + 1
           /\ row.bucket # b => Count(b) = 1
           /\ row.bucket = b => Count(b) = OneMore
BY LimitAssumption, BucketAssumption DEF RateTypeOK, Count, OneMore, Removed, Buckets

\* What a call that counts c in bucket b leaves behind: an admission or a refusal.
LEMMA RateCallKeeps ==
    ASSUME RateInv, NEW b \in Buckets, NEW c \in 1 .. Limit + 1, b <= now,
           row.bucket # b => c = 1,
           row.bucket = b => c = IF row.count > Limit THEN row.count ELSE row.count + 1,
           row' = [bucket |-> b, count |-> c],
           \/ c <= Limit /\ admitted' = [admitted EXCEPT ![b] = admitted[b] + 1] /\ refused' = refused
           \/ c > Limit /\ admitted' = admitted /\ refused' = refused \cup {b},
           straddled' = IF b = now THEN straddled ELSE straddled \cup {b, now},
           now' = now, read' = read, waiting' \subseteq waiting
    PROVE  RateInv'
<1>2. row'.bucket = b /\ row'.count = c
  OBVIOUS
<1>3. \A x \in Buckets : admitted'[x] = IF x = b /\ c <= Limit THEN admitted[x] + 1 ELSE admitted[x]
  <2> SUFFICES ASSUME NEW x \in Buckets
               PROVE  admitted'[x] = IF x = b /\ c <= Limit THEN admitted[x] + 1 ELSE admitted[x]
    OBVIOUS
  <2>1. x \in DOMAIN admitted /\ Limit \in Nat
    BY LimitAssumption DEF RateInv, RateTypeOK
  <2>2. CASE c <= Limit
    BY <2>1, <2>2
  <2>3. CASE c > Limit
    BY <2>1, <2>3
  <2> QED BY <2>1, <2>2, <2>3
<1> USE LimitAssumption, BucketAssumption
<1> USE DEF RateInv, RateTypeOK, Buckets
<1>1. RateTypeOK'
  <2>1. row' \in [bucket: Buckets, count: 0 .. Limit + 1]
    <3>1. c \in 0 .. Limit + 1 OBVIOUS
    <3> QED BY <3>1, SMTT(30)
  <2>2. admitted' \in [Buckets -> Nat]
    <3>1. admitted \in [Buckets -> Nat] /\ admitted[b] + 1 \in Nat OBVIOUS
    <3>2. [admitted EXCEPT ![b] = admitted[b] + 1] \in [Buckets -> Nat] BY <3>1
    <3> QED BY <3>1, <3>2
  <2>3. straddled' \subseteq Buckets /\ refused' \subseteq Buckets OBVIOUS
  <2> QED BY <2>1, <2>2, <2>3
<1>4. CallsAreCounted'
  <2> SUFFICES ASSUME NEW x \in Buckets, x \notin straddled'
               PROVE  /\ x > now => admitted'[x] = 0 /\ b # x
                      /\ b = x => admitted'[x] = IF c <= Limit THEN c ELSE Limit
                      /\ x = now /\ b # x => admitted'[x] = 0
                      /\ admitted'[x] <= Limit
    BY <1>2 DEF CallsAreCounted
  <2>1. x \notin straddled
    OBVIOUS
  <2>2. x = b => b = now
    OBVIOUS
  <2>3. /\ x > now => admitted[x] = 0 /\ row.bucket # x
        /\ row.bucket = x => admitted[x] = IF row.count <= Limit THEN row.count ELSE Limit
        /\ x = now /\ row.bucket # x => admitted[x] = 0
        /\ admitted[x] \in Nat /\ admitted[x] <= Limit
    BY <2>1 DEF CallsAreCounted
  <2>4. row.count \in 0 .. Limit + 1 /\ Limit \in Nat /\ x \in Nat /\ now \in Nat /\ b \in Nat
    OBVIOUS
  <2>5. admitted'[x] = IF x = b /\ c <= Limit THEN admitted[x] + 1 ELSE admitted[x]
    BY <1>3
  <2> HIDE DEF RateInv, RateTypeOK, Buckets
  <2>6. CASE x = b
    BY <2>2, <2>3, <2>4, <2>5, <2>6
  <2>7. CASE x # b
    BY <2>3, <2>4, <2>5, <2>7
  <2> QED BY <2>6, <2>7
<1>5. RowIsBacked'
  <2>1. admitted[b] \in Nat /\ row.count \in 0 .. Limit + 1
    OBVIOUS
  <2>2. admitted'[b] = IF c <= Limit THEN admitted[b] + 1 ELSE admitted[b]
    BY <1>3
  <2>3. row.bucket = b => (row.count <= Limit => row.count <= admitted[b]) /\ (row.count > Limit => admitted[b] >= Limit)
    BY DEF RowIsBacked
  <2>4. \A t \in Threads : read'[t] <= now'
    BY DEF RowIsBacked
  <2> HIDE DEF RateInv, RateTypeOK, Buckets
  <2>5. (c <= Limit => c <= admitted'[b]) /\ (c > Limit => admitted'[b] >= Limit)
    BY <2>1, <2>2, <2>3
  <2> QED BY <1>2, <2>4, <2>5 DEF RowIsBacked
<1>6. RefusedMeansFull'
  <2>1. c > Limit => admitted[b] >= Limit
    BY DEF RowIsBacked
  <2>2. \A x \in refused' : x \in refused \/ (x = b /\ c > Limit)
    OBVIOUS
  <2>3. \A x \in Buckets : admitted[x] >= Limit => admitted'[x] >= Limit
    <3>1. \A x \in Buckets : admitted[x] \in Nat
      OBVIOUS
    <3> HIDE DEF RateInv, RateTypeOK
    <3> QED BY <1>3, <3>1
  <2> QED BY <2>1, <2>2, <2>3 DEF RefusedMeansFull
<1> QED BY <1>1, <1>4, <1>5, <1>6

\* Every step keeps the invariant.
LEMMA RateStepKeeps == RateInv /\ [RateNext]_rateVars => RateInv'
<1> SUFFICES ASSUME RateInv, [RateNext]_rateVars PROVE RateInv' OBVIOUS
<1> USE LimitAssumption, BucketAssumption
<1>1. CASE Tick
  <2>1. now' = now + 1 /\ now' \in Buckets /\ UNCHANGED <<row, read, waiting, admitted, refused, straddled>>
    BY <1>1 DEF Tick, RateInv, RateTypeOK, Buckets
  <2>2. RateTypeOK' /\ RefusedMeansFull'
    BY <2>1 DEF RateInv, RateTypeOK, RefusedMeansFull, Buckets
  <2>3. CallsAreCounted'
    BY <2>1 DEF RateInv, RateTypeOK, CallsAreCounted, RowIsBacked, Buckets
  <2>4. RowIsBacked'
    BY <2>1 DEF RateInv, RateTypeOK, RowIsBacked, Buckets
  <2> QED BY <2>2, <2>3, <2>4 DEF RateInv
<1>2. ASSUME NEW t \in Threads, ReadClock(t) PROVE RateInv'
  <2>1. read' = [read EXCEPT ![t] = now] /\ waiting' = waiting \cup {t} /\ UNCHANGED <<now, row, admitted, refused, straddled>>
    BY <1>2 DEF ReadClock
  <2>2. RateTypeOK'
    BY <2>1 DEF RateInv, RateTypeOK
  <2>3. CallsAreCounted' /\ RefusedMeansFull'
    BY <2>1 DEF RateInv, CallsAreCounted, RefusedMeansFull
  <2>4. \A u \in Threads : read'[u] <= now'
    BY <2>1 DEF RateInv, RateTypeOK, RowIsBacked, Buckets
  <2>5. RowIsBacked'
    BY <2>1, <2>4 DEF RateInv, RowIsBacked
  <2> QED BY <2>2, <2>3, <2>5 DEF RateInv
<1>3. ASSUME NEW t \in Threads, Call(t) PROVE RateInv'
  <2>1. read[t] \in Buckets /\ read[t] <= now
    BY DEF RateInv, RateTypeOK, RowIsBacked
  <2>2. /\ Count(read[t]) \in 1 .. Limit + 1
        /\ row.bucket # read[t] => Count(read[t]) = 1
        /\ row.bucket = read[t] => Count(read[t]) = IF row.count > Limit THEN row.count ELSE row.count + 1
    BY <2>1, CountBound DEF OneMore, RateInv
  <2>3. /\ row' = [bucket |-> read[t], count |-> Count(read[t])]
        /\ \/ /\ Count(read[t]) <= Limit
              /\ admitted' = [admitted EXCEPT ![read[t]] = admitted[read[t]] + 1]
              /\ refused' = refused
           \/ Count(read[t]) > Limit /\ admitted' = admitted /\ refused' = refused \cup {read[t]}
        /\ straddled' = IF read[t] = now THEN straddled ELSE straddled \cup {read[t], now}
        /\ waiting' \subseteq waiting /\ now' = now /\ read' = read
    BY <1>3, <2>2 DEF Call
  <2> QED BY <2>1, <2>2, <2>3, RateCallKeeps
<1>4. CASE UNCHANGED rateVars
  BY <1>4 DEF rateVars, RateInv, RateTypeOK, CallsAreCounted, RowIsBacked, RefusedMeansFull
<1> QED BY <1>1, <1>2, <1>3, <1>4 DEF RateNext

LEMMA RateInvariance == RateSpec => []RateInv
BY RateInitHolds, RateStepKeeps, PTL DEF RateSpec

-----------------------------------------------------------------------------
\* The row, the callers and the history of rate() are well typed.
THEOREM RateTypeCorrect == RateSpec => []RateTypeOK
<1>1. RateInv => RateTypeOK BY DEF RateInv
<1> QED BY <1>1, RateInvariance, PTL

\* rate() admits no more than the limit in a bucket that no call straddles.
THEOREM LimitsHold == RateSpec => []LimitHolds
<1>1. RateInv => LimitHolds
  BY LimitAssumption DEF RateInv, RateTypeOK, CallsAreCounted, LimitHolds, Buckets
<1> QED BY <1>1, RateInvariance, PTL

\* rate() refuses a call only in a bucket that admitted its limit.
THEOREM RefusalsAreDeserved == RateSpec => []RefusedMeansFull
<1>1. RateInv => RefusedMeansFull BY DEF RateInv
<1> QED BY <1>1, RateInvariance, PTL

-----------------------------------------------------------------------------
(* The corpus index. *)

Held == {file, source} \cup {digest[i] : i \in Ingesters} \cup {taken[i] : i \in Ingesters}

IndexTyped ==
    /\ version \in 0 .. MaxVersion
    /\ file \in Seq(Piece) /\ source \in Seq(Piece)
    /\ digest \in [Ingesters -> Seq(Piece)] /\ taken \in [Ingesters -> Seq(Piece)]
    /\ Len(file) <= 2 * Lines /\ Len(source) <= 2 * Lines
    /\ \A i \in Ingesters : Len(digest[i]) <= 2 * Lines /\ Len(taken[i]) <= 2 * Lines
    /\ lock \in Ingesters \cup {Nobody}
    /\ at \in [Ingesters -> {"idle", "digest", "waiting", "reading", "done"}]
    /\ \A i \in Ingesters : at[i] = "reading" <=> lock = i
    /\ quiet \subseteq Ingesters

\* What s holds at each place was written for that place, by no later version
\* than v, and by no later version than what follows it.
Grown(s, v) ==
    /\ \A k \in 1 .. Len(s) : s[k][2] = k /\ s[k][1] <= v
    /\ \A j, k \in 1 .. Len(s) : j <= k => s[j][1] <= s[k][1]

\* The file itself is of one version.
Whole == \A k \in 1 .. Len(file) : file[k] = <<version, k>>

\* The second pass begins after the first one: it meets no older version.
Passes ==
    \A i \in Ingesters :
        /\ Grown(digest[i], version) /\ Grown(taken[i], version)
        /\ \A j \in 1 .. Len(digest[i]), k \in 1 .. Len(taken[i]) : digest[i][j][1] <= taken[i][k][1]
        /\ at[i] # "reading" => taken[i] = <<>>
        /\ at[i] \in {"idle", "done"} => digest[i] = <<>>

Leading(s) == Len(s) <= Len(file) /\ \A k \in 1 .. Len(s) : s[k] = file[k]

\* While the file rests, whoever reads it has read a part of it, and whoever
\* begins to read after an ingest is done reads what that one has indexed.
Rested ==
    \A i \in quiet :
        /\ at[i] = "digest" => Leading(digest[i])
        /\ at[i] \in {"waiting", "reading"} => digest[i] = file
        /\ at[i] = "reading" => Leading(taken[i])
        /\ at[i] = "done" => /\ source = file
                             /\ \A q \in Ingesters : at[q] = "reading" => Leading(taken[q])

IndexInv == IndexTyped /\ Whole /\ Passes /\ IndexIsOneVersion /\ Rested

-----------------------------------------------------------------------------
\* A piece is its version and its place.
LEMMA PieceIs ==
    /\ \A p \in Piece : p = <<p[1], p[2]>> /\ p[1] \in 1 .. MaxVersion /\ p[2] \in 1 .. 2 * Lines
    /\ \A v \in 1 .. MaxVersion, k \in 1 .. 2 * Lines : <<v, k>> \in Piece
BY DEF Piece

\* One more piece of the file, which is of the youngest version.
LEMMA MoreGrows ==
    ASSUME IndexTyped, Whole, NEW s \in Seq(Piece), Grown(s, version), ~AtEnd(s)
    PROVE  /\ More(s) \in Seq(Piece)
           /\ Len(More(s)) = Len(s) + 1 /\ Len(s) + 1 <= Len(file)
           /\ \A k \in 1 .. Len(s) : More(s)[k] = s[k]
           /\ More(s)[Len(s) + 1] = file[Len(s) + 1]
           /\ More(s)[Len(s) + 1][1] = version
           /\ Grown(More(s), version)
<1> USE LinesAssumption, VersionAssumption
<1>1. Len(s) \in Nat /\ Len(file) \in Nat /\ Len(s) + 1 <= Len(file)
  BY DEF AtEnd, IndexTyped
<1>2. file[Len(s) + 1] = <<version, Len(s) + 1>> /\ file[Len(s) + 1] \in Piece
  BY <1>1 DEF Whole, IndexTyped
<1>3. /\ More(s) \in Seq(Piece) /\ Len(More(s)) = Len(s) + 1
      /\ \A k \in 1 .. Len(s) : More(s)[k] = s[k]
      /\ More(s)[Len(s) + 1] = <<version, Len(s) + 1>>
  BY <1>1, <1>2 DEF More
<1>4. \A k \in 1 .. Len(More(s)) : k \in 1 .. Len(s) \/ k = Len(s) + 1
  BY <1>1, <1>3
<1>5. More(s)[Len(s) + 1][1] = version /\ More(s)[Len(s) + 1][2] = Len(s) + 1
  BY <1>3
<1>6. \A k \in 1 .. Len(More(s)) : More(s)[k][2] = k /\ More(s)[k][1] <= version
  <2> SUFFICES ASSUME NEW k \in 1 .. Len(More(s)) PROVE More(s)[k][2] = k /\ More(s)[k][1] <= version
    OBVIOUS
  <2>1. CASE k = Len(s) + 1
    BY <2>1, <1>5 DEF IndexTyped
  <2>2. CASE k \in 1 .. Len(s)
    BY <2>2, <1>3 DEF Grown
  <2> QED BY <2>1, <2>2, <1>4
<1>7. \A j, k \in 1 .. Len(More(s)) : j <= k => More(s)[j][1] <= More(s)[k][1]
  <2> SUFFICES ASSUME NEW j \in 1 .. Len(More(s)), NEW k \in 1 .. Len(More(s)), j <= k
               PROVE  More(s)[j][1] <= More(s)[k][1]
    OBVIOUS
  <2>1. CASE k = Len(s) + 1
    BY <2>1, <1>5, <1>6
  <2>2. CASE k \in 1 .. Len(s)
    BY <2>2, <1>3, <1>1 DEF Grown
  <2> QED BY <2>1, <2>2, <1>4
<1> QED BY <1>1, <1>2, <1>3, <1>5, <1>6, <1>7 DEF Grown

\* A content that both passes met is one version from its start.
LEMMA BothPasses ==
    ASSUME NEW s \in Seq(Piece), \A k \in 1 .. Len(s) : s[k][2] = k,
           \A j, k \in 1 .. Len(s) : s[j][1] <= s[k][1]
    PROVE  \E v \in 0 .. MaxVersion : \A k \in 1 .. Len(s) : s[k] = <<v, k>>
<1> USE LinesAssumption, VersionAssumption
<1>1. CASE Len(s) = 0
  <2>1. 0 \in 0 .. MaxVersion /\ \A k \in 1 .. Len(s) : s[k] = <<0, k>>
    BY <1>1
  <2> QED BY <2>1
<1>2. CASE Len(s) # 0
  <2>1. 1 \in 1 .. Len(s) /\ \A k \in 1 .. Len(s) : s[k] \in Piece
    BY <1>2
  <2>2. \A k \in 1 .. Len(s) : s[k] = <<s[k][1], s[k][2]>> /\ s[k][1] \in 1 .. MaxVersion
    BY <2>1, PieceIs
  <2>3. \A k \in 1 .. Len(s) : s[k][1] = s[1][1]
    BY <2>1, <2>2
  <2>4. s[1][1] \in 0 .. MaxVersion /\ \A k \in 1 .. Len(s) : s[k] = <<s[1][1], k>>
    BY <2>1, <2>2, <2>3
  <2> QED BY <2>4
<1> QED BY <1>1, <1>2

\* The initial states.
LEMMA IndexInitHolds == IndexInit => IndexInv
<1> SUFFICES ASSUME IndexInit PROVE IndexInv OBVIOUS
<1> USE LinesAssumption, VersionAssumption, NobodyAssumption
<1>1. IndexTyped
  BY DEF IndexInit, IndexTyped
<1>2. Whole /\ Passes /\ Rested
  BY DEF IndexInit, Whole, Passes, Rested, Grown
<1>3. IndexIsOneVersion
  <2>1. LinesOf(<<>>) = {}
    <3>1. Len(<<>>) \div 2 = 0
      OBVIOUS
    <3> QED BY <3>1 DEF LinesOf
  <2>2. 0 \in 0 .. MaxVersion
    OBVIOUS
  <2> QED BY <2>1, <2>2 DEF IndexInit, IndexIsOneVersion
<1> QED BY <1>1, <1>2, <1>3 DEF IndexInv

-----------------------------------------------------------------------------
\* The writer changes nothing but the file: what readers hold only gets older.
LEMMA WriterKeeps ==
    ASSUME IndexInv, Truncate \/ Flush PROVE IndexInv'
<1> USE LinesAssumption, VersionAssumption
<1>1. /\ UNCHANGED <<lock, source, rows, at, digest, taken>> /\ quiet' = {}
      /\ version' \in 0 .. MaxVersion /\ version <= version'
      /\ file' \in Seq(Piece) /\ Len(file') <= 2 * Lines
      /\ \A k \in 1 .. Len(file') : file'[k] = <<version', k>>
  <2> USE DEF committed
  <2>1. CASE Truncate
    BY <2>1 DEF Truncate, IndexInv, IndexTyped
  <2>2. CASE Flush
    <3>1. /\ version \in 1 .. MaxVersion /\ Len(file) + 1 \in 1 .. 2 * Lines
          /\ <<version, Len(file) + 1>> \in Piece
      BY <2>2, PieceIs DEF Flush, IndexInv, IndexTyped
    <3>2. /\ UNCHANGED <<lock, source, rows, at, digest, taken, version>> /\ quiet' = {}
          /\ file' = Append(file, <<version, Len(file) + 1>>)
      BY <2>2 DEF Flush
    <3>3. file' \in Seq(Piece) /\ Len(file') = Len(file) + 1
      BY <3>1, <3>2 DEF IndexInv, IndexTyped
    <3>4. /\ \A k \in 1 .. Len(file) : file'[k] = file[k]
          /\ file'[Len(file) + 1] = <<version, Len(file) + 1>>
      BY <3>1, <3>2 DEF IndexInv, IndexTyped
    <3>5. \A k \in 1 .. Len(file') : file'[k] = <<version, k>>
      <4> SUFFICES ASSUME NEW k \in 1 .. Len(file') PROVE file'[k] = <<version, k>>
        OBVIOUS
      <4>1. k \in 1 .. Len(file) \/ k = Len(file) + 1
        BY <3>1, <3>3
      <4> QED BY <4>1, <3>4 DEF IndexInv, Whole
    <3> QED BY <3>1, <3>2, <3>3, <3>5 DEF IndexInv, IndexTyped
  <2> QED BY <2>1, <2>2
<1>2. IndexTyped'
  BY <1>1 DEF IndexInv, IndexTyped
<1>3. Whole'
  BY <1>1 DEF Whole
<1>4. Passes'
  <2>1. \A s \in Seq(Piece) : Grown(s, version) => Grown(s, version')
    <3> SUFFICES ASSUME NEW s \in Seq(Piece), Grown(s, version), NEW k \in 1 .. Len(s)
                 PROVE  s[k][1] <= version'
      BY DEF Grown
    <3>1. s[k] \in Piece /\ s[k][1] <= version
      BY DEF Grown
    <3>2. s[k][1] \in 1 .. MaxVersion
      BY <3>1, PieceIs
    <3> QED BY <3>1, <3>2, <1>1 DEF IndexInv, IndexTyped
  <2>2. \A i \in Ingesters : Grown(digest[i], version') /\ Grown(taken[i], version')
    BY <2>1 DEF IndexInv, IndexTyped, Passes
  <2> QED BY <2>2, <1>1 DEF IndexInv, Passes
<1>5. IndexIsOneVersion'
  BY <1>1 DEF IndexInv, IndexIsOneVersion, LinesOf
<1>6. Rested'
  BY <1>1 DEF Rested
<1> QED BY <1>2, <1>3, <1>4, <1>5, <1>6 DEF IndexInv

\* What a step leaves of the invariant that changes neither the file nor the index.
LEMMA SameFile ==
    ASSUME IndexInv, UNCHANGED <<version, file, source, rows>>
    PROVE  Whole' /\ IndexIsOneVersion'
BY DEF IndexInv, Whole, IndexIsOneVersion, LinesOf

\* A process that goes on to l, without a read.
LEMMA SamePasses ==
    ASSUME IndexInv, UNCHANGED <<version, digest, taken>>, NEW i \in Ingesters, NEW l,
           at' = [at EXCEPT ![i] = l], taken[i] = <<>>, l \in {"idle", "done"} => digest[i] = <<>>
    PROVE  Passes'
<1> SUFFICES ASSUME NEW q \in Ingesters
             PROVE  /\ at'[q] # "reading" => taken[q] = <<>>
                    /\ at'[q] \in {"idle", "done"} => digest[q] = <<>>
  BY DEF IndexInv, Passes, Grown
<1>1. at'[q] = IF q = i THEN l ELSE at[q]
  BY DEF IndexInv, IndexTyped
<1> QED BY <1>1 DEF IndexInv, Passes

\* A content of the length of the file that begins like it is the file.
LEMMA WholeFile ==
    ASSUME IndexTyped, NEW s \in Seq(Piece), Leading(s), AtEnd(s) PROVE s = file
<1>1. Len(s) = Len(file) /\ \A k \in 1 .. Len(s) : s[k] = file[k]
  BY DEF Leading, AtEnd, IndexTyped
<1> QED BY <1>1, SeqEqual DEF IndexTyped

\* Opening the file and reading it for its digest.
LEMMA HashKeeps ==
    ASSUME IndexInv, NEW i \in Ingesters, Open(i) \/ Hash(i) PROVE IndexInv'
<1> USE LinesAssumption, VersionAssumption
<1>1. CASE Open(i)
  <2>1. /\ UNCHANGED <<version, file, lock, source, rows, digest, taken>>
        /\ at[i] \in {"idle", "done"} /\ at' = [at EXCEPT ![i] = "digest"]
        /\ quiet' = quiet \cup {i}
    BY <1>1 DEF Open, IngestAt, committed
  <2>2. IndexTyped'
    BY <2>1 DEF IndexInv, IndexTyped
  <2>3. digest[i] = <<>> /\ taken[i] = <<>>
    BY <2>1 DEF IndexInv, Passes
  <2>4. Rested'
    BY <2>1, <2>3 DEF IndexInv, IndexTyped, Rested, Leading
  <2>5. Passes'
    BY <2>1, <2>3, SamePasses DEF IndexInv, Passes
  <2> QED BY <2>1, <2>2, <2>4, <2>5, SameFile DEF IndexInv
<1>2. CASE Hash(i) /\ AtEnd(digest[i])
  <2>1. /\ UNCHANGED <<version, file, lock, source, rows, digest, taken, quiet>>
        /\ at[i] = "digest" /\ at' = [at EXCEPT ![i] = "waiting"]
    BY <1>2 DEF Hash, IngestAt, committed
  <2>2. IndexTyped'
    BY <2>1 DEF IndexInv, IndexTyped
  <2>3. Leading(digest[i]) => digest[i] = file
    BY <1>2, WholeFile DEF IndexInv, IndexTyped
  <2>4. Rested'
    BY <2>1, <2>3 DEF IndexInv, IndexTyped, Rested, Leading
  <2>5. Passes'
    BY <2>1, <2>3, SamePasses DEF IndexInv, Passes
  <2> QED BY <2>1, <2>2, <2>4, <2>5, SameFile DEF IndexInv
<1>3. CASE Hash(i) /\ ~AtEnd(digest[i])
  <2>1. /\ UNCHANGED <<version, file, lock, source, rows, at, taken, quiet>>
        /\ at[i] = "digest" /\ digest' = [digest EXCEPT ![i] = More(digest[i])]
    BY <1>3 DEF Hash, committed
  <2>2. digest[i] \in Seq(Piece) /\ Grown(digest[i], version) /\ taken[i] = <<>>
    BY <2>1 DEF IndexInv, IndexTyped, Passes
  <2> HIDE <1>3
  <2> DEFINE d == digest[i]
  <2>3. /\ More(d) \in Seq(Piece) /\ Grown(More(d), version)
        /\ Len(More(d)) = Len(d) + 1 /\ Len(d) + 1 <= Len(file)
        /\ \A k \in 1 .. Len(d) : More(d)[k] = d[k]
        /\ More(d)[Len(d) + 1] = file[Len(d) + 1]
    BY <1>3, <2>2, MoreGrows DEF IndexInv
  <2>4. IndexTyped'
    <3>1. digest' \in [Ingesters -> Seq(Piece)]
      BY <2>1, <2>3 DEF IndexInv, IndexTyped
    <3>2. \A q \in Ingesters : Len(digest'[q]) <= 2 * Lines
      <4>1. Len(More(d)) <= 2 * Lines
        BY <2>2, <2>3 DEF IndexInv, IndexTyped
      <4> QED BY <2>1, <4>1 DEF IndexInv, IndexTyped
    <3> QED BY <2>1, <3>1, <3>2 DEF IndexInv, IndexTyped
  <2>5. Passes'
    <3>1. \A q \in Ingesters : digest'[q] = IF q = i THEN More(d) ELSE digest[q]
      BY <2>1 DEF IndexInv, IndexTyped
    <3> QED BY <2>1, <2>2, <2>3, <3>1 DEF IndexInv, Passes, Grown
  <2>6. Leading(d) => Leading(More(d))
    <3> SUFFICES ASSUME Leading(d), NEW k \in 1 .. Len(More(d)) PROVE More(d)[k] = file[k]
      BY <2>3 DEF Leading, IndexInv, IndexTyped
    <3>1. k \in 1 .. Len(d) \/ k = Len(d) + 1
      BY <2>2, <2>3
    <3> QED BY <3>1, <2>3 DEF Leading
  <2>7. Rested'
    BY <2>1, <2>6 DEF IndexInv, IndexTyped, Rested, Leading
  <2> QED BY <2>1, <2>4, <2>5, <2>7, SameFile DEF IndexInv
<1> QED BY <1>1, <1>2, <1>3

\* The transaction: it begins for one process at a time.
LEMMA BeginKeeps ==
    ASSUME IndexInv, NEW i \in Ingesters, Begin(i) PROVE IndexInv'
<1> USE LinesAssumption, VersionAssumption, NobodyAssumption
<1>1. at[i] = "waiting" /\ lock = Nobody /\ UNCHANGED <<version, file, source, rows, quiet>>
  BY DEF Begin
<1>2. taken[i] = <<>> /\ \A q \in Ingesters : at[q] # "reading"
  BY <1>1 DEF IndexInv, IndexTyped, Passes
<1>3. CASE Known(i)
  <2>1. /\ at' = [at EXCEPT ![i] = "done"] /\ lock' = Nobody
        /\ digest' = [digest EXCEPT ![i] = <<>>] /\ taken' = [taken EXCEPT ![i] = <<>>]
        /\ source = digest[i]
    BY <1>1, <1>3 DEF Begin, IngestEnds, IngestAt, Known
  <2>2. IndexTyped'
    BY <1>1, <1>2, <2>1 DEF IndexInv, IndexTyped
  <2>3. Passes'
    <3>1. \A q \in Ingesters : /\ at'[q] = IF q = i THEN "done" ELSE at[q]
                               /\ digest'[q] = IF q = i THEN <<>> ELSE digest[q]
                               /\ taken'[q] = taken[q]
      BY <1>2, <2>1 DEF IndexInv, IndexTyped
    <3> QED BY <3>1, <1>1, <1>2 DEF IndexInv, Passes, Grown
  <2>4. Rested'
    <3>1. \A q \in Ingesters : /\ at'[q] = IF q = i THEN "done" ELSE at[q]
                               /\ digest'[q] = IF q = i THEN <<>> ELSE digest[q]
                               /\ taken'[q] = taken[q]
      BY <1>2, <2>1 DEF IndexInv, IndexTyped
    <3>2. i \in quiet => source = file
      BY <1>1, <2>1 DEF IndexInv, Rested
    <3>3. \A q \in Ingesters : at'[q] # "reading"
      BY <3>1, <1>2
    <3>4. \A q \in quiet : /\ at'[q] = "digest" => Leading(digest'[q])
                           /\ at'[q] = "waiting" => digest'[q] = file
                           /\ at'[q] = "done" => source = file
      BY <3>1, <3>2 DEF IndexInv, IndexTyped, Rested
    <3> QED BY <3>3, <3>4, <1>1 DEF IndexInv, IndexTyped, Rested, Leading
  <2> QED BY <1>1, <2>2, <2>3, <2>4, SameFile DEF IndexInv
<1>4. CASE ~Known(i)
  <2>1. at' = [at EXCEPT ![i] = "reading"] /\ lock' = i /\ UNCHANGED <<digest, taken>>
    BY <1>1, <1>4 DEF Begin, IngestAt
  <2>2. IndexTyped'
    BY <1>1, <1>2, <2>1 DEF IndexInv, IndexTyped
  <2>3. Passes'
    BY <1>1, <1>2, <2>1, SamePasses
  <2>4. Rested'
    <3>1. \A q \in Ingesters : at'[q] = IF q = i THEN "reading" ELSE at[q]
      BY <2>1 DEF IndexInv, IndexTyped
    <3>2. Leading(taken[i])
      BY <1>2 DEF Leading, IndexInv, IndexTyped
    <3> QED BY <3>1, <3>2, <1>1, <1>2, <2>1 DEF IndexInv, IndexTyped, Rested, Leading
  <2> QED BY <1>1, <2>2, <2>3, <2>4, SameFile DEF IndexInv
<1> QED BY <1>3, <1>4

\* A read of the second pass.
LEMMA ReadKeeps ==
    ASSUME IndexInv, NEW i \in Ingesters, Read(i) PROVE IndexInv'
<1> USE LinesAssumption, VersionAssumption, NobodyAssumption
<1> DEFINE s == taken[i]
<1>1. /\ at[i] = "reading" /\ ~AtEnd(s) /\ taken' = [taken EXCEPT ![i] = More(s)]
      /\ UNCHANGED <<version, file, lock, source, rows, at, digest, quiet>>
  BY DEF Read, committed
<1>2. s \in Seq(Piece) /\ Grown(s, version)
  BY DEF IndexInv, IndexTyped, Passes
<1>3. /\ More(s) \in Seq(Piece) /\ Grown(More(s), version)
      /\ Len(More(s)) = Len(s) + 1 /\ Len(s) + 1 <= Len(file)
      /\ \A k \in 1 .. Len(s) : More(s)[k] = s[k]
      /\ More(s)[Len(s) + 1] = file[Len(s) + 1]
      /\ More(s)[Len(s) + 1][1] = version
  BY <1>1, <1>2, MoreGrows DEF IndexInv
<1>4. \A k \in 1 .. Len(More(s)) : k \in 1 .. Len(s) \/ k = Len(s) + 1
  BY <1>2, <1>3
<1>5. \A q \in Ingesters : taken'[q] = IF q = i THEN More(s) ELSE taken[q]
  BY <1>1 DEF IndexInv, IndexTyped
<1>6. IndexTyped'
  <2>1. taken' \in [Ingesters -> Seq(Piece)]
    BY <1>1, <1>3 DEF IndexInv, IndexTyped
  <2>2. Len(More(s)) <= 2 * Lines
    BY <1>2, <1>3 DEF IndexInv, IndexTyped
  <2> QED BY <1>1, <1>5, <2>1, <2>2 DEF IndexInv, IndexTyped
<1>7. Passes'
  <2>1. \A j \in 1 .. Len(digest[i]), k \in 1 .. Len(More(s)) : digest[i][j][1] <= More(s)[k][1]
    BY <1>3, <1>4 DEF IndexInv, Passes, Grown
  <2>2. \A q \in Ingesters :
           /\ Grown(taken'[q], version)
           /\ \A j \in 1 .. Len(digest[q]), k \in 1 .. Len(taken'[q]) : digest[q][j][1] <= taken'[q][k][1]
           /\ at[q] # "reading" => taken'[q] = <<>>
    <3> SUFFICES ASSUME NEW q \in Ingesters
                 PROVE  /\ Grown(taken'[q], version)
                        /\ \A j \in 1 .. Len(digest[q]), k \in 1 .. Len(taken'[q]) : digest[q][j][1] <= taken'[q][k][1]
                        /\ at[q] # "reading" => taken'[q] = <<>>
      OBVIOUS
    <3>1. CASE q = i
      BY <3>1, <1>1, <1>3, <1>5, <2>1
    <3>2. CASE q # i
      BY <3>2, <1>5 DEF IndexInv, Passes
    <3> QED BY <3>1, <3>2
  <2> QED BY <1>1, <2>2 DEF IndexInv, Passes, Grown
<1>8. Leading(s) => Leading(More(s))
  BY <1>3, <1>4 DEF Leading
<1>9. Rested'
  BY <1>1, <1>5, <1>8 DEF IndexInv, IndexTyped, Rested, Leading
<1> QED BY <1>1, <1>6, <1>7, <1>9, SameFile DEF IndexInv

\* The end of the transaction, with or without a commit, and of an ingest before it.
LEMMA EndKeeps ==
    ASSUME IndexInv, NEW i \in Ingesters, Commit(i) \/ RollBack(i) PROVE IndexInv'
<1> USE LinesAssumption, VersionAssumption, NobodyAssumption
<1>1. PICK l \in {"idle", "done"} :
          /\ at' = [at EXCEPT ![i] = l] /\ digest' = [digest EXCEPT ![i] = <<>>]
          /\ taken' = [taken EXCEPT ![i] = <<>>]
          /\ lock' = IF lock = i THEN Nobody ELSE lock
          /\ UNCHANGED <<version, file, quiet>>
          /\ \/ l = "idle" /\ UNCHANGED <<source, rows>>
             \/ /\ l = "done" /\ at[i] = "reading" /\ AtEnd(taken[i]) /\ taken[i] = digest[i]
                /\ source' = taken[i] /\ rows' = LinesOf(taken[i])
  BY DEF Commit, RollBack, Unchanged, IngestEnds, IngestAt, IndexInv, IndexTyped
<1>2. \A q \in Ingesters : /\ at'[q] = IF q = i THEN l ELSE at[q]
                           /\ digest'[q] = IF q = i THEN <<>> ELSE digest[q]
                           /\ taken'[q] = IF q = i THEN <<>> ELSE taken[q]
  BY <1>1 DEF IndexInv, IndexTyped
<1>3. IndexTyped'
  <2>1. <<>> \in Seq(Piece) /\ Len(<<>>) = 0 /\ taken[i] \in Seq(Piece) /\ Len(taken[i]) <= 2 * Lines
    BY DEF IndexInv, IndexTyped
  <2>2. source' \in Seq(Piece) /\ Len(source') <= 2 * Lines
    BY <1>1, <2>1 DEF IndexInv, IndexTyped
  <2>3. digest' \in [Ingesters -> Seq(Piece)] /\ taken' \in [Ingesters -> Seq(Piece)]
    BY <1>1, <2>1 DEF IndexInv, IndexTyped
  <2> QED BY <1>1, <1>2, <2>1, <2>2, <2>3 DEF IndexInv, IndexTyped
<1>4. Passes'
  <2>1. Grown(<<>>, version)
    BY DEF Grown
  <2>2. \A q \in Ingesters :
           /\ Grown(digest'[q], version) /\ Grown(taken'[q], version)
           /\ \A j \in 1 .. Len(digest'[q]), k \in 1 .. Len(taken'[q]) : digest'[q][j][1] <= taken'[q][k][1]
           /\ at'[q] # "reading" => taken'[q] = <<>>
           /\ at'[q] \in {"idle", "done"} => digest'[q] = <<>>
    BY <1>2, <2>1 DEF IndexInv, Passes
  <2> QED BY <1>1, <2>2 DEF Passes
<1>5. Whole'
  BY <1>1 DEF IndexInv, Whole
<1>6. IndexIsOneVersion'
  <2>1. CASE UNCHANGED <<source, rows>>
    BY <2>1 DEF IndexInv, IndexIsOneVersion, LinesOf
  <2>2. CASE taken[i] = digest[i] /\ source' = taken[i] /\ rows' = LinesOf(taken[i])
    <3>1. /\ taken[i] \in Seq(Piece)
          /\ \A k \in 1 .. Len(taken[i]) : taken[i][k][2] = k
          /\ \A j, k \in 1 .. Len(taken[i]) : taken[i][j][1] <= taken[i][k][1]
      BY <2>2 DEF IndexInv, IndexTyped, Passes, Grown
    <3>2. \E v \in 0 .. MaxVersion : \A k \in 1 .. Len(taken[i]) : taken[i][k] = <<v, k>>
      BY <3>1, BothPasses
    <3> QED BY <2>2, <3>2 DEF IndexIsOneVersion, LinesOf
  <2> QED BY <1>1, <2>1, <2>2
<1>7. Rested'
  <2>1. CASE l = "idle"
    BY <1>1, <1>2, <2>1 DEF IndexInv, IndexTyped, Rested, Leading
  <2>2. CASE l = "done"
    <3>1. /\ at[i] = "reading" /\ AtEnd(taken[i]) /\ taken[i] = digest[i] /\ source' = taken[i]
          /\ \A q \in Ingesters \ {i} : at[q] # "reading"
      BY <1>1, <2>2 DEF IndexInv, IndexTyped
    <3>2. \A q \in quiet : at[q] \in {"done", "reading"} => Leading(taken[i])
      BY <3>1 DEF IndexInv, IndexTyped, Rested
    <3>3. Leading(taken[i]) => taken[i] = file
      BY <3>1, WholeFile DEF IndexInv, IndexTyped
    <3>4. \A q \in quiet : at'[q] = "done" => source' = file
      BY <3>1, <3>2, <3>3, <1>2 DEF IndexInv, IndexTyped
    <3> QED BY <1>1, <1>2, <2>2, <3>1, <3>4 DEF IndexInv, IndexTyped, Rested, Leading
  <2> QED BY <2>1, <2>2
<1> QED BY <1>3, <1>4, <1>5, <1>6, <1>7 DEF IndexInv

LEMMA IndexStepKeeps == IndexInv /\ [IndexNext]_indexVars => IndexInv'
<1> SUFFICES ASSUME IndexInv, [IndexNext]_indexVars PROVE IndexInv' OBVIOUS
<1>1. CASE UNCHANGED indexVars
  <2>1. UNCHANGED <<version, file, source, rows, lock, at, digest, taken, quiet>>
    BY <1>1 DEF indexVars
  <2>2. IndexTyped'
    BY <2>1 DEF IndexInv, IndexTyped
  <2>3. Passes'
    BY <2>1 DEF IndexInv, Passes, Grown
  <2>4. Rested'
    BY <2>1 DEF IndexInv, Rested, Leading
  <2> QED BY <2>1, <2>2, <2>3, <2>4, SameFile DEF IndexInv
<1>2. CASE IndexNext
  BY <1>2, WriterKeeps, HashKeeps, BeginKeeps, ReadKeeps, EndKeeps DEF IndexNext, Ingest
<1> QED BY <1>1, <1>2

LEMMA IndexInvariance == IndexSpec => []IndexInv
BY IndexInitHolds, IndexStepKeeps, PTL DEF IndexSpec

-----------------------------------------------------------------------------
\* What a reader of the file holds are its pieces, and one process at most is
\* within a transaction of ingest().
THEOREM IndexTypeCorrect == IndexSpec => []IndexTypeOK
<1>1. ASSUME IndexTyped PROVE IndexTypeOK
  <2>1. \A s \in Seq(Piece) : Range(s) \subseteq Piece
    BY DEF Range
  <2> QED BY <1>1, <2>1 DEF IndexTyped, IndexTypeOK
<1>2. IndexInv => IndexTypeOK
  BY <1>1 DEF IndexInv
<1> QED BY <1>2, IndexInvariance, PTL

\* What ingest() commits is one version of the file, from its start.
THEOREM IndexesAreOneVersion == IndexSpec => []IndexIsOneVersion
<1>1. IndexInv => IndexIsOneVersion BY DEF IndexInv
<1> QED BY <1>1, IndexInvariance, PTL

\* A file that rests is indexed when ingest() returns, and stays indexed.
THEOREM QuietFilesAreIndexed == IndexSpec => []QuietFileIsIndexed
<1>1. IndexInv => QuietFileIsIndexed BY DEF IndexInv, IndexTyped, Rested, QuietFileIsIndexed
<1> QED BY <1>1, IndexInvariance, PTL

-----------------------------------------------------------------------------
(* The search for rules. *)

LEMMA HitsIs == ASSUME NEW c, NEW corpus, IsList(corpus)
                PROVE  Hits(c, corpus) \in Nat /\ Hits(c, corpus) <= Len(corpus)
<1>1. PICK n \in Nat : n = Len(corpus) /\ DOMAIN corpus = 1..n
  BY ListHas
<1>2. IsFiniteSet(1..n) /\ Cardinality(1..n) = n
  BY FS_Interval
<1>3. PICK H : H = {i \in DOMAIN corpus : MatchesData(c, corpus[i])} /\ H \in SUBSET (1..n)
  BY <1>1
<1>4. IsFiniteSet(H) /\ Cardinality(H) <= n
  BY <1>2, <1>3, FS_Subset
<1>5. Cardinality(H) \in Nat
  BY <1>4, FS_CardinalityType
<1>6. Hits(c, corpus) = Cardinality(H)
  BY <1>3 DEF Hits
<1> QED BY <1>1, <1>4, <1>5, <1>6

(* Candidates stay candidates under mutation and crossover. *)
LEMMA CandidateIs ==
    ASSUME NEW c
    PROVE  c \in Candidates <=> \E S \in (SUBSET Pool) \ {{}} :
               \E m \in 1..Cardinality(S) : c = [strings |-> S, min |-> m]
  BY DEF Candidates

LEMMA PoolSubsets ==
    ASSUME NEW S \in SUBSET Pool
    PROVE  /\ IsFiniteSet(S) /\ Cardinality(S) \in Nat /\ (S # {} <=> Cardinality(S) >= 1)
<1>1. IsFiniteSet(S) /\ Cardinality(S) \in Nat
  BY SearchAssumption, FS_Subset, FS_CardinalityType
<1>2. S = {} <=> Cardinality(S) = 0
  BY <1>1, FS_EmptySet
<1> QED BY <1>1, <1>2

LEMMA ClampedIs == ASSUME NEW n \in Int, NEW size \in Nat, size >= 1
                   PROVE  Clamped(n, size) \in 1..size
  BY DEF Clamped

LEMMA CandidateHas ==
    ASSUME NEW c \in Candidates
    PROVE  /\ c.strings \in SUBSET Pool /\ c.strings # {} /\ c.min \in Nat /\ c.min >= 1
           /\ c.min <= Cardinality(c.strings)
<1>1. PICK S \in (SUBSET Pool) \ {{}} : \E m \in 1..Cardinality(S) : c = [strings |-> S, min |-> m]
  BY CandidateIs
<1>2. PICK m \in 1..Cardinality(S) : c = [strings |-> S, min |-> m]
  BY <1>1
<1>3. Cardinality(S) \in Nat
  BY PoolSubsets
<1> QED BY <1>2, <1>3

LEMMA MutantsAre == ASSUME NEW c \in Candidates PROVE Mutants(c) \subseteq Candidates
<1> SUFFICES ASSUME NEW x \in Mutants(c) PROVE x \in Candidates
  OBVIOUS
<1> DEFINE more == {c.strings \union {s} : s \in Pool \ c.strings}
           less == IF Cardinality(c.strings) > 1 THEN {c.strings \ {s} : s \in c.strings} ELSE {c.strings}
<1>1. PICK S \in more \union less, d \in {-1, 0, 1} :
          x = [strings |-> S, min |-> Clamped(c.min + d, Cardinality(S))]
  BY DEF Mutants
<1>2. c.strings \in SUBSET Pool /\ c.strings # {} /\ c.min \in Nat
  BY CandidateHas
<1>3. S \in SUBSET Pool /\ S # {}
  <2>1. CASE S \in more
    BY <1>2, <2>1
  <2>2. CASE S \in less
    <3>1. CASE Cardinality(c.strings) > 1
      <4>1. PICK s \in c.strings : S = c.strings \ {s}
        BY <2>2, <3>1
      <4>2. Cardinality(S) = Cardinality(c.strings) - 1
        BY <1>2, <4>1, PoolSubsets, FS_RemoveElement
      <4>3. S \in SUBSET Pool /\ Cardinality(c.strings) \in Nat
        BY <1>2, <4>1, PoolSubsets
      <4>4. Cardinality(S) >= 1
        BY <3>1, <4>2, <4>3
      <4> QED BY <4>3, <4>4, PoolSubsets
    <3>2. CASE ~(Cardinality(c.strings) > 1)
      <4>1. S = c.strings
        BY <2>2, <3>2
      <4> QED BY <1>2, <4>1
    <3> QED BY <3>1, <3>2
  <2> QED BY <1>1, <2>1, <2>2
<1>4. Cardinality(S) \in Nat /\ Cardinality(S) >= 1
  BY <1>3, PoolSubsets
<1>5. c.min + d \in Int
  BY <1>2
<1>6. Clamped(c.min + d, Cardinality(S)) \in 1..Cardinality(S)
  BY <1>4, <1>5, ClampedIs
<1> QED BY <1>1, <1>3, <1>6, CandidateIs

LEMMA ChildrenAre ==
    ASSUME NEW a \in Candidates, NEW b \in Candidates
    PROVE  Children(a, b) \subseteq Candidates
<1> SUFFICES ASSUME NEW x \in Children(a, b) PROVE x \in Candidates
  OBVIOUS
<1> DEFINE least == IF Cardinality(a.strings) < Cardinality(b.strings) THEN Cardinality(a.strings)
                    ELSE Cardinality(b.strings)
<1>1. PICK S \in SUBSET (a.strings \union b.strings) :
          /\ Cardinality(S) >= least
          /\ x = [strings |-> S, min |-> Clamped((a.min + b.min) \div 2, Cardinality(S))]
  BY DEF Children
<1>2. /\ a.strings \in SUBSET Pool /\ a.strings # {} /\ a.min \in Nat
      /\ b.strings \in SUBSET Pool /\ b.strings # {} /\ b.min \in Nat
  BY CandidateHas
<1>3. S \in SUBSET Pool
  BY <1>1, <1>2
<1>4. /\ Cardinality(a.strings) \in Nat /\ Cardinality(a.strings) >= 1
      /\ Cardinality(b.strings) \in Nat /\ Cardinality(b.strings) >= 1
  BY <1>2, PoolSubsets
<1>5. Cardinality(S) \in Nat /\ Cardinality(S) >= 1
  BY <1>1, <1>3, <1>4, PoolSubsets
<1>6. S # {}
  BY <1>3, <1>5, PoolSubsets
<1>7. (a.min + b.min) \div 2 \in Int
  BY <1>2
<1>8. Clamped((a.min + b.min) \div 2, Cardinality(S)) \in 1..Cardinality(S)
  BY <1>5, <1>7, ClampedIs
<1> QED BY <1>1, <1>3, <1>6, <1>8, CandidateIs

-----------------------------------------------------------------------------
(* The frontier of a list of points. *)
IsPoint(a, b) == a.recall \in 0..b /\ a.fp \in Nat /\ a.cost \in Nat

AtLeast(a, b) == Dominates(a, b) \/ SameObjectives(a, b)

LEMMA AtLeastIs ==
    ASSUME NEW b \in Nat, NEW x, IsPoint(x, b), NEW y, IsPoint(y, b)
    PROVE  AtLeast(x, y) <=> (x.recall >= y.recall /\ x.fp <= y.fp /\ x.cost <= y.cost)
<1>1. /\ x.recall \in Int /\ x.fp \in Int /\ x.cost \in Int
      /\ y.recall \in Int /\ y.fp \in Int /\ y.cost \in Int
  BY DEF IsPoint
<1> QED BY <1>1 DEF AtLeast, Dominates, SameObjectives

(* What is left to gain at a point. *)
Missing(a, b) == a.fp + a.cost + (b - a.recall)

LEMMA MissingIs ==
    ASSUME NEW b \in Nat, NEW x, IsPoint(x, b), NEW y, IsPoint(y, b)
    PROVE  Missing(x, b) \in Nat /\ (Dominates(x, y) => Missing(x, b) < Missing(y, b))
<1>1. /\ x.recall \in Int /\ x.fp \in Nat /\ x.cost \in Nat /\ x.recall <= b
      /\ y.recall \in Int /\ y.fp \in Nat /\ y.cost \in Nat /\ y.recall <= b
  BY DEF IsPoint
<1>2. PICK r, f, c, q, g, d : /\ r = x.recall /\ f = x.fp /\ c = x.cost
                              /\ q = y.recall /\ g = y.fp /\ d = y.cost
  OBVIOUS
<1>3. /\ r \in Int /\ f \in Nat /\ c \in Nat /\ r <= b
      /\ q \in Int /\ g \in Nat /\ d \in Nat /\ q <= b
  BY <1>1, <1>2
<1>4. f + c + (b - r) \in Nat
  BY <1>3
<1>5. ASSUME r >= q, f <= g, c <= d, ~(r = q /\ f = g /\ c = d)
      PROVE  f + c + (b - r) < g + d + (b - q)
  BY <1>3, <1>5
<1>6. Missing(x, b) = f + c + (b - r) /\ Missing(y, b) = g + d + (b - q)
  BY <1>2, Zenon DEF Missing
<1>7. Dominates(x, y) => r >= q /\ f <= g /\ c <= d /\ ~(r = q /\ f = g /\ c = d)
  BY <1>2, Zenon DEF Dominates, SameObjectives
<1> QED BY <1>4, <1>5, <1>6, <1>7

Unbeaten(s) == {i \in DOMAIN s : \A k \in DOMAIN s : ~Dominates(s[k], s[i])}

FirstOfItsKind(s) == {i \in DOMAIN s : \A j \in 1..(i - 1) : ~SameObjectives(s[j], s[i])}

LEMMA NondominatedPicks ==
    ASSUME NEW s
    PROVE  Nondominated(s) = Picked(Picked(s, Unbeaten(s)), FirstOfItsKind(Picked(s, Unbeaten(s))))
  BY DEF Nondominated, Filter, Unbeaten, FirstOfItsKind

(* Every point is reached by one that none beats. *)
LEMMA UnbeatenCovers ==
    ASSUME NEW s, IsList(s), NEW b \in Nat, \A i \in DOMAIN s : IsPoint(s[i], b), NEW i \in DOMAIN s
    PROVE  \E k \in Unbeaten(s) : AtLeast(s[k], s[i])
<1> DEFINE T == {Missing(s[k], b) : k \in {l \in DOMAIN s : AtLeast(s[l], s[i])}}
<1>1. T \subseteq Nat
  <2>1. ASSUME NEW k \in DOMAIN s PROVE Missing(s[k], b) \in Nat
    <3>1. PICK x : x = s[k] /\ IsPoint(x, b)
      OBVIOUS
    <3> QED BY <3>1, MissingIs
  <2>2. ASSUME NEW t \in T PROVE t \in Nat
    <3>1. PICK k \in DOMAIN s : t = Missing(s[k], b)
      OBVIOUS
    <3> QED BY <2>1, <3>1
  <2> QED BY <2>2
<1>2. AtLeast(s[i], s[i])
  BY DEF AtLeast, SameObjectives
<1>3. T # {}
  BY <1>2
<1>4. PICK m \in T : \A y \in T : m <= y
  <2> HIDE DEF T
  <2> QED BY <1>1, <1>3, LeastNat
<1>5. PICK k \in DOMAIN s : AtLeast(s[k], s[i]) /\ m = Missing(s[k], b)
  BY <1>4
<1>6. ASSUME NEW l \in DOMAIN s, Dominates(s[l], s[k]) PROVE FALSE
  <2>1. PICK x, y, z : x = s[l] /\ y = s[k] /\ z = s[i]
    OBVIOUS
  <2>2. IsPoint(x, b) /\ IsPoint(y, b) /\ IsPoint(z, b)
    BY <2>1
  <2>3. AtLeast(x, y) /\ AtLeast(y, z) /\ Dominates(x, y)
    BY <1>5, <1>6, <2>1 DEF AtLeast
  <2>4. AtLeast(x, z)
    <3>1. x.recall >= y.recall /\ x.fp <= y.fp /\ x.cost <= y.cost
      BY <2>2, <2>3, AtLeastIs
    <3>2. y.recall >= z.recall /\ y.fp <= z.fp /\ y.cost <= z.cost
      BY <2>2, <2>3, AtLeastIs
    <3>3. x.recall >= z.recall /\ x.fp <= z.fp /\ x.cost <= z.cost
      BY <2>2, <3>1, <3>2 DEF IsPoint
    <3> QED BY <2>2, <3>3, AtLeastIs
  <2>5. Missing(x, b) \in T
    BY <2>1, <2>4
  <2>6. Missing(x, b) < Missing(y, b) /\ Missing(x, b) \in Nat /\ Missing(y, b) \in Nat
    BY <2>2, <2>3, MissingIs
  <2>7. Missing(y, b) <= Missing(x, b)
    BY <1>4, <1>5, <2>1, <2>5
  <2> QED BY <2>6, <2>7
<1> QED BY <1>5, <1>6 DEF Unbeaten

LEMMA NondominatedIs ==
    ASSUME NEW s, IsList(s), NEW b \in Nat, \A i \in DOMAIN s : IsPoint(s[i], b)
    PROVE  /\ IsList(Nondominated(s)) /\ Range(Nondominated(s)) \subseteq Range(s)
           /\ \A i \in DOMAIN s : \E j \in DOMAIN Nondominated(s) : AtLeast(Nondominated(s)[j], s[i])
           /\ \A i, j \in DOMAIN Nondominated(s) :
                 i # j => /\ ~Dominates(Nondominated(s)[i], Nondominated(s)[j])
                          /\ ~SameObjectives(Nondominated(s)[i], Nondominated(s)[j])
<1>1. PICK I : I = Unbeaten(s)
  OBVIOUS
<1>2. PICK best : best = Picked(s, I)
  OBVIOUS
<1>3. PICK J : J = FirstOfItsKind(best)
  OBVIOUS
<1>4. PICK N : N = Picked(best, J)
  OBVIOUS
<1>5. Nondominated(s) = N
  BY <1>1, <1>2, <1>3, <1>4, NondominatedPicks
<1>6. I \subseteq DOMAIN s /\ J \subseteq DOMAIN best
  BY <1>1, <1>3 DEF Unbeaten, FirstOfItsKind
<1>7. IsList(best) /\ Range(best) = {s[i] : i \in I}
  <2>1. I \cap DOMAIN s = I
    BY <1>6
  <2> QED BY <1>2, <2>1, ListPicked
<1>8. IsList(N) /\ Range(N) = {best[i] : i \in J} /\ DOMAIN N = 1..Len(N) /\ Len(N) \in Nat
  <2>1. J \cap DOMAIN best = J
    BY <1>6
  <2> QED BY <1>4, <1>7, <2>1, ListPicked
<1>9. \A m \in DOMAIN best : \E i \in I : best[m] = s[i]
  <2>1. \A m \in DOMAIN best : best[m] \in Range(best)
    BY <1>7, ListHas
  <2> QED BY <1>7, <2>1
<1>10. Range(N) \subseteq Range(s)
  <2>1. ASSUME NEW x \in Range(N) PROVE x \in Range(s)
    <3>1. PICK m \in J : x = best[m]
      BY <1>8
    <3>2. PICK i \in I : x = s[i]
      BY <3>1, <1>6, <1>9
    <3> QED BY <3>2, <1>6, ListHas
  <2> QED BY <2>1
<1>11. PICK n \in Nat : DOMAIN best = 1..n
  BY <1>7, ListHas
<1>12. ASSUME NEW i \in DOMAIN s PROVE \E j \in DOMAIN N : AtLeast(N[j], s[i])
  <2>1. PICK k \in I : AtLeast(s[k], s[i])
    BY <1>1, UnbeatenCovers
  <2>2. PICK m \in DOMAIN best : best[m] = s[k]
    <3>1. s[k] \in Range(best)
      BY <1>7
    <3> QED BY <3>1, <1>7, ListHas
  <2> DEFINE T == {l \in DOMAIN best : SameObjectives(best[l], s[k])}
  <2>3. T \subseteq Nat /\ T # {}
    <3>1. m \in T
      BY <2>2 DEF SameObjectives
    <3> QED BY <3>1, <1>11
  <2>4. PICK l \in T : \A y \in T : l <= y
    <3> HIDE DEF T
    <3> QED BY <2>3, LeastNat
  <2>5. l \in DOMAIN best /\ SameObjectives(best[l], s[k])
    BY <2>4
  <2>6. ASSUME NEW j \in 1..(l - 1) PROVE ~SameObjectives(best[j], best[l])
    <3>1. j \in DOMAIN best /\ j < l
      BY <1>11, <2>5
    <3>2. SUFFICES ASSUME SameObjectives(best[j], best[l]) PROVE FALSE
      OBVIOUS
    <3>3. SameObjectives(best[j], s[k])
      BY <2>5, <3>2 DEF SameObjectives
    <3>4. l <= j
      BY <2>4, <3>1, <3>3
    <3>5. l \in Int /\ j \in Int
      BY <2>5, <1>11
    <3> QED BY <3>1, <3>4, <3>5
  <2>7. l \in J
    BY <1>3, <2>5, <2>6 DEF FirstOfItsKind
  <2>8. PICK j \in DOMAIN N : N[j] = best[l]
    <3>1. best[l] \in Range(N)
      BY <1>8, <2>7
    <3> QED BY <3>1, <1>8, ListHas
  <2>9. AtLeast(N[j], s[i])
    <3>1. PICK p \in I : best[l] = s[p]
      BY <2>5, <1>9
    <3>2. PICK x, y, z : x = s[p] /\ y = s[k] /\ z = s[i]
      OBVIOUS
    <3>3. IsPoint(x, b) /\ IsPoint(y, b) /\ IsPoint(z, b)
      BY <3>2, <1>6
    <3>4. SameObjectives(x, y) /\ AtLeast(y, z)
      BY <2>1, <2>5, <3>1, <3>2
    <3>5. AtLeast(x, z)
      <4>1. y.recall >= z.recall /\ y.fp <= z.fp /\ y.cost <= z.cost
        BY <3>3, <3>4, AtLeastIs
      <4>2. x.recall >= z.recall /\ x.fp <= z.fp /\ x.cost <= z.cost
        BY <3>4, <4>1 DEF SameObjectives
      <4> QED BY <3>3, <4>2, AtLeastIs
    <3> QED BY <2>8, <3>1, <3>2, <3>5
  <2> QED BY <2>9
<1>13. PICK places : Leads(places, best, J, Len(best), N)
  BY <1>4, <1>7, PickedPos
<1>14. \A i \in DOMAIN N : places[i] \in J /\ N[i] = best[places[i]]
  BY <1>8, <1>13 DEF Leads
<1>15. ASSUME NEW i \in DOMAIN N, NEW j \in DOMAIN N
       PROVE  /\ ~Dominates(N[i], N[j])
              /\ i < j => ~SameObjectives(N[i], N[j])
  <2>1. PICK p, q : p = places[i] /\ q = places[j]
    OBVIOUS
  <2>2. p \in J /\ q \in J /\ N[i] = best[p] /\ N[j] = best[q] /\ p \in 1..n /\ q \in 1..n
    BY <2>1, <1>14, <1>6, <1>11
  <2>3. ~Dominates(N[i], N[j])
    <3>1. PICK k \in I : best[p] = s[k]
      BY <2>2, <1>6, <1>9
    <3>2. PICK l \in I : best[q] = s[l]
      BY <2>2, <1>6, <1>9
    <3>3. ~Dominates(s[k], s[l])
      BY <1>1, <1>6 DEF Unbeaten
    <3> QED BY <2>2, <3>1, <3>2, <3>3
  <2>4. ASSUME i < j PROVE ~SameObjectives(N[i], N[j])
    <3>1. p < q
      BY <2>1, <2>4, <1>8, <1>13 DEF Leads
    <3>2. p \in 1..(q - 1)
      BY <3>1, <2>2
    <3>3. ~SameObjectives(best[p], best[q])
      BY <3>2, <2>2, <1>3 DEF FirstOfItsKind
    <3> QED BY <2>2, <3>3
  <2> QED BY <2>3, <2>4
<1>16. ASSUME NEW i \in DOMAIN N, NEW j \in DOMAIN N, i # j
       PROVE  ~Dominates(N[i], N[j]) /\ ~SameObjectives(N[i], N[j])
  <2>1. i < j \/ j < i
    BY <1>8, <1>16
  <2>2. ~SameObjectives(N[i], N[j]) \/ ~SameObjectives(N[j], N[i])
    BY <1>15, <2>1
  <2> QED BY <1>15, <2>2 DEF SameObjectives
<1> QED BY <1>5, <1>8, <1>10, <1>12, <1>16

-----------------------------------------------------------------------------
(* The invariant. *)
IsScored(x) == x.candidate \in Candidates /\ x = Scored(x.candidate)

Covers(a, c) == \E i \in DOMAIN a : AtLeast(a[i], Scored(c))

OnFrontier(a, J) ==
    /\ IsList(a) /\ \A i \in DOMAIN a : IsScored(a[i])
    /\ J \subseteq Candidates /\ \A c \in J : Covers(a, c)
    /\ \A i, j \in DOMAIN a : i # j => ~Dominates(a[i], a[j]) /\ ~SameObjectives(a[i], a[j])

SearchInv ==
    /\ pop \in [1..Population -> Candidates]
    /\ IsList(bred) /\ Range(bred) \subseteq Candidates
    /\ OnFrontier(archive, judged)

LEMMA ScoredIs ==
    ASSUME NEW c \in Candidates
    PROVE  IsPoint(Scored(c), Len(Malicious)) /\ IsScored(Scored(c)) /\ Scored(c).candidate = c
<1>1. IsList(Malicious) /\ IsList(Clean)
  BY SearchAssumption
<1>2. Hits(c, Malicious) \in Nat /\ Hits(c, Malicious) <= Len(Malicious) /\ Hits(c, Clean) \in Nat
  BY <1>1, HitsIs
<1>3. Cardinality(c.strings) \in Nat
  BY CandidateHas, PoolSubsets
<1>4. Len(Malicious) \in Nat
  BY <1>1, ListHas
<1> QED BY <1>2, <1>3, <1>4 DEF IsPoint, IsScored, Scored

LEMMA AtLeastTrans ==
    ASSUME NEW b \in Nat, NEW x, IsPoint(x, b), NEW y, IsPoint(y, b), NEW z, IsPoint(z, b),
           AtLeast(x, y), AtLeast(y, z)
    PROVE  AtLeast(x, z)
<1>1. x.recall >= y.recall /\ x.fp <= y.fp /\ x.cost <= y.cost
  BY AtLeastIs
<1>2. y.recall >= z.recall /\ y.fp <= z.fp /\ y.cost <= z.cost
  BY AtLeastIs
<1>3. x.recall >= z.recall /\ x.fp <= z.fp /\ x.cost <= z.cost
  BY <1>1, <1>2 DEF IsPoint
<1> QED BY <1>3, AtLeastIs

(* An evaluation keeps the best of what is known and of what is new. *)
LEMMA JudgeKeeps ==
    ASSUME NEW a, NEW J, OnFrontier(a, J), NEW p \in [1..Population -> Candidates]
    PROVE  OnFrontier(Nondominated(a \o [i \in DOMAIN p |-> Scored(p[i])]),
                      J \union {p[i] : i \in DOMAIN p})
<1>1. PICK new : new = [i \in DOMAIN p |-> Scored(p[i])]
  OBVIOUS
<1>2. PICK b \in Nat : b = Len(Malicious)
  BY SearchAssumption, ListHas
<1>3. IsList(new) /\ DOMAIN new = 1..Population
  <2>1. Population \in Nat
    BY SearchAssumption
  <2>2. new = [i \in 1..Population |-> new[i]]
    BY <1>1
  <2> QED BY <2>1, <2>2, ListFcn
<1>4. ASSUME NEW i \in 1..Population PROVE new[i] = Scored(p[i]) /\ IsScored(new[i])
  <2>1. PICK c \in Candidates : c = p[i]
    OBVIOUS
  <2>2. new[i] = Scored(c)
    BY <1>1, <2>1
  <2> QED BY <2>1, <2>2, ScoredIs
<1>5. PICK s : s = a \o new
  OBVIOUS
<1>6. IsList(s) /\ Range(s) = Range(a) \cup Range(new)
  BY <1>3, <1>5, ListConcat DEF OnFrontier
<1>7. \A i \in DOMAIN s : IsScored(s[i]) /\ IsPoint(s[i], b)
  <2>1. ASSUME NEW i \in DOMAIN s PROVE IsScored(s[i]) /\ IsPoint(s[i], b)
    <3>1. s[i] \in Range(a) \/ s[i] \in Range(new)
      BY <1>6, ListHas
    <3>2. IsScored(s[i])
      <4>1. CASE s[i] \in Range(a)
        <5>1. PICK k \in DOMAIN a : s[i] = a[k]
          BY <4>1, ListHas DEF OnFrontier
        <5> QED BY <5>1 DEF OnFrontier
      <4>2. CASE s[i] \in Range(new)
        <5>1. PICK k \in 1..Population : s[i] = new[k]
          BY <1>3, <4>2, ListHas
        <5> QED BY <5>1, <1>4
      <4> QED BY <3>1, <4>1, <4>2
    <3>3. PICK c \in Candidates : s[i] = Scored(c)
      BY <3>2 DEF IsScored
    <3> QED BY <3>2, <3>3, <1>2, ScoredIs
  <2> QED BY <2>1
<1>8. PICK N : N = Nondominated(s)
  OBVIOUS
<1>9. /\ IsList(N) /\ Range(N) \subseteq Range(s)
      /\ \A i \in DOMAIN s : \E j \in DOMAIN N : AtLeast(N[j], s[i])
      /\ \A i, j \in DOMAIN N : i # j => ~Dominates(N[i], N[j]) /\ ~SameObjectives(N[i], N[j])
  BY <1>6, <1>7, <1>8, NondominatedIs
<1>10. ASSUME NEW j \in DOMAIN N PROVE IsScored(N[j]) /\ IsPoint(N[j], b)
  <2>1. N[j] \in Range(s)
    BY <1>9, ListHas
  <2>2. PICK i \in DOMAIN s : N[j] = s[i]
    BY <2>1, <1>6, ListHas
  <2> QED BY <2>2, <1>7
<1>11. ASSUME NEW x \in Range(s) PROVE \E j \in DOMAIN N : AtLeast(N[j], x)
  <2>1. PICK i \in DOMAIN s : s[i] = x
    BY <1>6, ListHas
  <2> QED BY <2>1, <1>9
<1>12. ASSUME NEW c \in J PROVE Covers(N, c)
  <2>1. c \in Candidates
    BY DEF OnFrontier
  <2>2. PICK z : z = Scored(c) /\ IsPoint(z, b)
    BY <2>1, <1>2, ScoredIs
  <2>3. PICK i \in DOMAIN a : AtLeast(a[i], z)
    BY <2>2 DEF OnFrontier, Covers
  <2>4. PICK y : y = a[i]
    OBVIOUS
  <2>5. y \in Range(s)
    BY <2>4, <1>6, ListHas DEF OnFrontier
  <2>6. PICK k \in DOMAIN s : s[k] = y
    BY <2>5, <1>6, ListHas
  <2>7. PICK j \in DOMAIN N : AtLeast(N[j], y)
    BY <2>5, <1>11
  <2>8. PICK x : x = N[j] /\ IsPoint(x, b)
    BY <1>10
  <2>9. IsPoint(y, b)
    BY <2>6, <1>7
  <2>10. AtLeast(x, z)
    BY <2>2, <2>3, <2>4, <2>7, <2>8, <2>9, AtLeastTrans
  <2> QED BY <2>2, <2>8, <2>10 DEF Covers
<1>13. ASSUME NEW i \in DOMAIN p PROVE Covers(N, p[i])
  <2>1. i \in 1..Population
    OBVIOUS
  <2>2. new[i] \in Range(s)
    BY <2>1, <1>3, <1>6, ListHas
  <2>3. PICK j \in DOMAIN N : AtLeast(N[j], new[i])
    BY <2>2, <1>11
  <2>4. new[i] = Scored(p[i])
    BY <2>1, <1>4
  <2> QED BY <2>3, <2>4 DEF Covers
<1>14. PICK all : all = J \union {p[i] : i \in DOMAIN p}
  OBVIOUS
<1>15. all \subseteq Candidates /\ \A c \in all : Covers(N, c)
  <2>1. J \subseteq Candidates
    BY DEF OnFrontier
  <2>2. ASSUME NEW c \in all PROVE c \in Candidates /\ Covers(N, c)
    <3>1. CASE c \in J
      BY <3>1, <2>1, <1>12
    <3>2. CASE \E i \in DOMAIN p : c = p[i]
      <4>1. PICK i \in DOMAIN p : c = p[i]
        BY <3>2
      <4> QED BY <4>1, <1>13
    <3> QED BY <1>14, <3>1, <3>2
  <2> QED BY <2>2
<1>16. OnFrontier(N, all)
  BY <1>9, <1>10, <1>15 DEF OnFrontier
<1> QED BY <1>1, <1>5, <1>8, <1>14, <1>16

LEMMA SearchInitHolds == SearchInit => SearchInv
<1> SUFFICES ASSUME SearchInit PROVE SearchInv
  OBVIOUS
<1>1. OnFrontier(<<>>, {})
  <2>1. DOMAIN <<>> = {}
    OBVIOUS
  <2> QED BY <2>1, ListEmpty DEF OnFrontier
<1>2. IsList(bred) /\ Range(bred) \subseteq Candidates
  BY ListEmpty DEF SearchInit
<1> QED BY <1>1, <1>2 DEF SearchInit, SearchInv

LEMMA CandidatesOfIs ==
    ASSUME NEW a, IsList(a), \A i \in DOMAIN a : IsScored(a[i])
    PROVE  IsList(CandidatesOf(a)) /\ Range(CandidatesOf(a)) \subseteq Candidates
<1>1. PICK f : f = [i \in DOMAIN a |-> a[i].candidate]
  OBVIOUS
<1>2. IsList(f) /\ Range(f) = {f[i] : i \in DOMAIN a}
  <2>1. f = [i \in DOMAIN a |-> f[i]]
    BY <1>1
  <2> QED BY <2>1, ListMap
<1>3. Range(f) \subseteq Candidates
  BY <1>1, <1>2 DEF IsScored
<1> QED BY <1>1, <1>2, <1>3 DEF CandidatesOf

LEMMA SearchStepKeeps == SearchInv /\ [SearchNext]_searchVars => SearchInv'
<1> SUFFICES ASSUME SearchInv, [SearchNext]_searchVars PROVE SearchInv'
  OBVIOUS
<1>1. CASE Evaluate
  <2>1. OnFrontier(archive', judged')
    BY <1>1, JudgeKeeps DEF SearchInv, Evaluate
  <2>2. PICK a : a = CandidatesOf(archive') /\ IsList(a) /\ Range(a) \subseteq Candidates
    BY <2>1, CandidatesOfIs DEF OnFrontier
  <2>3. PICK r : r = Upto(a, Population) /\ IsList(r) /\ Range(r) \subseteq Candidates
    <3>1. Population \in Nat
      BY SearchAssumption
    <3> QED BY <3>1, <2>2, ListUpto
  <2>4. bred' = r /\ pop' = pop
    BY <1>1, <2>2, <2>3 DEF Evaluate
  <2> QED BY <2>1, <2>3, <2>4 DEF SearchInv
<1>2. CASE Breed
  <2>1. PICK x, y \in {archive[i].candidate : i \in DOMAIN archive} :
           \E child \in Children(x, y) : \E c \in Mutants(child) \union {child} : bred' = Append(bred, c)
    BY <1>2 DEF Breed
  <2>2. x \in Candidates /\ y \in Candidates
    BY <2>1 DEF SearchInv, OnFrontier, IsScored
  <2>3. PICK child \in Children(x, y) : \E c \in Mutants(child) \union {child} : bred' = Append(bred, c)
    BY <2>1
  <2>4. child \in Candidates
    BY <2>2, <2>3, ChildrenAre
  <2>5. PICK c \in Mutants(child) \union {child} : bred' = Append(bred, c)
    BY <2>3
  <2>6. c \in Candidates
    BY <2>4, <2>5, MutantsAre
  <2>7. IsList(bred') /\ Range(bred') \subseteq Candidates
    <3>1. PICK r : r = bred /\ IsList(r) /\ Range(r) \subseteq Candidates
      BY DEF SearchInv
    <3>2. r \in Seq(Candidates)
      BY <3>1 DEF IsList
    <3>3. Append(r, c) \in Seq(Candidates)
      BY <3>2, <2>6
    <3>4. PICK q : q = Append(r, c) /\ q \in Seq(Candidates)
      BY <3>3
    <3>5. IsList(q) /\ Range(q) \subseteq Candidates
      BY <3>4, ListIs
    <3> QED BY <3>1, <3>4, <3>5, <2>5
  <2>8. pop' = pop /\ archive' = archive /\ judged' = judged
    BY <1>2 DEF Breed
  <2> QED BY <2>7, <2>8 DEF SearchInv
<1>3. CASE NextGeneration
  <2>1. pop' \in [1..Population -> Candidates]
    <3>1. PICK r : r = bred /\ IsList(r) /\ Range(r) \subseteq Candidates /\ Len(r) = Population
      BY <1>3 DEF SearchInv, NextGeneration
    <3>2. r \in Seq(Candidates)
      BY <3>1 DEF IsList
    <3>3. r \in [1..Population -> Candidates]
      BY <3>1, <3>2
    <3> QED BY <1>3, <3>1, <3>3 DEF NextGeneration
  <2>2. bred' = <<>> /\ archive' = archive /\ judged' = judged
    BY <1>3 DEF NextGeneration
  <2>3. IsList(bred') /\ Range(bred') \subseteq Candidates
    BY <2>2, ListEmpty
  <2> QED BY <2>1, <2>2, <2>3 DEF SearchInv
<1>4. CASE Finish
  <2>1. OnFrontier(archive', judged')
    BY <1>4, JudgeKeeps DEF SearchInv, Finish
  <2>2. bred' = bred /\ pop' = pop
    BY <1>4 DEF Finish
  <2> QED BY <2>1, <2>2 DEF SearchInv
<1>5. CASE UNCHANGED searchVars
  BY <1>5 DEF searchVars, SearchInv
<1> QED BY <1>1, <1>2, <1>3, <1>4, <1>5 DEF SearchNext

(* What Frontier.pick takes exists where the frontier has a point. *)
LEMMA StrictIs ==
    ASSUME NEW a, NEW b \in Nat, \A i \in DOMAIN a : IsPoint(a[i], b), NEW k \in DOMAIN a
    PROVE  \E i \in DOMAIN a : Strict(a) = a[i] /\ a[i].fp <= a[k].fp
<1>1. \A i \in DOMAIN a : a[i].fp \in Nat /\ b - a[i].recall \in Nat /\ a[i].recall \in Int
  BY DEF IsPoint
<1> DEFINE T == {a[i].fp : i \in DOMAIN a}
<1>2. PICK f \in T : \A y \in T : f <= y
  <2>1. T \subseteq Nat /\ T # {}
    BY <1>1
  <2> HIDE DEF T
  <2> QED BY <2>1, LeastNat
<1> DEFINE L == {i \in DOMAIN a : a[i].fp = f}
           U == {b - a[i].recall : i \in L}
<1>3. PICK m \in U : \A y \in U : m <= y
  <2>1. U \subseteq Nat /\ U # {}
    BY <1>1, <1>2
  <2> HIDE DEF U
  <2> QED BY <2>1, LeastNat
<1>4. PICK i \in L : m = b - a[i].recall
  BY <1>3
<1>5. ASSUME NEW j \in DOMAIN a PROVE ~Stricter(a[j], a[i])
  <2>1. f <= a[j].fp /\ a[i].fp = f /\ f \in Nat
    BY <1>1, <1>2, <1>4
  <2>2. ASSUME a[j].fp = a[i].fp PROVE ~(a[j].recall > a[i].recall)
    <3>1. b - a[j].recall \in U
      BY <2>1, <2>2
    <3>2. m <= b - a[j].recall
      BY <1>3, <3>1
    <3>3. a[j].recall \in Int /\ a[i].recall \in Int
      BY <1>1, <1>4
    <3> QED BY <3>2, <3>3, <1>4
  <2>3. a[j].fp \in Nat
    BY <1>1
  <2> QED BY <2>1, <2>2, <2>3 DEF Stricter
<1> DEFINE i0 == CHOOSE x \in DOMAIN a : \A j \in DOMAIN a : ~Stricter(a[j], a[x])
<1>6. i0 \in DOMAIN a /\ \A j \in DOMAIN a : ~Stricter(a[j], a[i0])
  <2>1. \E x \in DOMAIN a : \A j \in DOMAIN a : ~Stricter(a[j], a[x])
    BY <1>4, <1>5
  <2> QED BY <2>1, Zenon
<1>7. Strict(a) = a[i0]
  BY DEF Strict
<1> HIDE DEF i0
<1>8. a[i0].fp <= a[k].fp
  BY <1>1, <1>6 DEF Stricter
<1> QED BY <1>6, <1>7, <1>8

LEMMA LooseIs ==
    ASSUME NEW a, NEW b \in Nat, \A i \in DOMAIN a : IsPoint(a[i], b), NEW k \in DOMAIN a
    PROVE  \E i \in DOMAIN a : Loose(a) = a[i] /\ a[i].recall >= a[k].recall
<1>1. \A i \in DOMAIN a : a[i].fp \in Nat /\ b - a[i].recall \in Nat /\ a[i].recall \in Int
  BY DEF IsPoint
<1> DEFINE T == {b - a[i].recall : i \in DOMAIN a}
<1>2. PICK f \in T : \A y \in T : f <= y
  <2>1. T \subseteq Nat /\ T # {}
    BY <1>1
  <2> HIDE DEF T
  <2> QED BY <2>1, LeastNat
<1> DEFINE L == {i \in DOMAIN a : b - a[i].recall = f}
           U == {a[i].fp : i \in L}
<1>3. PICK m \in U : \A y \in U : m <= y
  <2>1. U \subseteq Nat /\ U # {}
    BY <1>1, <1>2
  <2> HIDE DEF U
  <2> QED BY <2>1, LeastNat
<1>4. PICK i \in L : m = a[i].fp
  BY <1>3
<1>5. ASSUME NEW j \in DOMAIN a PROVE ~Looser(a[j], a[i])
  <2>1. f <= b - a[j].recall /\ b - a[i].recall = f
    BY <1>2, <1>4
  <2>2. a[j].recall \in Int /\ a[i].recall \in Int /\ a[j].fp \in Nat /\ a[i].fp \in Nat
    BY <1>1, <1>4
  <2>3. ASSUME a[j].recall = a[i].recall PROVE ~(a[j].fp < a[i].fp)
    <3>1. a[j].fp \in U
      BY <2>1, <2>3
    <3>2. m <= a[j].fp
      BY <1>3, <3>1
    <3> QED BY <3>2, <2>2, <1>4
  <2> QED BY <2>1, <2>2, <2>3 DEF Looser
<1> DEFINE i0 == CHOOSE x \in DOMAIN a : \A j \in DOMAIN a : ~Looser(a[j], a[x])
<1>6. i0 \in DOMAIN a /\ \A j \in DOMAIN a : ~Looser(a[j], a[i0])
  <2>1. \E x \in DOMAIN a : \A j \in DOMAIN a : ~Looser(a[j], a[x])
    BY <1>4, <1>5
  <2> QED BY <2>1, Zenon
<1>7. Loose(a) = a[i0]
  BY DEF Loose
<1> HIDE DEF i0
<1>8. a[i0].recall >= a[k].recall
  BY <1>1, <1>6 DEF Looser
<1> QED BY <1>6, <1>7, <1>8

LEMMA SearchInvMeans == SearchInv => FrontierIsBest
<1> SUFFICES ASSUME SearchInv PROVE FrontierIsBest
  OBVIOUS
<1>1. PICK b \in Nat : b = Len(Malicious)
  BY SearchAssumption, ListHas
<1>2. ASSUME NEW i \in DOMAIN archive PROVE IsPoint(archive[i], b) /\ archive[i].candidate \in Candidates
  <2>1. IsScored(archive[i])
    BY DEF SearchInv, OnFrontier
  <2>2. PICK c \in Candidates : archive[i] = Scored(c) /\ c = archive[i].candidate
    BY <2>1 DEF IsScored
  <2> QED BY <1>1, <2>2, ScoredIs
<1>3. ASSUME NEW c \in judged
      PROVE  \E i \in DOMAIN archive : AtLeast(archive[i], Scored(c))
  BY DEF SearchInv, OnFrontier, Covers
<1>4. ASSUME NEW c \in judged
      PROVE  Strict(archive).fp <= Scored(c).fp /\ Loose(archive).recall >= Scored(c).recall
  <2>1. PICK k \in DOMAIN archive : AtLeast(archive[k], Scored(c))
    BY <1>3
  <2>2. c \in Candidates
    BY DEF SearchInv, OnFrontier
  <2>3. PICK y, z : y = archive[k] /\ z = Scored(c) /\ IsPoint(y, b) /\ IsPoint(z, b)
    BY <1>1, <1>2, <2>2, ScoredIs
  <2>4. y.fp <= z.fp /\ y.recall >= z.recall
    BY <2>1, <2>3, AtLeastIs
  <2>5. PICK i \in DOMAIN archive : Strict(archive) = archive[i] /\ archive[i].fp <= archive[k].fp
    BY <1>2, StrictIs
  <2>6. PICK j \in DOMAIN archive : Loose(archive) = archive[j] /\ archive[j].recall >= archive[k].recall
    BY <1>2, LooseIs
  <2>7. IsPoint(archive[i], b) /\ IsPoint(archive[j], b)
    BY <1>2
  <2>8. Strict(archive).fp <= z.fp
    BY <2>3, <2>4, <2>5, <2>7 DEF IsPoint
  <2>9. Loose(archive).recall >= z.recall
    BY <2>3, <2>4, <2>6, <2>7 DEF IsPoint
  <2> QED BY <2>3, <2>8, <2>9
<1>5. \A i, j \in DOMAIN archive : i # j => ~Dominates(archive[i], archive[j])
                                            /\ ~SameObjectives(archive[i], archive[j])
  BY DEF SearchInv, OnFrontier
<1> QED BY <1>2, <1>3, <1>4, <1>5 DEF FrontierIsBest, AtLeast

(* For every pool, every pair of corpora and every number of candidates and
   generations, the frontier loses nothing that was judged. *)
THEOREM FrontierStaysBest == SearchSpec => []FrontierIsBest
<1> QED BY SearchInitHolds, SearchStepKeeps, SearchInvMeans, PTL DEF SearchSpec
=============================================================================
