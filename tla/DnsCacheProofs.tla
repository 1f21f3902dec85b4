--------------------------- MODULE DnsCacheProofs ---------------------------
(***************************************************************************)
(* For any dialers and hosts, however often the records change and         *)
(* whatever lookups fail: the cache never loses an entry.                  *)
(***************************************************************************)
EXTENDS DnsCache, TLAPS

\* What a goroutine is about to store is an answer: a lookup that failed stores
\* nothing, and the answers of the servers are versions of the records.
StoresAnswers ==
  /\ records \in [Hosts -> Versions]
  /\ cache \in [Hosts -> Versions \cup {None}]
  /\ pc \in [Procs -> {"idle", "lookup", "store", "dial", "select", "refresh", "returned"}]
  /\ host \in [Procs -> Hosts \cup {NoHost}]
  /\ answer \in [Procs -> Versions \cup {None}]
  /\ todo \subseteq Hosts
  /\ \A p \in Procs :
       /\ pc[p] \in {"lookup", "store"} => host[p] \in Hosts
       /\ pc[p] = "store" => answer[p] \in Versions

LEMMA InitStoresAnswers == Init => StoresAnswers
BY MaxVersionAssumption DEF Init, StoresAnswers, Versions, None, NoHost, Procs

LEMMA NextStoresAnswers ==
  ASSUME StoresAnswers, [Next]_vars
  PROVE  StoresAnswers'
<1> USE DEF StoresAnswers, Goto
<1>1. ASSUME NEW p \in Dialers, NEW h \in Hosts, Fetch(p, h)
      PROVE  StoresAnswers'
  BY <1>1 DEF Fetch, Procs
<1>2. ASSUME NEW p \in Procs, LookupAnswered(p)
      PROVE  StoresAnswers'
  BY <1>2 DEF LookupAnswered
<1>3. ASSUME NEW p \in Procs, LookupFailed(p)
      PROVE  StoresAnswers'
  BY <1>3 DEF LookupFailed, EndLookup
<1>4. ASSUME NEW p \in Procs, Store(p)
      PROVE  StoresAnswers'
  BY <1>4 DEF Store, EndLookup
<1>5. ASSUME NEW p \in Dialers, Dial(p)
      PROVE  StoresAnswers'
  BY <1>5 DEF Dial, EndLookup, Procs
<1>6. CASE RefresherStep
  BY <1>6 DEF RefresherStep, BeginRefresh, RefreshHost, EndRefresh, RefresherReturns, Procs
<1>7. ASSUME NEW h \in Hosts, RecordsChange(h)
      PROVE  StoresAnswers'
  BY <1>7, MaxVersionAssumption DEF RecordsChange, Versions
<1>8. CASE Tick \/ Stop \/ UNCHANGED vars
  BY <1>8 DEF Tick, Stop, vars
<1> QED BY <1>1, <1>2, <1>3, <1>4, <1>5, <1>6, <1>7, <1>8 DEF Next

\* Store is the only step that writes to the cache.
LEMMA NextKeepsEntries ==
  ASSUME StoresAnswers, [Next]_vars,
         NEW h \in Hosts, cache[h] # None
  PROVE  cache'[h] # None
<1>1. ASSUME NEW p \in Procs, Store(p)
      PROVE  cache'[h] # None
  BY <1>1, MaxVersionAssumption DEF Store, StoresAnswers, Versions, None
<1>2. CASE UNCHANGED cache
  BY <1>2
<1> QED BY <1>1, <1>2 DEF Next, RefresherStep, Fetch, LookupAnswered, LookupFailed, Dial,
        BeginRefresh, RefreshHost, EndRefresh, RefresherReturns, Tick, Stop, RecordsChange,
        vars

\* A cached host stays cached, also when a refresh of it fails or an answer of
\* an old lookup comes late.
THEOREM CacheKeepsEntries == Spec => EntriesStay
<1>1. StoresAnswers /\ [Next]_vars => StoresAnswers'
  BY NextStoresAnswers
<1>2. StoresAnswers /\ [Next]_vars => [\A h \in Hosts : cache[h] # None => cache'[h] # None]_vars
  BY NextKeepsEntries
<1> QED BY <1>1, <1>2, InitStoresAnswers, PTL DEF Spec, EntriesStay
=============================================================================
