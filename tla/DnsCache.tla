------------------------------ MODULE DnsCache ------------------------------
(***************************************************************************)
(* The DNS cache shared by the HTTP clients.  A dialer that misses looks   *)
(* the host up and stores what it got; a goroutine looks every cached host *)
(* up again on each tick.  The map is only touched under the lock, but no  *)
(* lock is held over a lookup: an answer may be stored long after it was   *)
(* given.  An answer is the version of the host's records it shows; the    *)
(* dialer tries its addresses one by one.                                  *)
(***************************************************************************)
EXTENDS Naturals, FiniteSets

CONSTANTS
  Dialers,       \* goroutines in DialFunc
  Hosts,
  MaxVersion     \* bound: how often the records of a host change

ASSUME MaxVersionAssumption == MaxVersion \in Nat \ {0}

VARIABLES
  records,       \* the version the DNS servers give for each host
  cache,         \* the version in the cache, None if there is no entry
  pc, host, answer,   \* a dialer or the refresher: step, host, answer held
  todo,          \* hosts the running Refresh has yet to look up
  tick,          \* ticker.C holds a tick
  stopped        \* closer has run: ticker stopped, ch closed, closer = nil

vars == <<records, cache, pc, host, answer, todo, tick, stopped>>

None == 0
Versions == 1 .. MaxVersion
Refresher == "refresher"
Procs == Dialers \cup {Refresher}
NoHost == "none"

Init ==
  /\ records = [h \in Hosts |-> 1]
  /\ cache = [h \in Hosts |-> None]
  /\ pc = [p \in Procs |-> IF p = Refresher THEN "select" ELSE "idle"]
  /\ host = [p \in Procs |-> NoHost]
  /\ answer = [p \in Procs |-> None]
  /\ todo = {}
  /\ tick = FALSE
  /\ stopped = FALSE

Goto(p, label) == pc' = [pc EXCEPT ![p] = label]

\* Fetch: an entry is returned as it is, else LookupIP begins.
Fetch(p, h) ==
  /\ pc[p] = "idle"
  /\ Goto(p, IF cache[h] # None THEN "dial" ELSE "lookup")
  /\ host' = [host EXCEPT ![p] = h]
  /\ answer' = [answer EXCEPT ![p] = cache[h]]
  /\ UNCHANGED <<records, cache, todo, tick, stopped>>

\* lookupIPFn returns what the servers say now.
LookupAnswered(p) ==
  /\ pc[p] = "lookup"
  /\ answer' = [answer EXCEPT ![p] = records[host[p]]]
  /\ Goto(p, "store")
  /\ UNCHANGED <<records, cache, host, todo, tick, stopped>>

\* A dial is over, or the refresher goes on with the next host.
EndLookup(p) ==
  /\ Goto(p, IF p = Refresher THEN "refresh" ELSE "idle")
  /\ host' = [host EXCEPT ![p] = NoHost]
  /\ answer' = [answer EXCEPT ![p] = None]

\* Mutant of LookupFailed: a host that cannot be looked up is forgotten.
LookupFailed_Evicts(p) ==
  /\ pc[p] = "lookup"
  /\ EndLookup(p)
  /\ cache' = [cache EXCEPT ![host[p]] = None]
  /\ UNCHANGED <<records, todo, tick, stopped>>

\* An error or the timeout: nothing is stored.
LookupFailed(p) ==
  /\ pc[p] = "lookup"
  /\ EndLookup(p)
  /\ UNCHANGED <<records, cache, todo, tick, stopped>>

\* r.cache[addr] = ips, whatever the entry is by now; a dialer dials what it
\* got from the servers, whatever is in the cache.
Store(p) ==
  /\ pc[p] = "store"
  /\ cache' = [cache EXCEPT ![host[p]] = answer[p]]
  /\ IF p = Refresher
     THEN EndLookup(p)
     ELSE Goto(p, "dial") /\ UNCHANGED <<host, answer>>
  /\ UNCHANGED <<records, todo, tick, stopped>>

\* The addresses in random order: the first that connects, or the first error
\* once all have failed.  Neither has an effect on the cache.
Dial(p) ==
  /\ pc[p] = "dial"
  /\ EndLookup(p)
  /\ UNCHANGED <<records, cache, todo, tick, stopped>>

-----------------------------------------------------------------------------
(* The goroutine of New.                                                   *)

Tick ==
  /\ ~stopped /\ ~tick
  /\ tick' = TRUE
  /\ UNCHANGED <<records, cache, pc, host, answer, todo, stopped>>

\* Mutant of BeginRefresh: only hosts without an entry are looked up.
BeginRefresh_Missing ==
  /\ pc[Refresher] = "select"
  /\ tick
  /\ tick' = FALSE
  /\ todo' = {h \in Hosts : cache[h] = None}
  /\ Goto(Refresher, "refresh")
  /\ UNCHANGED <<records, cache, host, answer, stopped>>

\* case <-ticker.C: Refresh takes the hosts cached at this moment.
BeginRefresh ==
  /\ pc[Refresher] = "select"
  /\ tick
  /\ tick' = FALSE
  /\ todo' = {h \in Hosts : cache[h] # None}
  /\ Goto(Refresher, "refresh")
  /\ UNCHANGED <<records, cache, host, answer, stopped>>

RefreshHost(h) ==
  /\ pc[Refresher] = "refresh"
  /\ h \in todo
  /\ todo' = todo \ {h}
  /\ Goto(Refresher, "lookup")
  /\ host' = [host EXCEPT ![Refresher] = h]
  /\ UNCHANGED <<records, cache, answer, tick, stopped>>

EndRefresh ==
  /\ pc[Refresher] = "refresh"
  /\ todo = {}
  /\ Goto(Refresher, "select")
  /\ UNCHANGED <<records, cache, host, answer, todo, tick, stopped>>

\* Mutant of RefresherReturns: a loop over the ticks that looks at ch in between.
RefresherReturns_OnTick ==
  /\ pc[Refresher] = "select"
  /\ stopped /\ tick
  /\ Goto(Refresher, "returned")
  /\ UNCHANGED <<records, cache, host, answer, todo, tick, stopped>>

\* case <-ch
RefresherReturns ==
  /\ pc[Refresher] = "select"
  /\ stopped
  /\ Goto(Refresher, "returned")
  /\ UNCHANGED <<records, cache, host, answer, todo, tick, stopped>>

\* Stop: the closer runs once.  A tick already in the channel stays there.
Stop ==
  /\ ~stopped
  /\ stopped' = TRUE
  /\ UNCHANGED <<records, cache, pc, host, answer, todo, tick>>

\* The records of a host change (the servers').
RecordsChange(h) ==
  /\ records[h] < MaxVersion
  /\ records' = [records EXCEPT ![h] = @ + 1]
  /\ UNCHANGED <<cache, pc, host, answer, todo, tick, stopped>>

RefresherStep ==
  \/ BeginRefresh
  \/ \E h \in Hosts : RefreshHost(h)
  \/ EndRefresh
  \/ RefresherReturns

Next ==
  \/ \E p \in Dialers : Dial(p) \/ \E h \in Hosts : Fetch(p, h)
  \/ \E p \in Procs : LookupAnswered(p) \/ LookupFailed(p) \/ Store(p)
  \/ RefresherStep
  \/ Tick
  \/ Stop
  \/ \E h \in Hosts : RecordsChange(h)

Spec == Init /\ [][Next]_vars

\* The ticker ticks until it is stopped and goroutines that can run do.  Each
\* lookup and each dial end, by their timeouts if not before, and a host that is looked up
\* again and again is not out of luck every time.
Fairness ==
  /\ WF_vars(Tick)
  /\ WF_vars(RefresherStep)
  /\ \A p \in Procs : WF_vars(LookupAnswered(p) \/ LookupFailed(p) \/ Store(p))
  /\ \A p \in Dialers : WF_vars(Dial(p))
  /\ \A h \in Hosts : SF_vars(LookupAnswered(Refresher) /\ host[Refresher] = h)

FairSpec == Spec /\ Fairness

-----------------------------------------------------------------------------

\* A cached host stays cached: what a scan has resolved once it keeps resolving,
\* also when the refresh of it fails.
EntriesStay == [][\A h \in Hosts : cache[h] # None => cache'[h] # None]_vars

\* Once the records of a host have stopped changing, the cache settles on them:
\* an old answer stored late is replaced by a later refresh, and in the end no
\* lookup holds one and nobody dials one.
SettlesOnRecords ==
  <>[](stopped \/
         /\ \A h \in Hosts : cache[h] # None => cache[h] = records[h]
         /\ \A p \in Dialers : answer[p] # None => answer[p] = records[host[p]])

\* After Stop the goroutine ends, even when it finds both a tick and the closed
\* channel ready and the select keeps taking the tick.
StopEndsRefresher == stopped ~> pc[Refresher] = "returned"
=============================================================================
