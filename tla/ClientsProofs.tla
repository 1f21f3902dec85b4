--------------------------- MODULE ClientsProofs ---------------------------
(***************************************************************************)
(* Both HTTP clients, for any number of workers, payloads and redirects:   *)
(* a response of the browser is complete and still, --renewSession gives   *)
(* each payload a session of its own, and the shared jar of                *)
(* --followCookies keeps the sessions few.                                 *)
(***************************************************************************)
EXTENDS Clients, FiniteSetTheorems, TLAPS

\* scanner.New makes one client, and the browser reads no flag of the sessions.
ClientInv ==
  /\ httpClient \in {"gohttp", "chrome"}
  /\ httpClient = "chrome" => ~GoHttp!HasJar /\ ~GoHttp!Renewing

LEMMA ClientInvariant == Spec => []ClientInv
<1>1. Init => ClientInv
  BY DEF Init, ClientInv, GoHttp!HasJar, GoHttp!Renewing
<1>2. ClientInv /\ [Next]_vars => ClientInv'
  BY DEF Next, vars, goHttpVars, ClientInv, GoHttp!HasJar, GoHttp!Renewing
<1> QED BY <1>1, <1>2, PTL DEF Spec

-----------------------------------------------------------------------------
(* The browser.                                                            *)

ChromeTypes ==
  /\ phase \in [Workers -> {"idle", "collect", "wait"}]
  /\ goroutine \in [Workers -> {"navigate", "tasks", "close", "returned"}]
  /\ errorChan \in [Workers -> Nat]
  /\ err \in [Workers -> Nat]
  /\ chanClosed \in [Workers -> BOOLEAN]
  /\ runFailed \in [Workers -> BOOLEAN]
  /\ responseMeta \in [Workers -> {"empty", "answer", "error"}]
  /\ result \in [Workers -> {"none", "response", "error"}]

\* The goroutine runs only while its worker collects errors; one that was sent is
\* in the channel or collected, so that a worker past a closed channel has it; and
\* tasks that did not fail have written the response.
Collected ==
  \A w \in Workers :
    /\ goroutine[w] # "returned" => phase[w] = "collect" /\ ~chanClosed[w]
    /\ phase[w] = "wait" => errorChan[w] = 0
    /\ runFailed[w] => errorChan[w] > 0 \/ err[w] > 0
    /\ \/ goroutine[w] = "close"
       \/ goroutine[w] = "returned" /\ phase[w] # "idle"
       => runFailed[w] \/ responseMeta[w] # "empty"
    /\ phase[w] # "idle" => result[w] = "none"

ChromeInv ==
  /\ httpClient = "gohttp" => \A w \in Workers : result[w] = "none"
  /\ httpClient = "chrome" => ChromeTypes /\ Collected /\ ResponseIsSettled

\* The error of a failed run is in the channel.
LEMMA RunFailsKeeps ==
  ASSUME ChromeTypes, NEW w \in Workers, Chrome!RunFails(w)
  PROVE  /\ errorChan' \in [Workers -> Nat] /\ errorChan'[w] > 0
         /\ runFailed' \in [Workers -> BOOLEAN] /\ runFailed'[w]
         /\ \A v \in Workers \ {w} :
              errorChan'[v] = errorChan[v] /\ runFailed'[v] = runFailed[v]
<1>1. /\ runFailed' \in [Workers -> BOOLEAN] /\ runFailed'[w]
      /\ \A v \in Workers \ {w} : runFailed'[v] = runFailed[v]
  BY Zenon DEF ChromeTypes, Chrome!RunFails
<1> QED BY <1>1 DEF ChromeTypes, Chrome!RunFails

LEMMA ChromeStep ==
  ASSUME httpClient = "chrome", ChromeTypes, Collected, ResponseIsSettled, Chrome!Next
  PROVE  (ChromeTypes /\ Collected /\ ResponseIsSettled)'
<1> USE DEF ChromeTypes, Collected, ResponseIsSettled, Chrome!ResponseIsSettled,
            Chrome!chanVars
<1>1. ASSUME NEW w \in Workers, Chrome!GetRequestFails(w)
      PROVE  (ChromeTypes /\ Collected /\ ResponseIsSettled)'
  BY <1>1 DEF Chrome!GetRequestFails
<1>2. ASSUME NEW w \in Workers, Chrome!Begin(w)
      PROVE  (ChromeTypes /\ Collected /\ ResponseIsSettled)'
  BY <1>2 DEF Chrome!Begin
<1>3. ASSUME NEW w \in Workers, Chrome!Navigate(w)
      PROVE  (ChromeTypes /\ Collected /\ ResponseIsSettled)'
  <2>1. CASE UNCHANGED <<errorChan, runFailed>>
    BY <1>3, <2>1 DEF Chrome!Navigate
  <2>2. CASE Chrome!RunFails(w)
    BY <1>3, <2>2, RunFailsKeeps DEF Chrome!Navigate
  <2> QED BY <1>3, <2>1, <2>2 DEF Chrome!Navigate
<1>4. ASSUME NEW w \in Workers, Chrome!RunTasks(w)
      PROVE  (ChromeTypes /\ Collected /\ ResponseIsSettled)'
  <2>1. CASE UNCHANGED <<errorChan, runFailed>>
    BY <1>4, <2>1 DEF Chrome!RunTasks, Chrome!RunFails
  <2>2. CASE Chrome!RunFails(w) /\ UNCHANGED responseMeta
    BY <1>4, <2>2, RunFailsKeeps DEF Chrome!RunTasks
  <2> QED BY <1>4, <2>1, <2>2 DEF Chrome!RunTasks
<1>5. ASSUME NEW w \in Workers, Chrome!CloseChan(w)
      PROVE  (ChromeTypes /\ Collected /\ ResponseIsSettled)'
  BY <1>5 DEF Chrome!CloseChan
<1>6. ASSUME NEW w \in Workers, Chrome!Collect(w)
      PROVE  (ChromeTypes /\ Collected /\ ResponseIsSettled)'
  BY <1>6 DEF Chrome!Collect
<1>7. ASSUME NEW w \in Workers, Chrome!Return(w)
      PROVE  (ChromeTypes /\ Collected /\ ResponseIsSettled)'
  BY <1>7 DEF Chrome!Return
<1>8. CASE Chrome!Cancel
  BY <1>8 DEF Chrome!Cancel
<1> QED BY <1>1, <1>2, <1>3, <1>4, <1>5, <1>6, <1>7, <1>8
        DEF Chrome!Next, Chrome!BrowserStep, Chrome!WorkerStep

\* A response the worker is given is complete and nothing writes to it any more.
THEOREM SettledResponse == Spec => []ResponseIsSettled
<1>1. Init => ChromeInv
  BY DEF Init, Chrome!Init, ChromeInv, ChromeTypes, Collected, ResponseIsSettled,
         Chrome!ResponseIsSettled
<1>2. ChromeInv /\ [Next]_vars => ChromeInv'
  <2> SUFFICES ASSUME ChromeInv, [Next]_vars PROVE ChromeInv'
    OBVIOUS
  <2>1. CASE httpClient = "chrome" /\ Chrome!Next /\ UNCHANGED httpClient
    BY <2>1, ChromeStep DEF ChromeInv
  <2>2. CASE httpClient = "gohttp" /\ UNCHANGED <<httpClient, chromeVars>>
    BY <2>2 DEF ChromeInv, chromeVars
  <2>3. CASE UNCHANGED vars
    BY <2>3 DEF vars, ChromeInv, ChromeTypes, Collected, chromeVars, ResponseIsSettled,
                Chrome!ResponseIsSettled
  <2> QED BY <2>1, <2>2, <2>3 DEF Next
<1>3. ClientInv /\ ChromeInv => ResponseIsSettled
  BY DEF ClientInv, ChromeInv, ResponseIsSettled, Chrome!ResponseIsSettled
<1> QED BY <1>1, <1>2, <1>3, ClientInvariant, PTL DEF Spec

-----------------------------------------------------------------------------
(* The sessions of the net/http client.                                    *)

GoHttpTypes ==
  /\ phase \in [Workers -> {"idle", "cookies", "payload"}]
  /\ at \in [Workers -> {"send", "answered", "body"}]
  /\ host \in [Workers -> {"target", "other"}]
  /\ setCookie \in [Workers -> Int] /\ renewed \in [Workers -> Int]
  /\ jar \in Int
  /\ opened \in Nat /\ lost \in Nat /\ planted \in Nat

\* Numbers of sessions are those of opened ones, the target's answers bring no
\* other cookie, and a worker between two payloads waits for nothing.
Cookies ==
  /\ jar <= opened
  /\ \A w \in Workers :
       /\ setCookie[w] \in (1 .. opened) \cup {GoHttp!NoCookie, GoHttp!Foreign}
       /\ renewed[w] <= opened
       /\ phase[w] = "idle" => at[w] = "send"
       /\ phase[w] = "cookies" => GoHttp!Renewing
       /\ at[w] = "answered" /\ setCookie[w] # GoHttp!NoCookie =>
            (setCookie[w] \in 1 .. opened <=> host[w] = "target")

GoHttpInv == httpClient = "gohttp" => GoHttpTypes /\ Cookies

\* The steps of a client other than Begin and Cancel.
LEMMA GoHttpStep ==
  ASSUME GoHttpTypes, Cookies, GoHttp!Next
  PROVE  GoHttpTypes' /\ Cookies'
<1> USE DEF GoHttpTypes, Cookies, GoHttp!NewExchange, GoHttp!NoCookie, GoHttp!Foreign,
            GoHttp!Renewing
<1>0. ASSUME NEW w \in Workers, GoHttp!RequestFails(w)
      PROVE  /\ phase' \in [Workers -> {"idle", "cookies", "payload"}]
             /\ at' \in [Workers -> {"send", "answered", "body"}]
             /\ host' \in [Workers -> {"target", "other"}]
             /\ setCookie' \in [Workers -> Int]
             /\ at'[w] = "send" /\ setCookie'[w] = GoHttp!NoCookie
             /\ phase'[w] \in {phase[w], "idle"}
             /\ \A v \in Workers \ {w} :
                  /\ phase'[v] = phase[v] /\ at'[v] = at[v]
                  /\ host'[v] = host[v] /\ setCookie'[v] = setCookie[v]
  BY <1>0 DEF GoHttp!RequestFails
<1>1. ASSUME NEW w \in Workers, GoHttp!Begin(w)
      PROVE  GoHttpTypes' /\ Cookies'
  BY <1>1 DEF GoHttp!Begin, GoHttp!history
<1>2. ASSUME NEW w \in Workers, GoHttp!Exchange(w)
      PROVE  GoHttpTypes' /\ Cookies'
  BY <1>2 DEF GoHttp!Exchange, GoHttp!Foreign, GoHttp!jars, GoHttp!history
<1>3. ASSUME NEW w \in Workers, GoHttp!Fail(w)
      PROVE  GoHttpTypes' /\ Cookies'
  BY <1>0, <1>3 DEF GoHttp!Fail, GoHttp!jars
<1>4. ASSUME NEW w \in Workers, GoHttp!StoreCookies(w)
      PROVE  /\ renewed' \in [Workers -> Int] /\ jar' \in Int
             /\ jar' <= opened /\ \A v \in Workers : renewed'[v] <= opened
  BY <1>4 DEF GoHttp!StoreCookies
<1>5. ASSUME NEW w \in Workers, NEW h \in GoHttp!Hosts, GoHttp!Redirected(w, h)
      PROVE  GoHttpTypes' /\ Cookies'
  <2>1. CASE GoHttp!RequestFails(w)
    BY <1>0, <1>4, <1>5, <2>1 DEF GoHttp!Redirected, GoHttp!history
  <2>2. CASE GoHttp!NewExchange(w, h, hop[w] + 1) /\ UNCHANGED <<phase, attempt>>
    BY <1>4, <1>5, <2>2 DEF GoHttp!Redirected, GoHttp!Hosts, GoHttp!history
  <2> QED BY <1>5, <2>1, <2>2 DEF GoHttp!Redirected
<1>6. ASSUME NEW w \in Workers, GoHttp!GotCookies(w)
      PROVE  GoHttpTypes' /\ Cookies'
  BY <1>4, <1>6 DEF GoHttp!GotCookies
<1>7. ASSUME NEW w \in Workers, GoHttp!GotResponse(w)
      PROVE  GoHttpTypes' /\ Cookies'
  BY <1>4, <1>7 DEF GoHttp!GotResponse, GoHttp!history
<1>8. ASSUME NEW w \in Workers, GoHttp!ReadBody(w)
      PROVE  GoHttpTypes' /\ Cookies'
  BY <1>8 DEF GoHttp!ReadBody
<1>9. CASE GoHttp!Cancel
  BY <1>9 DEF GoHttp!Cancel, GoHttp!exchange, GoHttp!jars, GoHttp!history
<1> QED BY <1>1, <1>2, <1>3, <1>5, <1>6, <1>7, <1>8, <1>9
        DEF GoHttp!Next, GoHttp!ClientStep

LEMMA GoHttpInvariant == Spec => []GoHttpInv
<1>1. Init => GoHttpInv
  BY DEF Init, GoHttp!Init, GoHttpInv, GoHttpTypes, Cookies, GoHttp!NoCookie
<1>2. GoHttpInv /\ [Next]_vars => GoHttpInv'
  BY GoHttpStep DEF Next, vars, GoHttpInv, GoHttpTypes, Cookies, goHttpVars, GoHttp!Renewing
<1> QED BY <1>1, <1>2, PTL DEF Spec

-----------------------------------------------------------------------------
(* The shared jar of --followCookies.                                      *)

\* Workers whose answer has opened a session the jar does not know of.
Holding == {w \in Workers : at[w] = "answered" /\ setCookie[w] \in 1 .. opened}

\* Sessions are opened while the jar has none; each worker opens at most one then,
\* and until it is done with the answer the jar stays without.
SharedInv ==
  httpClient = "gohttp" /\ GoHttp!HasJar =>
    /\ \A w \in Workers : phase[w] # "cookies"
    /\ opened <= Cardinality(Workers) * planted + lost
                   + (IF jar \in 1 .. opened THEN Cardinality(Workers)
                      ELSE Cardinality(Holding))

LEMMA WorkersCardinality ==
  /\ Cardinality(Workers) \in Nat
  /\ \A S \in SUBSET Workers :
       /\ IsFiniteSet(S)
       /\ Cardinality(S) \in Nat /\ Cardinality(S) <= Cardinality(Workers)
BY WorkersAssumption, FS_Subset, FS_CardinalityType

\* The left side has grown by no more than the right.
LEMMA SharedStep ==
  ASSUME httpClient = "gohttp", GoHttp!HasJar, GoHttpTypes, Cookies, SharedInv, GoHttp!Next,
         UNCHANGED httpClient
  PROVE  SharedInv'
<1> DEFINE K == Cardinality(Workers)
           H == Cardinality(Holding)
<1>0. /\ K \in Nat /\ H \in Nat /\ H' \in Nat /\ H <= K /\ H' <= K
      /\ K * planted \in Nat /\ K * (planted + 1) = K * planted + K
  <2>1. Holding \in SUBSET Workers /\ Holding' \in SUBSET Workers
    BY DEF Holding
  <2> QED BY <2>1, WorkersCardinality DEF GoHttpTypes
<1> USE DEF GoHttpTypes, Cookies, SharedInv, GoHttp!HasJar, GoHttp!NoCookie
<1>1. SUFFICES ASSUME UNCHANGED cfg
               PROVE  /\ \A w \in Workers : phase'[w] # "cookies"
                      /\ opened' <= K * planted' + lost'
                                      + (IF jar' \in 1 .. opened' THEN K ELSE H')
  BY DEF GoHttp!Next, GoHttp!ClientStep, GoHttp!Begin, GoHttp!Exchange, GoHttp!Fail,
         GoHttp!Redirected, GoHttp!GotCookies, GoHttp!GotResponse, GoHttp!ReadBody,
         GoHttp!Cancel
<1>2. \A w \in Workers : phase'[w] # "cookies"
  BY DEF GoHttp!Next, GoHttp!ClientStep, GoHttp!Begin, GoHttp!Exchange, GoHttp!Fail,
         GoHttp!Redirected, GoHttp!GotCookies, GoHttp!GotResponse, GoHttp!ReadBody,
         GoHttp!Cancel, GoHttp!RequestFails, GoHttp!Renewing
<1> HIDE DEF K, H
\* No worker's answer has changed, or one without a session.
<1>3. ASSUME Holding' = Holding, UNCHANGED <<opened, jar, planted, lost>>
      PROVE  opened' <= K * planted' + lost' + (IF jar' \in 1 .. opened' THEN K ELSE H')
  BY <1>3 DEF K, H
<1>4. ASSUME NEW w \in Workers, GoHttp!Begin(w)
      PROVE  opened' <= K * planted' + lost' + (IF jar' \in 1 .. opened' THEN K ELSE H')
  BY <1>3, <1>4 DEF GoHttp!Begin, GoHttp!NewExchange, GoHttp!history, Holding
<1>5. ASSUME NEW w \in Workers, GoHttp!Exchange(w)
      PROVE  opened' <= K * planted' + lost' + (IF jar' \in 1 .. opened' THEN K ELSE H')
  <2>1. UNCHANGED <<jar, planted, lost>>
    BY <1>5 DEF GoHttp!Exchange, GoHttp!jars, GoHttp!history
  <2>2. CASE opened' = opened
    <3>1. setCookie'[w] \notin 1 .. opened
      BY <1>5, <2>2 DEF GoHttp!Exchange, GoHttp!Foreign
    <3>2. Holding' = Holding
      BY <1>5, <2>2, <3>1 DEF GoHttp!Exchange, Holding
    <3> QED BY <1>3, <2>1, <2>2, <3>2
  <2>3. CASE opened' # opened
    <3>1. /\ opened' = opened + 1 /\ setCookie' = [setCookie EXCEPT ![w] = opened + 1]
          /\ at' = [at EXCEPT ![w] = "answered"] /\ at[w] = "send"
          /\ jar \notin 1 .. opened
      BY <1>5, <2>3 DEF GoHttp!Exchange, GoHttp!CookieFor
    <3>2. Holding' = Holding \cup {w} /\ w \notin Holding
      <4>1. w \in Holding' /\ w \notin Holding
        BY <3>1 DEF Holding
      <4>2. \A v \in Workers \ {w} : v \in Holding' <=> v \in Holding
        BY <3>1 DEF Holding, GoHttp!Foreign
      <4>3. Holding \subseteq Workers /\ Holding' \subseteq Workers
        BY DEF Holding
      <4> QED BY <4>1, <4>2, <4>3
    <3>3. H' = H + 1
      <4>1. IsFiniteSet(Holding)
        BY WorkersCardinality DEF Holding
      <4> QED BY <3>2, <4>1, FS_AddElement DEF H
    <3> QED BY <1>0, <2>1, <3>1, <3>3 DEF K, H
  <2> QED BY <2>2, <2>3
<1>6. ASSUME NEW w \in Workers, GoHttp!Fail(w)
      PROVE  opened' <= K * planted' + lost' + (IF jar' \in 1 .. opened' THEN K ELSE H')
  <2>1. /\ UNCHANGED <<jar, planted, opened>>
        /\ Holding' = Holding \ {w}
        /\ lost' = IF w \in Holding THEN lost + 1 ELSE lost
    BY <1>6 DEF GoHttp!Fail, GoHttp!RequestFails, GoHttp!NewExchange, GoHttp!jars, Holding
  <2>2. CASE w \notin Holding
    BY <1>3, <2>1, <2>2
  <2>3. CASE w \in Holding
    <3>1. H' = H - 1
      <4>1. IsFiniteSet(Holding)
        BY WorkersCardinality DEF Holding
      <4> QED BY <2>1, <2>3, <4>1, FS_RemoveElement DEF H
    <3> QED BY <1>0, <2>1, <2>3, <3>1 DEF K, H
  <2> QED BY <2>2, <2>3
\* A session that is stored makes the right side K; anything else is not stored.
<1>7. ASSUME NEW w \in Workers, at[w] = "answered", at'[w] # "answered",
             \A v \in Workers \ {w} : at'[v] = at[v] /\ setCookie'[v] = setCookie[v],
             GoHttp!StoreCookies(w), phase[w] = "payload", UNCHANGED <<opened, planted, lost>>
      PROVE  opened' <= K * planted' + lost' + (IF jar' \in 1 .. opened' THEN K ELSE H')
  <2>1. CASE w \in Holding
    <3>1. jar' \in 1 .. opened
      BY <1>7, <2>1 DEF GoHttp!StoreCookies, Holding
    <3> QED BY <1>0, <1>7, <3>1 DEF K, H
  <2>2. CASE w \notin Holding
    <3>1. jar' = jar
      BY <1>7, <2>2 DEF GoHttp!StoreCookies, Holding
    <3>2. Holding' = Holding
      BY <1>7, <2>2 DEF Holding
    <3> QED BY <1>3, <1>7, <3>1, <3>2
  <2> QED BY <2>1, <2>2
<1>8. ASSUME NEW w \in Workers, NEW h \in GoHttp!Hosts, GoHttp!Redirected(w, h)
      PROVE  opened' <= K * planted' + lost' + (IF jar' \in 1 .. opened' THEN K ELSE H')
  BY <1>7, <1>8 DEF GoHttp!Redirected, GoHttp!RequestFails, GoHttp!NewExchange, GoHttp!history
<1>9. ASSUME NEW w \in Workers, GoHttp!GotResponse(w)
      PROVE  opened' <= K * planted' + lost' + (IF jar' \in 1 .. opened' THEN K ELSE H')
  BY <1>7, <1>9 DEF GoHttp!GotResponse, GoHttp!history
<1>10. ASSUME NEW w \in Workers, GoHttp!ReadBody(w)
      PROVE  opened' <= K * planted' + lost' + (IF jar' \in 1 .. opened' THEN K ELSE H')
  <2>1. Holding' = Holding /\ UNCHANGED <<opened, lost>>
    BY <1>10 DEF GoHttp!ReadBody, GoHttp!NewExchange, Holding
  <2>2. CASE jar' = jar /\ planted' = planted
    BY <1>3, <2>1, <2>2
  <2>3. CASE jar' \in 1 .. opened /\ planted' = planted
    BY <1>0, <2>1, <2>3 DEF K, H
  <2>4. CASE planted' = planted + 1
    BY <1>0, <2>1, <2>4 DEF K, H
  <2> QED BY <1>10, <2>2, <2>3, <2>4 DEF GoHttp!ReadBody
<1>11. CASE GoHttp!Cancel
  BY <1>3, <1>11 DEF GoHttp!Cancel, GoHttp!exchange, GoHttp!jars, GoHttp!history, Holding
<1>12. ASSUME NEW w \in Workers PROVE ~GoHttp!GotCookies(w)
  BY DEF GoHttp!GotCookies
<1> QED BY <1>2, <1>4, <1>5, <1>6, <1>8, <1>9, <1>10, <1>11, <1>12
        DEF GoHttp!Next, GoHttp!ClientStep

LEMMA SameJarCardinality == GoHttp!Cardinality(Workers) = Cardinality(Workers)
BY Zenon DEF GoHttp!Cardinality, Cardinality

\* The target opens a session per worker, and more only for answers that were
\* lost and for cookies of another host that took the place of its own.
THEOREM SharedSessions == Spec => []SessionsAreShared
<1>1. Init => SharedInv
  <2> SUFFICES ASSUME Init, httpClient = "gohttp" PROVE SharedInv
    BY DEF SharedInv
  <2>1. Holding \in SUBSET Workers
    BY DEF Holding
  <2>2. Cardinality(Holding) \in Nat
    BY <2>1, WorkersCardinality
  <2> QED BY <2>2, WorkersCardinality DEF Init, GoHttp!Init, SharedInv
<1>2. GoHttpInv /\ SharedInv /\ [Next]_vars => SharedInv'
  <2> SUFFICES ASSUME GoHttpInv, SharedInv, [Next]_vars PROVE SharedInv'
    OBVIOUS
  <2>1. CASE UNCHANGED vars
    BY <2>1 DEF vars, goHttpVars, SharedInv, Holding, GoHttp!HasJar
  <2>2. CASE httpClient = "gohttp" /\ GoHttp!Next /\ UNCHANGED httpClient
    <3>1. UNCHANGED cfg
      BY <2>2
         DEF GoHttp!Next, GoHttp!ClientStep, GoHttp!Begin, GoHttp!Exchange, GoHttp!Fail,
             GoHttp!Redirected, GoHttp!GotCookies, GoHttp!GotResponse, GoHttp!ReadBody,
             GoHttp!Cancel
    <3>2. CASE GoHttp!HasJar
      BY <2>2, <3>2, SharedStep DEF GoHttpInv
    <3>3. CASE ~GoHttp!HasJar
      BY <3>1, <3>3 DEF SharedInv, GoHttp!HasJar
    <3> QED BY <3>2, <3>3
  <2>3. CASE httpClient = "chrome" /\ UNCHANGED httpClient
    BY <2>3 DEF SharedInv
  <2> QED BY <2>1, <2>2, <2>3 DEF Next
<1>3. ASSUME GoHttpInv, SharedInv, ClientInv
      PROVE  SessionsAreShared
  <2> SUFFICES ASSUME httpClient = "gohttp", GoHttp!HasJar
               PROVE  opened <= Cardinality(Workers) * (1 + planted) + lost
    BY <1>3, SameJarCardinality DEF ClientInv, SessionsAreShared, GoHttp!SessionsAreShared
  <2> DEFINE K == Cardinality(Workers)
             H == Cardinality(Holding)
  <2>1. Holding \in SUBSET Workers
    BY DEF Holding
  <2>2. K \in Nat /\ H \in Nat /\ H <= K
    BY <2>1, WorkersCardinality
  <2>3. opened <= K * planted + lost + (IF jar \in 1 .. opened THEN K ELSE H)
    BY <1>3 DEF SharedInv
  <2>4. opened \in Nat /\ lost \in Nat /\ planted \in Nat
    BY <1>3 DEF GoHttpInv, GoHttpTypes
  <2> HIDE DEF K, H
  <2>5. K * planted \in Nat /\ K * (1 + planted) = K * planted + K
    BY <2>2, <2>4
  <2>6. opened <= K * (1 + planted) + lost
    BY <2>2, <2>3, <2>4, <2>5
  <2> QED BY <2>6 DEF K
<1> QED BY <1>1, <1>2, <1>3, GoHttpInvariant, ClientInvariant, PTL DEF Spec

-----------------------------------------------------------------------------
(* The sessions of --renewSession.                                         *)

\* Sessions no payload has gone out with.
Fresh == (1 .. opened) \ used

\* What getCookies has got so far: its jar and the cookie of an answer.
Mine(w) == {renewed[w], setCookie[w]} \ {GoHttp!NoCookie}

\* The cookies of a getCookies are fresh and its own; the first answer of an attempt
\* brings one, if the jar has none, and redirects to other hosts come after it.
Renewal ==
  /\ \A w \in Workers : phase[w] = "cookies" =>
       /\ Mine(w) \subseteq Fresh
       /\ setCookie[w] # GoHttp!NoCookie => host[w] = "target"
       /\ ~cfg.sessions => Mine(w) = {}
       /\ cfg.sessions /\ at[w] = "answered" => Mine(w) # {}
       /\ cfg.sessions /\ host[w] = "other" => renewed[w] # GoHttp!NoCookie
  /\ \A v, w \in Workers :
       v # w /\ phase[v] = "cookies" /\ phase[w] = "cookies" => Mine(v) \cap Mine(w) = {}
  /\ used \subseteq 0 .. opened

RenewInv == httpClient = "gohttp" /\ GoHttp!Renewing => Renewal

\* A step that touches one worker's cookies, and takes none from another.
LEMMA OwnStep ==
  ASSUME Renewal, NEW w \in Workers, UNCHANGED cfg,
         opened' >= opened, opened \in Nat, opened' \in Nat,
         \A v \in Workers \ {w} :
           /\ phase'[v] = phase[v] /\ at'[v] = at[v] /\ host'[v] = host[v]
           /\ setCookie'[v] = setCookie[v] /\ renewed'[v] = renewed[v],
         used \subseteq used', used' \subseteq 0 .. opened,
         \A v \in Workers \ {w} :
           phase[v] = "cookies" => Mine(v) \cap (used' \cup (Mine(w)' \ Mine(w))) \subseteq used,
         phase'[w] = "cookies" => phase[w] = "cookies" \/ Mine(w)' = {},
         phase'[w] = "cookies" =>
           /\ Mine(w)' \subseteq Fresh'
           /\ setCookie'[w] # GoHttp!NoCookie => host'[w] = "target"
           /\ ~cfg.sessions => Mine(w)' = {}
           /\ cfg.sessions /\ at'[w] = "answered" => Mine(w)' # {}
           /\ cfg.sessions /\ host'[w] = "other" => renewed'[w] # GoHttp!NoCookie
  PROVE  Renewal'
<1>1. \A v \in Workers \ {w} : Mine(v)' = Mine(v)
  BY DEF Mine
<1>2. \A v \in Workers \ {w} : phase[v] = "cookies" => Mine(v) \subseteq Fresh'
  BY DEF Renewal, Fresh
<1>3. \A v \in Workers \ {w} :
        phase[v] = "cookies" /\ phase'[w] = "cookies" => Mine(v) \cap Mine(w)' = {}
  BY DEF Renewal, Fresh
<1>4. used' \subseteq 0 .. opened'
  OBVIOUS
<1>5. \A v \in Workers : phase'[v] = "cookies" =>
        /\ Mine(v)' \subseteq Fresh'
        /\ setCookie'[v] # GoHttp!NoCookie => host'[v] = "target"
        /\ ~cfg.sessions => Mine(v)' = {}
        /\ cfg.sessions /\ at'[v] = "answered" => Mine(v)' # {}
        /\ cfg.sessions /\ host'[v] = "other" => renewed'[v] # GoHttp!NoCookie
  BY <1>1, <1>2 DEF Renewal
<1>6. \A u, v \in Workers :
        u # v /\ phase'[u] = "cookies" /\ phase'[v] = "cookies" => Mine(u)' \cap Mine(v)' = {}
  BY <1>1, <1>3 DEF Renewal
<1> QED BY <1>4, <1>5, <1>6 DEF Renewal

LEMMA RenewStep ==
  ASSUME httpClient = "gohttp", GoHttp!Renewing, GoHttpTypes, Cookies, Renewal, GoHttp!Next
  PROVE  Renewal'
<1> USE DEF GoHttpTypes, Cookies, GoHttp!NewExchange, GoHttp!NoCookie, GoHttp!Foreign
<1>0. ~GoHttp!HasJar
  BY DEF GoHttp!HasJar, GoHttp!Renewing
<1>1. \A v \in Workers : phase[v] = "cookies" => Mine(v) \subseteq Fresh
  BY DEF Renewal
\* Cookies that go nowhere.
<1>2. ASSUME NEW w \in Workers, UNCHANGED <<cfg, opened, used>>,
             \A v \in Workers \ {w} :
               /\ phase'[v] = phase[v] /\ at'[v] = at[v] /\ host'[v] = host[v]
               /\ setCookie'[v] = setCookie[v] /\ renewed'[v] = renewed[v],
             Mine(w)' \subseteq Mine(w),
             phase'[w] = "cookies" => phase[w] = "cookies" \/ Mine(w)' = {},
             phase'[w] = "cookies" =>
               /\ setCookie'[w] # GoHttp!NoCookie => host'[w] = "target"
               /\ cfg.sessions /\ at'[w] = "answered" => Mine(w)' # {}
               /\ cfg.sessions /\ host'[w] = "other" => renewed'[w] # GoHttp!NoCookie
      PROVE  Renewal'
  <2>1. used \subseteq 0 .. opened /\ opened \in Nat
    BY DEF Renewal
  <2>2. phase'[w] = "cookies" =>
          /\ Mine(w)' \subseteq Fresh'
          /\ ~cfg.sessions => Mine(w)' = {}
    BY <1>2 DEF Renewal, Fresh
  <2>3. \A v \in Workers \ {w} :
          phase[v] = "cookies" => Mine(v) \cap (used' \cup (Mine(w)' \ Mine(w))) \subseteq used
    BY <1>2
  <2> QED BY <1>2, <2>1, <2>2, <2>3, OwnStep
<1>3. ASSUME NEW w \in Workers, GoHttp!Begin(w)
      PROVE  Renewal'
  <2>1. Mine(w)' = {}
    BY <1>3 DEF GoHttp!Begin, Mine
  <2> QED BY <1>2, <1>3, <2>1 DEF GoHttp!Begin, GoHttp!history
<1>4. ASSUME NEW w \in Workers, GoHttp!Exchange(w)
      PROVE  Renewal'
  <2>1. /\ UNCHANGED <<cfg, used, renewed, phase, host>>
        /\ at' = [at EXCEPT ![w] = "answered"]
        /\ \A v \in Workers \ {w} : setCookie'[v] = setCookie[v]
    BY <1>4 DEF GoHttp!Exchange, GoHttp!jars, GoHttp!history
  <2>2. \/ opened' = opened /\ setCookie'[w] = GoHttp!NoCookie
        \/ /\ opened' = opened + 1 /\ setCookie'[w] = opened + 1
           /\ cfg.sessions /\ host[w] = "target"
    BY <1>0, <1>4 DEF GoHttp!Exchange
  <2>3. phase[w] = "cookies" /\ cfg.sessions /\ opened' = opened =>
          renewed[w] # GoHttp!NoCookie
    BY <1>0, <1>4, <2>2 DEF GoHttp!Exchange, GoHttp!CookieFor, Renewal
  <2>4. Mine(w)' \subseteq Mine(w) \cup {opened + 1}
    BY <2>1, <2>2 DEF Mine
  <2>5. used \subseteq 0 .. opened /\ used \subseteq 0 .. opened'
    BY <2>2 DEF Renewal
  <2>6. phase'[w] = "cookies" =>
          /\ Mine(w)' \subseteq Fresh'
          /\ setCookie'[w] # GoHttp!NoCookie => host'[w] = "target"
          /\ ~cfg.sessions => Mine(w)' = {}
          /\ cfg.sessions /\ at'[w] = "answered" => Mine(w)' # {}
          /\ cfg.sessions /\ host'[w] = "other" => renewed'[w] # GoHttp!NoCookie
    BY <1>1, <2>1, <2>2, <2>3, <2>5 DEF Renewal, Mine, Fresh
  <2>7. \A v \in Workers \ {w} :
          phase[v] = "cookies" => Mine(v) \cap (used' \cup (Mine(w)' \ Mine(w))) \subseteq used
    BY <1>1, <2>1, <2>4 DEF Fresh
  <2> QED BY <2>1, <2>2, <2>5, <2>6, <2>7, OwnStep
<1>5. ASSUME NEW w \in Workers, GoHttp!Fail(w)
      PROVE  Renewal'
  <2>1. Mine(w)' \subseteq Mine(w)
    BY <1>5 DEF GoHttp!Fail, GoHttp!RequestFails, GoHttp!jars, Mine
  <2> QED BY <1>2, <1>5, <2>1 DEF GoHttp!Fail, GoHttp!RequestFails, GoHttp!jars
\* The answer's cookie reaches the jar of getCookies, or nothing does.
<1>6. ASSUME NEW w \in Workers, GoHttp!StoreCookies(w), at[w] = "answered"
      PROVE  /\ \A v \in Workers \ {w} : renewed'[v] = renewed[v]
             /\ renewed'[w] \in {renewed[w], setCookie[w]}
             /\ phase[w] = "cookies" /\ cfg.sessions => renewed'[w] # GoHttp!NoCookie
  BY <1>6 DEF GoHttp!StoreCookies, Renewal, Mine
<1>7. ASSUME NEW w \in Workers, NEW h \in GoHttp!Hosts, GoHttp!Redirected(w, h)
      PROVE  Renewal'
  <2>1. /\ UNCHANGED <<cfg, opened, used>> /\ setCookie'[w] = GoHttp!NoCookie
        /\ at'[w] = "send" /\ phase'[w] \in {phase[w], "idle"}
    BY <1>7 DEF GoHttp!Redirected, GoHttp!RequestFails, GoHttp!history
  <2>2. \A v \in Workers \ {w} :
          /\ phase'[v] = phase[v] /\ at'[v] = at[v] /\ host'[v] = host[v]
          /\ setCookie'[v] = setCookie[v]
    BY <1>7 DEF GoHttp!Redirected, GoHttp!RequestFails
  <2>3. GoHttp!StoreCookies(w) /\ at[w] = "answered"
    BY <1>7 DEF GoHttp!Redirected
  <2>4. Mine(w)' \subseteq Mine(w)
    BY <1>6, <2>1, <2>3 DEF Mine
  <2> QED BY <1>2, <1>6, <2>1, <2>2, <2>3, <2>4
<1>8. ASSUME NEW w \in Workers, GoHttp!GotCookies(w)
      PROVE  Renewal'
  <2>1. /\ UNCHANGED <<cfg, opened>> /\ used' = used \cup {renewed'[w]}
        /\ phase[w] = "cookies" /\ phase'[w] = "payload" /\ at[w] = "answered"
        /\ setCookie'[w] = GoHttp!NoCookie
        /\ \A v \in Workers \ {w} :
             /\ phase'[v] = phase[v] /\ at'[v] = at[v] /\ host'[v] = host[v]
             /\ setCookie'[v] = setCookie[v]
    BY <1>8 DEF GoHttp!GotCookies
  <2>2. GoHttp!StoreCookies(w)
    BY <1>8 DEF GoHttp!GotCookies
  <2>3. renewed'[w] \in Mine(w) \cup {GoHttp!NoCookie}
    BY <1>6, <2>1, <2>2 DEF Mine
  <2>4. used' \subseteq 0 .. opened
    <3>1. used \subseteq 0 .. opened /\ Mine(w) \subseteq 0 .. opened
      BY <1>1, <2>1 DEF Renewal, Fresh
    <3> QED BY <2>1, <2>3, <3>1, 0 \in 0 .. opened
  <2>5. ASSUME NEW v \in Workers \ {w}, phase[v] = "cookies"
        PROVE  renewed'[w] \notin Mine(v)
    <3>1. Mine(v) \cap Mine(w) = {}
      BY <2>1, <2>5 DEF Renewal
    <3>2. GoHttp!NoCookie \notin Mine(v)
      BY DEF Mine
    <3> QED BY <2>3, <3>1, <3>2
  <2>6. Mine(w)' \subseteq Mine(w)
    BY <2>1, <2>3 DEF Mine
  <2>7. \A v \in Workers \ {w} :
          phase[v] = "cookies" => Mine(v) \cap (used' \cup (Mine(w)' \ Mine(w))) \subseteq used
    BY <2>1, <2>5, <2>6
  <2> QED BY <1>6, <2>1, <2>2, <2>4, <2>7, OwnStep
<1>9. ASSUME NEW w \in Workers, GoHttp!GotResponse(w)
      PROVE  Renewal'
  <2>1. GoHttp!StoreCookies(w) /\ at[w] = "answered" /\ phase'[w] = "payload"
    BY <1>9 DEF GoHttp!GotResponse
  <2>2. Mine(w)' \subseteq Mine(w)
    BY <1>6, <1>9, <2>1 DEF GoHttp!GotResponse, Mine
  <2> QED BY <1>2, <1>6, <1>9, <2>1, <2>2 DEF GoHttp!GotResponse, GoHttp!history
<1>10. ASSUME NEW w \in Workers, GoHttp!ReadBody(w)
      PROVE  Renewal'
  <2>1. Mine(w)' \subseteq Mine(w)
    BY <1>10 DEF GoHttp!ReadBody, Mine
  <2> QED BY <1>2, <1>10, <2>1 DEF GoHttp!ReadBody
<1>11. CASE GoHttp!Cancel
  BY <1>11 DEF GoHttp!Cancel, GoHttp!exchange, GoHttp!jars, GoHttp!history, Renewal, Mine, Fresh
<1> QED BY <1>3, <1>4, <1>5, <1>7, <1>8, <1>9, <1>10, <1>11
        DEF GoHttp!Next, GoHttp!ClientStep

\* Each payload of --renewSession goes out with a session that was opened for it:
\* no payload has had it before, and no other worker has it now.
THEOREM RenewedSessions == Spec => EachPayloadHasItsSession
<1>1. Init => RenewInv
  BY DEF Init, GoHttp!Init, RenewInv, Renewal, Mine
<1>2. GoHttpInv /\ RenewInv /\ [Next]_vars => RenewInv'
  <2> SUFFICES ASSUME GoHttpInv, RenewInv, [Next]_vars PROVE RenewInv'
    OBVIOUS
  <2>1. CASE UNCHANGED vars
    BY <2>1 DEF vars, goHttpVars, RenewInv, Renewal, Mine, Fresh, GoHttp!Renewing
  <2>2. CASE httpClient = "gohttp" /\ GoHttp!Next /\ UNCHANGED httpClient
    <3>1. UNCHANGED cfg
      BY <2>2
         DEF GoHttp!Next, GoHttp!ClientStep, GoHttp!Begin, GoHttp!Exchange, GoHttp!Fail,
             GoHttp!Redirected, GoHttp!GotCookies, GoHttp!GotResponse, GoHttp!ReadBody,
             GoHttp!Cancel
    <3> QED BY <2>2, <3>1, RenewStep DEF GoHttpInv, RenewInv, GoHttp!Renewing
  <2>3. CASE httpClient = "chrome" /\ UNCHANGED httpClient
    BY <2>3 DEF RenewInv
  <2> QED BY <2>1, <2>2, <2>3 DEF Next
<1>3. ASSUME GoHttpInv, RenewInv, httpClient = "gohttp",
             NEW w \in Workers, GoHttp!GotCookies(w)
      PROVE  IF cfg.sessions THEN renewed'[w] \in (1 .. opened) \ used
             ELSE renewed'[w] = GoHttp!NoCookie
  <2>1. Renewal /\ phase[w] = "cookies" /\ at[w] = "answered" /\ GoHttp!StoreCookies(w)
    BY <1>3 DEF GoHttp!GotCookies, GoHttpInv, Cookies, RenewInv
  <2>2. renewed \in [Workers -> Int]
    BY <1>3 DEF GoHttpInv, GoHttpTypes
  <2>3. renewed'[w] \in Mine(w) \cup {GoHttp!NoCookie}
    BY <2>1, <2>2 DEF GoHttp!StoreCookies, Mine
  <2>4. cfg.sessions => renewed'[w] # GoHttp!NoCookie
    BY <2>1, <2>2 DEF GoHttp!StoreCookies, Mine, Renewal
  <2> QED BY <2>1, <2>3, <2>4 DEF Renewal, Mine, Fresh
<1>4. GoHttpInv /\ RenewInv =>
        [httpClient = "gohttp" =>
           \A w \in Workers :
             GoHttp!GotCookies(w) =>
               IF cfg.sessions THEN renewed'[w] \in (1 .. opened) \ used
               ELSE renewed'[w] = GoHttp!NoCookie]_vars
  BY <1>3
<1> QED BY <1>1, <1>2, <1>4, GoHttpInvariant, PTL DEF Spec, EachPayloadHasItsSession
=============================================================================
