------------------------------ MODULE Clients ------------------------------
(***************************************************************************)
(* clients.HTTPClient: scanner.New makes one of two implementations, the   *)
(* one --httpClient names, and the workers of the scan share it.           *)
(***************************************************************************)
EXTENDS Naturals, FiniteSets

CONSTANTS
  Workers,
  MaxRequests,   \* bound: payloads sent
  MaxRedirects   \* bound of the flag

ASSUME WorkersAssumption == IsFiniteSet(Workers)
ASSUME BoundsAssumption == MaxRequests \in Nat /\ MaxRedirects \in Nat

VARIABLES
  httpClient,    \* "gohttp" or "chrome", fixed
  phase, begun, canceled,
  cfg, at, host, hop, attempt, setCookie, renewed, jar, jarForeign, opened,
  used, lost, planted,
  goroutine, errorChan, chanClosed, err, responseMeta, runFailed, result

GoHttp == INSTANCE HttpClient
Chrome == INSTANCE ChromeClient

goHttpVars == <<cfg, at, host, hop, attempt, setCookie, renewed, jar, jarForeign,
                opened, used, lost, planted>>
chromeVars == <<goroutine, errorChan, chanClosed, err, responseMeta, runFailed, result>>
vars == <<httpClient, phase, begun, canceled, goHttpVars, chromeVars>>

\* The flags of the sessions are not read by the browser.
Init ==
  /\ httpClient \in {"gohttp", "chrome"}
  /\ GoHttp!Init
  /\ Chrome!Init
  /\ httpClient = "chrome" => cfg = [followCookies |-> FALSE, renewSession |-> FALSE,
                                     MaxRedirects |-> 0, sessions |-> FALSE]

Next ==
  /\ \/ httpClient = "gohttp" /\ GoHttp!Next /\ UNCHANGED chromeVars
     \/ httpClient = "chrome" /\ Chrome!Next /\ UNCHANGED goHttpVars
  /\ UNCHANGED httpClient

Spec == Init /\ [][Next]_vars

\* Of the client there is: see the fairness of each.
Fairness ==
  \A w \in Workers :
    /\ WF_vars(\/ /\ httpClient = "gohttp" /\ canceled /\ GoHttp!ClientStep(w)
                  /\ UNCHANGED <<chromeVars, httpClient>>
               \/ /\ httpClient = "chrome" /\ Chrome!WorkerStep(w)
                  /\ UNCHANGED <<goHttpVars, httpClient>>)
    /\ WF_vars(/\ httpClient = "chrome" /\ canceled /\ Chrome!BrowserStep(w)
               /\ UNCHANGED <<goHttpVars, httpClient>>)

FairSpec == Spec /\ Fairness

-----------------------------------------------------------------------------

\* Each payload of --renewSession goes out with a session of its own.
EachPayloadHasItsSession ==
  [][httpClient = "gohttp" =>
       \A w \in Workers :
         GoHttp!GotCookies(w) =>
           IF cfg.sessions
           THEN renewed'[w] \in (1 .. opened) \ used
           ELSE renewed'[w] = GoHttp!NoCookie]_vars

\* With a shared jar the target opens a session per worker at most, but for
\* answers that were lost and cookies of other hosts.
SessionsAreShared == GoHttp!SessionsAreShared

\* A response of the browser is complete, and nothing writes to it any more.
ResponseIsSettled == Chrome!ResponseIsSettled

\* Once ctx is done SendPayload returns, whichever client it is of: from any
\* attempt or redirect, and from a browser that failed at any of its tasks.
CancelEndsRequest ==
  \A w \in Workers : canceled /\ phase[w] # "idle" ~> phase[w] = "idle"
=============================================================================
