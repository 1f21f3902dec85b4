----------------------------- MODULE HttpClient -----------------------------
(***************************************************************************)
(* The net/http client the workers share, and the sessions it keeps with   *)
(* the target: none, one cookie jar for all (--followCookies), or a new    *)
(* session for each request (--renewSession as well), which getCookies     *)
(* obtains in up to three attempts.  Redirects are followed up to          *)
(* --maxRedirects, to the target itself or to another host.                *)
(*                                                                         *)
(* A cookie is the number of the session the target opened with it, or     *)
(* Foreign for the one of the other host.  The target opens a session for  *)
(* a request without one, if it keeps sessions at all.                     *)
(***************************************************************************)
EXTENDS Integers, FiniteSets

CONSTANTS
  Workers,
  MaxRequests,   \* bound: payloads sent
  MaxRedirects   \* bound of the flag

VARIABLES
  cfg,           \* the flags, and whether the hosts keep sessions; fixed
  phase,         \* what a worker is at: "idle", "cookies" (getCookies) or "payload"
  at,            \* where its exchange is: "send", "answered" or "body"
  host, hop,     \* the host asked, and the redirects followed so far
  attempt,       \* the loop of getCookies, 0 outside
  setCookie,     \* cookie of the answer
  renewed,       \* cookie of the session client's jar, then of the payload
  jar,           \* cookie the shared jar holds for the target
  jarForeign,    \* the shared jar holds one for the other host
  opened,        \* sessions the target has opened
  begun,         \* payloads begun
  canceled,
  used,          \* history: sessions payloads were begun with
  lost,          \* history: sessions opened whose cookie did not reach the shared jar
  planted        \* history: foreign cookies stored for the target

exchange == <<at, host, hop, setCookie>>
jars == <<renewed, jar, jarForeign>>
history == <<used, lost, planted>>
vars == <<cfg, phase, exchange, attempt, jars, opened, begun, canceled, history>>

NoCookie == 0
Foreign == -1     \* no number of a session
Hosts == {"target", "other"}
getCookiesRepeatAttempts == 3

Flags == [followCookies : BOOLEAN, renewSession : BOOLEAN, MaxRedirects : 0 .. MaxRedirects,
          sessions : BOOLEAN]

Renewing == cfg.followCookies /\ cfg.renewSession
HasJar == cfg.followCookies /\ ~cfg.renewSession

Init ==
  /\ cfg \in Flags
  /\ phase = [w \in Workers |-> "idle"]
  /\ at = [w \in Workers |-> "send"]
  /\ host = [w \in Workers |-> "target"]
  /\ hop = [w \in Workers |-> 0]
  /\ attempt = [w \in Workers |-> 0]
  /\ setCookie = [w \in Workers |-> NoCookie]
  /\ renewed = [w \in Workers |-> NoCookie]
  /\ jar = NoCookie
  /\ jarForeign = FALSE
  /\ opened = 0
  /\ begun = 0
  /\ canceled = FALSE
  /\ used = {}
  /\ lost = 0
  /\ planted = 0

\* An exchange starts over, at host h after n redirects.
NewExchange(w, h, n) ==
  /\ at' = [at EXCEPT ![w] = "send"]
  /\ host' = [host EXCEPT ![w] = h]
  /\ hop' = [hop EXCEPT ![w] = n]
  /\ setCookie' = [setCookie EXCEPT ![w] = NoCookie]

\* Mutant of Begin: the session clients of a worker share a jar.
Begin_KeepsJar(w) ==
  /\ phase[w] = "idle"
  /\ begun < MaxRequests
  /\ begun' = begun + 1
  /\ phase' = [phase EXCEPT ![w] = IF Renewing THEN "cookies" ELSE "payload"]
  /\ attempt' = [attempt EXCEPT ![w] = IF Renewing THEN 1 ELSE 0]
  /\ NewExchange(w, "target", 0)
  /\ UNCHANGED <<cfg, jars, opened, canceled, history>>

\* SendPayload or SendRequest; getCookies makes a client with a jar of its own.
Begin(w) ==
  /\ phase[w] = "idle"
  /\ begun < MaxRequests
  /\ begun' = begun + 1
  /\ phase' = [phase EXCEPT ![w] = IF Renewing THEN "cookies" ELSE "payload"]
  /\ attempt' = [attempt EXCEPT ![w] = IF Renewing THEN 1 ELSE 0]
  /\ renewed' = [renewed EXCEPT ![w] = NoCookie]
  /\ NewExchange(w, "target", 0)
  /\ UNCHANGED <<cfg, jar, jarForeign, opened, canceled, history>>

\* Mutant of CookieFor: the client is made without its jar.
CookieFor_NoJar(w) == IF host[w] = "target" THEN renewed[w] ELSE NoCookie

\* The cookie a request takes along.
CookieFor(w) ==
  CASE host[w] = "other" -> IF jarForeign THEN Foreign ELSE NoCookie
    [] HasJar -> jar
    [] OTHER -> renewed[w]

\* The request is sent, and its host, if it keeps sessions and is shown none of
\* its own, opens one.  The jars of getCookies do not need the other host's.
Exchange(w) ==
  /\ phase[w] # "idle" /\ at[w] = "send"
  /\ ~canceled
  /\ LET opens == cfg.sessions /\ host[w] = "target" /\ CookieFor(w) \notin 1 .. opened
         plants == cfg.sessions /\ host[w] = "other" /\ HasJar /\ CookieFor(w) # Foreign
     IN /\ opened' = IF opens THEN opened + 1 ELSE opened
        /\ setCookie' = [setCookie EXCEPT ![w] =
             IF opens THEN opened + 1 ELSE IF plants THEN Foreign ELSE NoCookie]
  /\ at' = [at EXCEPT ![w] = "answered"]
  /\ UNCHANGED <<cfg, phase, host, hop, attempt, jars, begun, canceled, history>>

\* Client.send of net/http: the answer's cookies go to the jar of its host.
StoreCookies(w) ==
  LET stores(p, h) == setCookie[w] # NoCookie /\ phase[w] = p /\ host[w] = h
  IN /\ renewed' = IF stores("cookies", "target")
                   THEN [renewed EXCEPT ![w] = setCookie[w]] ELSE renewed
     /\ jar' = IF HasJar /\ stores("payload", "target") THEN setCookie[w] ELSE jar
     /\ jarForeign' = (jarForeign \/ (HasJar /\ stores("payload", "other")))

\* Mutant of RequestFails: getCookies tries until it has an answer.
RequestFails_Forever(w) ==
  /\ UNCHANGED attempt
  /\ phase' = [phase EXCEPT ![w] = IF phase[w] = "cookies" THEN "cookies" ELSE "idle"]
  /\ NewExchange(w, "target", 0)

\* Do returns an error: the next attempt of getCookies, or the end.
RequestFails(w) ==
  /\ IF phase[w] = "cookies" /\ attempt[w] < getCookiesRepeatAttempts
     THEN attempt' = [attempt EXCEPT ![w] = @ + 1] /\ UNCHANGED phase
     ELSE /\ phase' = [phase EXCEPT ![w] = "idle"]
          /\ attempt' = [attempt EXCEPT ![w] = 0]
  /\ NewExchange(w, "target", 0)

\* A dial, a write or a read fails, or ctx is done.
Fail(w) ==
  /\ phase[w] # "idle"
  /\ RequestFails(w)
  /\ lost' = IF HasJar /\ at[w] = "answered" /\ setCookie[w] \in 1 .. opened
             THEN lost + 1 ELSE lost
  /\ UNCHANGED <<cfg, jars, opened, begun, canceled, used, planted>>

\* A redirect, which redirectFunc allows or takes for an error.
Redirected(w, h) ==
  /\ phase[w] # "idle" /\ at[w] = "answered"
  /\ cfg.MaxRedirects > 0
  /\ StoreCookies(w)
  /\ IF hop[w] + 1 > cfg.MaxRedirects
     THEN RequestFails(w)
     ELSE NewExchange(w, h, hop[w] + 1) /\ UNCHANGED <<phase, attempt>>
  /\ UNCHANGED <<cfg, opened, begun, canceled, history>>

\* The last answer of getCookies: the payload follows with the cookie of the
\* target, and the body is not read.
GotCookies(w) ==
  /\ phase[w] = "cookies" /\ at[w] = "answered"
  /\ StoreCookies(w)
  /\ phase' = [phase EXCEPT ![w] = "payload"]
  /\ attempt' = [attempt EXCEPT ![w] = 0]
  /\ used' = used \cup {renewed'[w]}
  /\ NewExchange(w, "target", 0)
  /\ UNCHANGED <<cfg, opened, begun, canceled, lost, planted>>

\* The last answer to a payload; with MaxRedirects = 0 that is the first.
GotResponse(w) ==
  /\ phase[w] = "payload" /\ at[w] = "answered"
  /\ StoreCookies(w)
  /\ at' = [at EXCEPT ![w] = "body"]
  /\ UNCHANGED <<cfg, phase, host, hop, setCookie, attempt, opened, begun,
                 canceled, history>>

\* The body is read; the cookies of the last answer, whichever host it came
\* from, are then stored for the target.
ReadBody(w) ==
  /\ phase[w] = "payload" /\ at[w] = "body"
  /\ jar' = IF HasJar /\ setCookie[w] # NoCookie THEN setCookie[w] ELSE jar
  /\ planted' = IF HasJar /\ setCookie[w] = Foreign THEN planted + 1 ELSE planted
  /\ phase' = [phase EXCEPT ![w] = "idle"]
  /\ NewExchange(w, "target", 0)
  /\ UNCHANGED <<cfg, attempt, renewed, jarForeign, opened, begun, canceled, used, lost>>

Cancel ==
  /\ ~canceled
  /\ canceled' = TRUE
  /\ UNCHANGED <<cfg, phase, exchange, attempt, jars, opened, begun, history>>

\* Steps of SendPayload.
ClientStep(w) ==
  \/ Exchange(w)
  \/ Fail(w)
  \/ \E h \in Hosts : Redirected(w, h)
  \/ GotCookies(w)
  \/ GotResponse(w)
  \/ ReadBody(w)

Next ==
  \/ \E w \in Workers : Begin(w) \/ ClientStep(w)
  \/ Cancel

Spec == Init /\ [][Next]_vars

\* No server has to answer; once ctx is done the client does not wait for one.
Fairness == \A w \in Workers : WF_vars(canceled /\ ClientStep(w))

FairSpec == Spec /\ Fairness

-----------------------------------------------------------------------------

\* With --renewSession each payload goes out with a session that was opened for
\* it: one of the target's, if it keeps any, that no payload has had before and
\* no other worker has now, whatever attempts failed and redirects led away.
EachPayloadHasItsSession ==
  [][\A w \in Workers :
       GotCookies(w) =>
         IF cfg.sessions
         THEN renewed'[w] \in (1 .. opened) \ used
         ELSE renewed'[w] = NoCookie]_vars

\* With the shared jar the target opens one session for each worker at most, that
\* of the requests sent before the first answer, and more only after answers that
\* were lost or after cookies of another host took the place of the target's.
SessionsAreShared ==
  HasJar => opened <= Cardinality(Workers) * (1 + planted) + lost

\* Once ctx is done a request ends, in whichever attempt or redirect it is.
CancelEndsRequest ==
  \A w \in Workers : canceled /\ phase[w] # "idle" ~> phase[w] = "idle"
=============================================================================
