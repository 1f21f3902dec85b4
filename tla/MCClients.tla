----------------------------- MODULE MCClients -----------------------------
(* Bounds on Clients for TLC.                                              *)
EXTENDS Clients

\* Bound: --renewSession only with --followCookies, without which no step reads it,
\* and no redirects where there are no sessions to be lost on the way.
MCInit ==
  /\ Init
  /\ cfg.renewSession => cfg.followCookies
  /\ cfg.MaxRedirects = 0 \/ cfg.sessions

\* Bound: a payload less when sessions are renewed along redirects.
MCNext ==
  /\ Next
  /\ cfg.renewSession /\ cfg.MaxRedirects > 0 => begun' < MaxRequests

MCFairSpec == MCInit /\ [][MCNext]_vars /\ Fairness
=============================================================================
