---------------------------- MODULE WafDetector ----------------------------
(***************************************************************************)
(* The detectors of known WAFs: checks on the answer to a plain request    *)
(* and on the answer to one with attacks in it.  An answer is the set of   *)
(* the patterns it matches, each named for the part of the answer that is  *)
(* searched; a response is a set of at most one answer, {} for nil.        *)
(***************************************************************************)
EXTENDS Naturals, Sequences, FiniteSetsExt

\* One check of one pattern; checks are in disjunctive form: a set of sets of them.
Plain(pattern) == [pattern |-> pattern, attack |-> FALSE]
Attack(pattern) == [pattern |-> pattern, attack |-> TRUE]

AnyOf(checks) == {{c} : c \in checks}

\* CheckStatusCode, CheckReason, CheckHeader, CheckCookie and CheckContent: a
\* response that is missing matches nothing.
Matches(check, resps) ==
  \E answer \in IF check.attack THEN resps.respToAttack ELSE resps.resp :
    check.pattern \in answer

\* Or over And.
Holds(disjuncts, resps) ==
  \E conjuncts \in disjuncts : \A check \in conjuncts : Matches(check, resps)

KonaSiteDefender ==
  [name |-> "Kona SiteDefender",
   check |-> AnyOf({Plain("Server: AkamaiGHost"), Attack("Server: AkamaiGHost")})]

Incapsula ==
  [name |-> "Incapsula",
   check |-> AnyOf({Plain("Set-Cookie: incap_ses"), Plain("Set-Cookie: visid_incap"),
                    Attack("body: incapsula incident id"),
                    Attack("body: powered by incapsula"),
                    Attack("body: /_Incapsula_Resource")})]

SecureSphere ==
  [name |-> "SecureSphere",
   check |-> {{Attack("body: <title>Error"), Attack("body: The incident ID is"),
               Attack("body: This page can't be displayed"),
               Attack("body: Contact support")}}]

BigIPAppSecManager ==
  [name |-> "BIG-IP AppSec Manager",
   check |-> {{Attack("body: the requested url was rejected"),
               Attack("body: please consult with your administrator")}}
             \cup AnyOf({Plain("Set-Cookie: TS"), Attack("body: Reference ID")})]

BigIPLocalTrafficManager ==
  [name |-> "BIG-IP Local Traffic Manager",
   check |-> AnyOf({Plain("Set-Cookie: bigipserver"), Attack("X-Cnection: close")})]

BigIPApManager ==
  [name |-> "BIG-IP AP Manager",
   check |-> {{Plain("Set-Cookie: LastMRH_Session"), Plain("Set-Cookie: MRHSession")},
              {Plain("Set-Cookie: MRHSession"), Attack("Server: BigIP")}}
             \cup AnyOf({Plain("Set-Cookie: F5_fullWT"),
                         Plain("Set-Cookie: F5_HT_shrinked")})]

FirePass ==
  [name |-> "FirePass",
   check |-> {{Plain("Set-Cookie: VHOST"), Plain("Location: /my.logon.php3")},
              {Plain("Set-Cookie: F5_fire"), Plain("Set-Cookie: F5_passid_shrinked")}}]

Trafficshield ==
  [name |-> "Trafficshield",
   check |-> AnyOf({Plain("Set-Cookie: ASINFO"), Plain("Server: F5-TrafficShield")})]

ModSecurity ==
  [name |-> "ModSecurity",
   check |-> AnyOf({Plain("Server: mod_security"),
                    Attack("body: This error was generated by Mod_Security"),
                    Attack("body: rules of the mod_security module"),
                    Attack("body: mod_security rules triggered"),
                    Attack("body: Protected by Mod_Security"),
                    Attack("body: /modsecurity_errorpage/"),
                    Attack("body: modsecurity iis")})
             \cup {{Attack("reason: ModSecurity Action"), Attack("status: 403")},
                   {Attack("reason: ModSecurity Action"), Attack("status: 406")}}]

Detectors ==
  <<KonaSiteDefender, Incapsula, SecureSphere, BigIPAppSecManager,
    BigIPLocalTrafficManager, BigIPApManager, FirePass, Trafficshield, ModSecurity>>

Unknown == 0

\* DetectWAF: the place in Detectors of the first that is positive.
DetectWAF(plainAnswer, attackAnswer) ==
  LET resps == [resp |-> {plainAnswer}, respToAttack |-> {attackAnswer}]
      positive == {d \in DOMAIN Detectors : Holds(Detectors[d].check, resps)}
  IN IF positive = {} THEN Unknown ELSE Min(positive)

\* Mutant of CheckBlockFunc: the answer stands for one to a plain request.
CheckBlockFunc_AsPlain(waf, answer) ==
  /\ waf # Unknown
  /\ Holds(Detectors[waf].check, [resp |-> {answer}, respToAttack |-> {}])

\* CheckBlockFunc of the detector waf, as checkBlockedOrPassed calls it: every
\* answer of the scan stands for the answer to an attack, and there is no other.
CheckBlockFunc(waf, answer) ==
  /\ waf # Unknown
  /\ Holds(Detectors[waf].check, [resp |-> {}, respToAttack |-> {answer}])
=============================================================================
