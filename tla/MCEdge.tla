------------------------------- MODULE MCEdge -------------------------------
(***************************************************************************)
(* The modules at the edge of a service, for TLC.  They share no state: in *)
(* each behaviour one of them runs, while the others stay in one state.    *)
(***************************************************************************)
EXTENDS ClientAddress, AuthSessions, WsSession, ScopedTransactions, RefreshCookies, Uploads,
        TelemetryOnce, EnvVarGuards

VARIABLE part   \* the module that runs

edgeVars == <<part, addressVars, sessionVars, wsVars, scopeVars, cookieVars, uploadVars,
              telemetryVars, envVars>>

-----------------------------------------------------------------------------
(* Two bits of address; one network and one address are trusted. *)
V4(n) == [family |-> "v4", bits |-> n]
V6(n) == [family |-> "v6", bits |-> n]
TwoProxies == {V4(2), V6(1)}
NetworkAndAddress == {parse_cidr(V4(2), 1), single_ip(V6(1))}

(* What clients write into headers themselves: an address of their own, a  *)
(* trusted one, an odd one, nothing at all, and bytes that are no text, in *)
(* the line that a proxy may add to, behind an address and before a line.  *)
Forged == {[addr |-> V4(0), style |-> "bare"], [addr |-> V6(1), style |-> "quoted"],
           [addr |-> V4(3), style |-> "port"], Blank}
NotText == [addr |-> Nowhere, style |-> "not_text"]
ForgedLists ==
  {<<>>, << <<NotText>> >>, << <<bare(V4(0)), NotText>> >>, << <<NotText>>, <<bare(V4(0))>> >>}
  \cup {<< <<e>> >> : e \in Forged} \cup {<< <<e, f>> >> : e, f \in Forged}
ForgedRealIps == {<<>>, << <<NotText>> >>} \cup {<< <<e>> >> : e \in Forged}

TenantAndActor ==
  {<<>>, << <<"tenant", "a">> >>, << <<"tenant", "b">>, <<"actor", "a">> >>,
   << <<"tenant", "b">>, <<"tenant", "a">> >>}

Site(scheme, host, port) == [scheme |-> scheme, host |-> host, port |-> port]
App == Site("https", "app", "none")
Dev == Site("http", "localhost", "5173")
Evil == Site("https", "evil", "none")
ThreePages == {App, Dev, Evil}

CookieConfigs ==
  {host_prefix(3)} \cup
  [name : {"plain", "__Host-", "__Secure-", "malformed"}, path : {"/", "/auth"},
   domain : {NotSent, "site", "malformed"}, secure : BOOLEAN,
   same_site : {"Lax", "None"}, max_age : {0, 2, 3}]

OriginLists ==
  {{Plain(App)}, {[Plain(App) EXCEPT !.case = "upper", !.pad = "space"], Plain(Dev)},
   {Plain(App), Url(Dev)}}

(* The one is a prefix of the other. *)
TwoPrefixes == [a \in Accounts |-> IF a = "a" THEN <<"a">> ELSE <<"a", "1", "/">>]

-----------------------------------------------------------------------------
AddressRests ==
  /\ managed = "forwarded" /\ source = V4(0) /\ peer = V4(0)
  /\ headers = [name \in HeaderNames |-> <<>>]
  /\ hops = 0 /\ spoilt = FALSE /\ client_ip = Nowhere

CookieRests ==
  /\ config = host_prefix(3)
  /\ policy = [texts |-> {Plain(App)}, require_origin_or_referer |-> TRUE]
  /\ token = 0 /\ token_left = 0 /\ made = 0 /\ jar = {} /\ misjudged = {}

EnvRests ==
  /\ inherited = [v \in Variables |-> Undefined] /\ env = inherited /\ guards = <<>>

Init ==
  /\ part \in {"address", "sessions", "websocket", "transactions", "cookies", "uploads",
               "telemetry", "variables"}
  /\ IF part = "address" THEN AddressInit ELSE AddressRests
  /\ IF part = "cookies" THEN CookieInit ELSE CookieRests
  /\ IF part = "variables" THEN EnvInit ELSE EnvRests
  /\ SessionInit /\ WsInit /\ ScopeInit /\ UploadInit /\ TelemetryInit

Others(vars) == UNCHANGED vars /\ UNCHANGED part

Next ==
  \/ /\ part = "address" /\ AddressNext
     /\ Others(<<sessionVars, wsVars, scopeVars, cookieVars, uploadVars, telemetryVars, envVars>>)
  \/ /\ part = "sessions" /\ SessionNext
     /\ Others(<<addressVars, wsVars, scopeVars, cookieVars, uploadVars, telemetryVars, envVars>>)
  \/ /\ part = "websocket" /\ WsNext
     /\ Others(<<addressVars, sessionVars, scopeVars, cookieVars, uploadVars, telemetryVars, envVars>>)
  \/ /\ part = "transactions" /\ ScopeNext
     /\ Others(<<addressVars, sessionVars, wsVars, cookieVars, uploadVars, telemetryVars, envVars>>)
  \/ /\ part = "cookies" /\ CookieNext
     /\ Others(<<addressVars, sessionVars, wsVars, scopeVars, uploadVars, telemetryVars, envVars>>)
  \/ /\ part = "uploads" /\ UploadNext
     /\ Others(<<addressVars, sessionVars, wsVars, scopeVars, cookieVars, telemetryVars, envVars>>)
  \/ /\ part = "telemetry" /\ TelemetryNext
     /\ Others(<<addressVars, sessionVars, wsVars, scopeVars, cookieVars, uploadVars, envVars>>)
  \/ /\ part = "variables" /\ EnvNext
     /\ Others(<<addressVars, sessionVars, wsVars, scopeVars, cookieVars, uploadVars, telemetryVars>>)

Spec == Init /\ [][Next]_edgeVars

-----------------------------------------------------------------------------
(***************************************************************************)
(* What is process-wide is given back once, and as it was: exporters are   *)
(* shut down, variables restored.                                          *)
(***************************************************************************)
GlobalsGivenBack == ExportersStoppedOnce /\ VariablesGivenBack
=============================================================================
