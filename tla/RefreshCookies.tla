--------------------------- MODULE RefreshCookies ---------------------------
(***************************************************************************)
(* The refresh cookie and the pages whose requests may use it              *)
(* (auth-http-core): a server builds the Set-Cookie line of a token and    *)
(* the line that clears it, a browser keeps what the lines say, and a      *)
(* request counts when its Origin, or its Referer, is one of the allowed   *)
(* origins.  The browser and the product's routes are external.            *)
(*                                                                         *)
(* A token and its cookie live for max_age, counted in halves of a second. *)
(***************************************************************************)
EXTENDS Integers, FiniteSets

CONSTANTS Configs,    \* RefreshCookieConfigs, valid or not
          Pages,      \* origins of the pages in the browser
          SamePage,   \* the one that is the server's own
          Allowlists, \* allowed origins, as deployments write them
          NotSent,    \* no Domain, no Origin, no Referer
          MaxCookies   \* bound: tokens made

VARIABLES config,
          policy,     \* the TrustedOriginPolicy
          token,      \* the session's token, or 0
          token_left, \* its life: 0 once it is dead
          made,       \* tokens made so far
          jar,        \* the browser's cookies
          misjudged   \* history: requests taken, or refused, wrongly

cookieVars == <<config, policy, token, token_left, made, jar, misjudged>>

-----------------------------------------------------------------------------
(* Cookies.  Names, paths and domains are told apart by what is checked    *)
(* of them, here or by browsers.                                           *)
RefreshCookieConfig ==
  [name : {"plain", "__Host-", "__Secure-", "malformed"}, path : {"/", "/auth", "malformed"},
   domain : {NotSent, "site", "malformed"}, secure : BOOLEAN,
   same_site : {"Lax", "Strict", "None"}, max_age : Nat]

host_prefix(max_age) ==
  [name |-> "__Host-", path |-> "/", domain |-> NotSent, secure |-> TRUE,
   same_site |-> "Lax", max_age |-> max_age]

validate_cookie_name(name) == name # "malformed"
validate_cookie_path(path) == path # "malformed"
validate_cookie_domain(domain) == domain # "malformed"

is_valid(c) ==
  /\ validate_cookie_name(c.name) /\ validate_cookie_path(c.path)
  /\ c.domain # NotSent => validate_cookie_domain(c.domain)
  /\ c.name = "__Host-" => c.secure /\ c.path = "/" /\ c.domain = NotSent
  /\ c.same_site = "None" => c.secure

(* Seconds, as halves: rounded up, at least one. *)
duration_secs(duration) == IF duration = 0 THEN 2 ELSE 2 * ((duration + 1) \div 2)

Line(c, value, max_age) ==
  [name |-> c.name, path |-> c.path, domain |-> c.domain, secure |-> c.secure,
   same_site |-> c.same_site, value |-> value, max_age |-> max_age]

(* Mutant of build_clear_cookie: the cookie of the host, not the domain. *)
clear_host_cookie(c) == [Line(c, 0, 0) EXCEPT !.domain = NotSent]

build_set_cookie(c, value) == Line(c, value, duration_secs(c.max_age))
build_clear_cookie(c) == Line(c, 0, 0)

-----------------------------------------------------------------------------
(* Origins: how a text is written and what it names.                       *)
Origin == [scheme : {"http", "https"}, host : STRING, port : STRING]
OriginText ==
  [pad : {"none", "space", "control"}, scheme : {"http", "https", "other", "none"},
   case : {"lower", "upper"}, user : BOOLEAN, host : STRING, port : STRING,
   tail : {"none", "path", "space"}]

Plain(o) == [pad |-> "none", scheme |-> o.scheme, case |-> "lower", user |-> FALSE,
             host |-> o.host, port |-> o.port, tail |-> "none"]
Null == [Plain([scheme |-> "none", host |-> "", port |-> "none"]) EXCEPT !.scheme = "none"]

Untrusted == [scheme |-> "none", host |-> "", port |-> ""]

(* Hosts and ports are told apart by what is checked of them.              *)
split_host_port(host) == host \notin {"[v6", "::1"}
validate_host(host) == host \notin {"", "a..b", "-a", "[name]"}
validate_port(port) == port \notin {"", "0", "70000"}
validate_authority(text) ==
  split_host_port(text.host) /\ validate_host(text.host) /\ validate_port(text.port)

(* In lower case, without the space around it; Untrusted for an error.     *)
normalize_origin(text) ==
  IF /\ text.pad # "control" /\ text.scheme \in {"http", "https"}
     /\ text.tail = "none" /\ ~text.user /\ validate_authority(text)
    THEN [scheme |-> text.scheme, host |-> text.host, port |-> text.port]
    ELSE Untrusted

origin_from_url(text) ==
  normalize_origin([text EXCEPT !.tail = IF @ = "path" THEN "none" ELSE @])

(* TrustedOriginPolicy, from the texts of the deployment: an error if one  *)
(* of them is no origin.                                                   *)
is_policy(p) == \A text \in p.texts : normalize_origin(text) # Untrusted
allowed_origins(p) == {normalize_origin(text) : text \in p.texts}

is_trusted(p, origin, referer) ==
  IF origin # NotSent THEN normalize_origin(origin) \in allowed_origins(p)
  ELSE IF referer # NotSent THEN origin_from_url(referer) \in allowed_origins(p)
  ELSE ~p.require_origin_or_referer

ASSUME CookieAssumption ==
  /\ Configs \subseteq RefreshCookieConfig
  /\ Pages \subseteq Origin /\ SamePage \in Pages
  /\ \A texts \in Allowlists : texts \subseteq OriginText
  /\ NotSent \notin OriginText \cup {Null, "malformed"}
  /\ MaxCookies \in Nat

-----------------------------------------------------------------------------
(* The browser.  It drops lines it does not understand or that break the   *)
(* rules of __Host-, __Secure- and SameSite; a cookie replaces the one of  *)
(* its name, domain and path.  Validation does not know __Secure-.         *)
SecureIfNamedSo(line) == line.name = "__Secure-" => line.secure

Kept(line) ==
  /\ SecureIfNamedSo(line)
  /\ "malformed" \notin {line.name, line.path, line.domain}
  /\ line.name = "__Host-" => line.secure /\ line.path = "/" /\ line.domain = NotSent
  /\ line.same_site = "None" => line.secure

Key(line) == <<line.name, line.domain, line.path>>

store(line) ==
  IF ~Kept(line) THEN jar
  ELSE {cookie \in jar : cookie.key # Key(line)} \cup
       (IF line.max_age = 0 THEN {}
        ELSE {[key |-> Key(line), value |-> line.value, left |-> line.max_age]})

(* A page's POST names its origin, with or without a Referer, or as null;  *)
(* or only has a Referer.  A page of the server's own origin may hide it.  *)
Request(origin, referer) == [origin |-> origin, referer |-> referer]
Url(o) == [Plain(o) EXCEPT !.tail = "path"]
Headers(page) ==
  {Request(Plain(page), NotSent), Request(Plain(page), Url(page)), Request(Null, NotSent),
   Request(NotSent, Url(page)), Request(NotSent, Plain(page))}
    \cup {Request(NotSent, NotSent) : p \in {page} \cap {SamePage}}

-----------------------------------------------------------------------------
CookieInit ==
  /\ config \in Configs
  /\ policy \in [texts : Allowlists, require_origin_or_referer : BOOLEAN] /\ is_policy(policy)
  /\ token = 0 /\ token_left = 0 /\ made = 0 /\ jar = {} /\ misjudged = {}

(* The pages a list names, whatever the policy makes of it.  Browsers send *)
(* no port that is the scheme's own: an entry that spells one out is a     *)
(* valid origin, but names none of their pages.                            *)
Listed(page) ==
  \E text \in policy.texts :
    text.scheme = page.scheme /\ text.host = page.host /\ text.port = page.port

(* Records a request that is taken of a page that is not listed, and a     *)
(* refused one that says it is.  The server's own page may hide itself.    *)
Judge(page, headers) ==
  LET taken == is_trusted(policy, headers.origin, headers.referer)
      hidden == headers = Request(NotSent, NotSent)
      named == ~hidden /\ headers.origin # Null
  IN misjudged' = misjudged
       \cup (IF taken /\ ~Listed(page) /\ ~hidden THEN {"taken"} ELSE {})
       \cup (IF ~taken /\ Listed(page) /\ named THEN {"refused"} ELSE {})

(* The line is built before the token counts: an invalid config gives      *)
(* none.  The product's tokens are valid cookie values.                    *)
GiveToken ==
  /\ is_valid(config) /\ made < MaxCookies
  /\ made' = made + 1 /\ token' = made + 1 /\ token_left' = config.max_age
  /\ jar' = store(build_set_cookie(config, made + 1))

SignIn == GiveToken /\ UNCHANGED <<config, policy, misjudged>>

Sent == {cookie.value : cookie \in jar}

Rotate(page, headers) ==
  /\ is_trusted(policy, headers.origin, headers.referer)
  /\ token_left > 0 /\ token \in Sent
  /\ Judge(page, headers) /\ GiveToken
  /\ UNCHANGED <<config, policy>>

SignOut(page, headers) ==
  /\ is_trusted(policy, headers.origin, headers.referer)
  /\ token # 0 /\ token \in Sent
  /\ Judge(page, headers)
  /\ token' = 0 /\ token_left' = 0 /\ jar' = store(build_clear_cookie(config))
  /\ UNCHANGED <<config, policy, made>>

Refuse(page, headers) ==
  /\ ~is_trusted(policy, headers.origin, headers.referer)
  /\ Judge(page, headers)
  /\ UNCHANGED <<config, policy, token, token_left, made, jar>>

HalfSecond ==
  /\ jar # {}
  /\ token_left' = IF token_left = 0 THEN 0 ELSE token_left - 1
  /\ jar' = {[cookie EXCEPT !.left = @ - 1] : cookie \in {c \in jar : c.left > 1}}
  /\ UNCHANGED <<config, policy, token, made, misjudged>>

CookieNext ==
  \/ SignIn \/ HalfSecond
  \/ \E page \in Pages : \E headers \in Headers(page) :
       Rotate(page, headers) \/ SignOut(page, headers) \/ Refuse(page, headers)

CookieSpec == CookieInit /\ [][CookieNext]_cookieVars

-----------------------------------------------------------------------------
(***************************************************************************)
(* The browser's cookie and the server's session go together: while the    *)
(* token lives the browser has it, it has no other one, at most a second   *)
(* longer than it lives, and none once the user has signed out, for every  *)
(* configuration that validate accepts, except that browsers never keep    *)
(* the cookie of one that is named __Secure- and is not secure.            *)
(***************************************************************************)
CookieFollowsSession ==
  /\ token_left > 0 /\ SecureIfNamedSo(config) => token \in Sent
  /\ \A cookie \in jar : cookie.value = token /\ cookie.left <= token_left + 2
  /\ Cardinality(jar) <= 1

(***************************************************************************)
(* No page that is not listed has its request taken, whatever it hides,    *)
(* and no listed one that names itself is refused, in whatever case and    *)
(* with whatever space around it the deployment wrote the origin; a port   *)
(* that is the scheme's own has to be left out, as browsers do.            *)
(***************************************************************************)
PagesJudgedAsListed == misjudged = {}

(***************************************************************************)
(* The browser holds the session's cookie while the session lives, and at  *)
(* most a second longer, and only the listed pages have requests taken.    *)
(***************************************************************************)
CookiesAreGuarded == CookieFollowsSession /\ PagesJudgedAsListed
=============================================================================
