SPECIFICATION Spec

CONSTANTS
  Width = 2
  Proxies <- TwoProxies
  TrustedProxies <- NetworkAndAddress
  Lists <- ForgedLists
  RealIps <- ForgedRealIps
  MaxHops = 2

  Users = {u1, u2}
  Nobody = Nobody
  Unversioned = Unversioned
  MaxSession = 2
  MaxTokens = 2

  max_frames = 2
  window = 3
  max_auth_frame_bytes = 1
  Tokens = {"t1", "t2"}
  Nonces = {"n1", "n2"}

  Clients = {k1, k2}
  Connections = {c1, c2}
  Settings = {"tenant", "actor"}
  Values = {"a", "b"}
  Unset = Unset
  Assignments <- TenantAndActor
  MaxTransactions = 3

  NotSent = NotSent
  Configs <- CookieConfigs
  Pages <- ThreePages
  SamePage <- App
  Allowlists <- OriginLists
  MaxCookies = 2

  NoUpload = NoUpload
  Accounts = {"a", "b"}
  required_prefix <- TwoPrefixes
  allowed = {"jpeg"}
  allow_jpeg_alias = TRUE
  max_bytes = 1
  max_len = 4
  Chars = {"a", "1", ".", "/"}
  MaxKey = 5

  Threads = {t1, t2}
  Exporters = {e1, e2}
  NoExporter = NoExporter
  NoGuard = NoGuard

  Variables = {v1, v2}
  EnvValues = {1}
  Undefined = Undefined
  NotUnicode = NotUnicode
  MaxGuards = 4

INVARIANTS
  NoSourcePassesForAnother
  RevokedTokensStayOut
  SocketsAreGuarded
  QueriesSeeTheirScope
  CookiesAreGuarded
  UploadsStayInScope
  GlobalsGivenBack

\* Requests are served, tokens run out, and bounds end the rest.
CHECK_DEADLOCK FALSE
