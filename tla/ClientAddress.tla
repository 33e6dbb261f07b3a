---------------------------- MODULE ClientAddress ----------------------------
(***************************************************************************)
(* The address a server takes for its client's (http-primitives): the peer *)
(* or, behind proxies it trusts, what their headers say.  A request starts *)
(* at its source with any headers and passes proxies, each of which adds   *)
(* the address it was reached from to the one header that the deployment   *)
(* uses and removes the two others.  Proxies are external.                 *)
(***************************************************************************)
EXTENDS Integers, Sequences

CONSTANTS Width,     \* bits of an address: 32 or 128
          Proxies,   \* addresses of the proxies
          TrustedProxies,
          Lists,     \* Forwarded and X-Forwarded-For lines a source may send
          RealIps,   \* the X-Real-IP lines it may send
          MaxHops    \* bound: proxies on a request's way

VARIABLES managed,   \* the header the proxies use
          source,    \* where the request comes from
          peer, headers, hops,
          spoilt,    \* history: the source's address was added to a line that is no text
          client_ip  \* what the server takes for the source; Nowhere before

addressVars == <<managed, source, peer, headers, hops, spoilt, client_ip>>

IpAddr == [family : {"v4", "v6"}, bits : 0..(2^Width - 1)]
Nowhere == [family |-> "none", bits |-> 0]
HeaderNames == {"forwarded", "x-forwarded-for", "x-real-ip"}

-----------------------------------------------------------------------------
(* Networks.                                                               *)
Cidr == [addr : IpAddr, prefix : 0..Width]

single_ip(addr) == [addr |-> addr, prefix |-> Width]

(* A prefix beyond the width is InvalidCidr. *)
parse_cidr(addr, prefix) ==
  IF prefix > Width THEN "InvalidCidr" ELSE [addr |-> addr, prefix |-> prefix]

masked(bits, prefix) == bits \div 2^(Width - prefix)

contains(cidr, addr) ==
  /\ cidr.addr.family = addr.family
  /\ masked(cidr.addr.bits, cidr.prefix) = masked(addr.bits, cidr.prefix)

is_trusted_proxy(addr) == \E proxy \in TrustedProxies : contains(proxy, addr)

-----------------------------------------------------------------------------
(* An entry of a header: an address, or Nowhere for what is none, and how  *)
(* it is written; "not_text" with bytes that HeaderValue::to_str refuses.  *)
Entry == [addr : IpAddr \cup {Nowhere},
          style : {"bare", "port", "quoted", "unbalanced", "no_for", "not_text"}]
bare(addr) == [addr |-> addr, style |-> "bare"]
Blank == [addr |-> Nowhere, style |-> "blank"]
invalid_header_value == bare(Nowhere)

(* A line of a header has an entry, which may be blank. *)
Lines == Seq(Seq(Entry \cup {Blank}) \ {<<>>})

ASSUME AddressAssumption ==
  /\ Width \in Nat \ {0} /\ MaxHops \in Nat
  /\ Proxies \subseteq IpAddr /\ TrustedProxies \subseteq Cidr
  /\ \A p \in Proxies : is_trusted_proxy(p)
  /\ Lists \subseteq Lines /\ RealIps \subseteq Lines

Missing == [result |-> "Missing", addr |-> Nowhere]
Invalid == [result |-> "Invalid", addr |-> Nowhere]
Found(addr) == [result |-> "Found", addr |-> addr]

(* A quoted address is none here. *)
parse_ip_token(entry) ==
  IF entry.addr # Nowhere /\ entry.style \in {"bare", "port"} THEN Found(entry.addr) ELSE Invalid

(* Balanced quotes are taken off. *)
parse_forwarded_entry(entry) ==
  IF entry.addr # Nowhere /\ entry.style \in {"bare", "port", "quoted"}
    THEN Found(entry.addr) ELSE Invalid

(* Places in a header: a line, and an entry of that line. *)
Before(p, q) == p[1] < q[1] \/ (p[1] = q[1] /\ p[2] < q[2])

present(entries) == {p \in DOMAIN entries : entries[p] # Blank}

(* Readings that are not the address of a trusted proxy. *)
NotTrusted(readings) ==
  {p \in DOMAIN readings :
     readings[p].result # "Found" \/ ~is_trusted_proxy(readings[p].addr)}

(* Mutant of last_untrusted: from the left, where the source writes. *)
first_untrusted(readings) ==
  LET others == NotTrusted(readings) IN
  IF DOMAIN readings = {} THEN Missing
  ELSE IF others = {} THEN Invalid
  ELSE readings[CHOOSE p \in others : \A q \in others : ~Before(q, p)]

(* From the right, the first reading that is not a trusted proxy's         *)
(* address; Invalid if there is none.                                      *)
last_untrusted(readings) ==
  LET others == NotTrusted(readings) IN
  IF DOMAIN readings = {} THEN Missing
  ELSE IF others = {} THEN Invalid
  ELSE readings[CHOOSE p \in others : \A q \in others : ~Before(p, q)]

parse_forwarded_for(entries) ==
  last_untrusted([p \in present(entries) |-> parse_forwarded_entry(entries[p])])
parse_x_forwarded_for(entries) ==
  last_untrusted([p \in present(entries) |-> parse_ip_token(entries[p])])

(* A list of entries is no address. *)
parse_single_ip_header(entries) ==
  IF DOMAIN entries = {} THEN Missing
  ELSE IF DOMAIN entries = {<<1, 1>>} THEN parse_ip_token(entries[<<1, 1>>]) ELSE Invalid

is_text(line) == \A i \in DOMAIN line : line[i].style # "not_text"

(* A line that is no text is replaced as a whole, with every entry in it.  *)
to_str(line) == IF is_text(line) THEN line ELSE <<invalid_header_value>>

(* All entries of lines, by line and by their place in it. *)
entries_of(lines) ==
  [p \in UNION {{n} \X DOMAIN lines[n] : n \in DOMAIN lines} |-> lines[p[1]][p[2]]]

joined_header_values(lines) == entries_of([n \in DOMAIN lines |-> to_str(lines[n])])

extract_client_ip(from, forwarded, x_forwarded_for, x_real_ip) ==
  LET f == parse_forwarded_for(forwarded)
      x == parse_x_forwarded_for(x_forwarded_for)
      r == parse_single_ip_header(x_real_ip)
      first == CASE f # Missing -> f [] f = Missing /\ x # Missing -> x [] OTHER -> r
  IN IF is_trusted_proxy(from) /\ first.result = "Found" THEN first.addr ELSE from

client_ip_from_header_map(from, map) ==
  extract_client_ip(from, joined_header_values(map["forwarded"]),
                    joined_header_values(map["x-forwarded-for"]),
                    joined_header_values(map["x-real-ip"]))

-----------------------------------------------------------------------------
AddressInit ==
  /\ managed \in HeaderNames /\ source \in IpAddr /\ peer = source
  /\ \E forwarded, x_forwarded_for \in Lists, x_real_ip \in RealIps :
       headers = [name \in HeaderNames |-> CASE name = "forwarded" -> forwarded
                                              [] name = "x-forwarded-for" -> x_forwarded_for
                                              [] name = "x-real-ip" -> x_real_ip]
  /\ hops = 0 /\ spoilt = FALSE /\ client_ip = Nowhere

(* A proxy adds the address it was reached from, in a line of its own or   *)
(* to the last line.  X-Real-IP is only written by the first proxy.        *)
Written(lines) ==
  IF managed = "x-real-ip" THEN {IF hops = 0 THEN <<<<bare(peer)>>>> ELSE lines}
  ELSE {Append(lines, <<bare(peer)>>)} \cup
       {[l EXCEPT ![Len(l)] = Append(@, bare(peer))] : l \in {lines} \ {<<>>}}

PassProxy(proxy) ==
  /\ client_ip = Nowhere /\ hops < MaxHops
  /\ \E lines \in Written(headers[managed]) :
       /\ headers' = [name \in HeaderNames |-> IF name = managed THEN lines ELSE <<>>]
       /\ spoilt' = IF hops = 0 THEN ~is_text(lines[Len(lines)]) ELSE spoilt
  /\ peer' = proxy /\ hops' = hops + 1
  /\ UNCHANGED <<managed, source, client_ip>>

Arrive ==
  /\ client_ip = Nowhere
  /\ client_ip' = client_ip_from_header_map(peer, headers)
  /\ UNCHANGED <<managed, source, peer, headers, hops, spoilt>>

AddressNext == Arrive \/ \E proxy \in Proxies : PassProxy(proxy)

AddressSpec == AddressInit /\ [][AddressNext]_addressVars

-----------------------------------------------------------------------------
(***************************************************************************)
(* The server takes a request from outside its proxies for its source's,   *)
(* however many proxies it passed and whatever headers it started with,    *)
(* or, where a proxy added the source's address to a line that the source  *)
(* had begun with bytes that are no text, for the last proxy's own: no     *)
(* source passes for a third party.                                        *)
(***************************************************************************)
NoSourcePassesForAnother ==
  client_ip # Nowhere /\ ~is_trusted_proxy(source) =>
    client_ip = IF spoilt THEN peer ELSE source
=============================================================================
