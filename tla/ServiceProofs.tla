--------------------------- MODULE ServiceProofs ---------------------------
(***************************************************************************)
(* Proofs about the services: configuration, caches and bodies of Network, *)
(* the device table of XhciEnum, and what ShellExec leaves behind.         *)
(***************************************************************************)
EXTENDS Network, XhciEnum, ShellExec, FiniteSetTheorems, SequenceTheorems,
        WellFoundedInduction, NaturalsInduction, TLAPS

-----------------------------------------------------------------------------
(* Network: leases, the query slot and the cache.                          *)

\* A call in progress, as far as the name it asks about goes.
CallRec(c) ==
    /\ {"pc", "host"} \subseteq DOMAIN c
    /\ c.pc # "idle" /\ c.host \in HostNames \cup {"lit"}

NetInv ==
    /\ NetConfig
    /\ cache \in [slots : [0 .. CACHE_CAP - 1 -> HostNames \cup {Unset}], next : 0 .. CACHE_CAP - 1]
    /\ ncall # NoCall => CallRec(ncall) /\ NET = "held"
    /\ ncall.pc = "dns" => ncall.host \in HostNames /\ ~lookup(ncall.host)

\* The call, the query and the lock as a step leaves them: the call is over and the lock
\* dropped, or it is where no lookup is under way.
LEMMA HaveAddressCall ==
    ASSUME NEW call, CallRec(call), NET = "held", HaveAddress(call)
    PROVE  \/ ncall' = NoCall /\ NET' = "free"
           \/ CallRec(ncall') /\ ncall'.pc \in {"echo", "http", "tls"} /\ NET' = "held"
<1> PICK c : c = [call EXCEPT !.host = "lit"]
  OBVIOUS
<1>1. CallRec(c)
  BY DEF CallRec
<1>2. CASE SendEcho(c, 0, echoes)
  BY <1>1, <1>2 DEF SendEcho, Fails, NetReturn, CallRec
<1>3. ASSUME NEW resp, Connect(c, resp)
      PROVE  \/ ncall' = NoCall /\ NET' = "free"
             \/ CallRec(ncall') /\ ncall'.pc \in {"echo", "http", "tls"} /\ NET' = "held"
  <2>1. \/ Fails("Failed") \/ Fails("Https")
        \/ ncall' = [c EXCEPT !.pc = IF c.scheme = "http" THEN "http" ELSE "tls"] /\ NET' = NET
    BY <1>3 DEF Connect
  <2> QED
    BY <1>1, <2>1 DEF Fails, NetReturn, CallRec
<1> QED
  BY <1>2, <1>3 DEF HaveAddress

\* What the steps after a lookup leave alone: the lease and, unless a name is stored, the
\* cache; the query slot is free when they are done.
NetQuiet == netcfg' = netcfg /\ cache' = cache /\ query' = query

\* A step that keeps lease, cache and query, and whose call either is over, or is the
\* same, or moves between points at which nothing is looked up.
LEMMA NetQuietStep ==
    ASSUME NetInv, NetQuiet,
           \/ ncall' = ncall /\ NET' = NET
           \/ ncall.pc # "dns" /\ ncall' = NoCall /\ (query # NoQuery => NET' = NET)
           \/ ncall' = NoCall /\ NET' = NET
           \/ /\ ncall # NoCall /\ ncall.pc # "dns"
              /\ CallRec(ncall') /\ ncall'.pc # "dns" /\ NET' = "held"
    PROVE  NetInv'
<1> USE DEF NetQuiet
<1>1. NetConfig'
  BY DEF NetInv, NetConfig, NoCall
<1>2. (ncall # NoCall => CallRec(ncall) /\ NET = "held")'
  BY DEF NetInv, CallRec, NoCall
<1>3. (ncall.pc = "dns" => ncall.host \in HostNames /\ ~lookup(ncall.host))'
  <2> SUFFICES ASSUME ncall'.pc = "dns"
               PROVE  ncall'.host \in HostNames /\ ~lookup(ncall.host)'
    OBVIOUS
  <2>1. ncall' = ncall
    BY DEF NoCall
  <2>2. ncall.host \in HostNames /\ ~lookup(ncall.host)
    BY <2>1 DEF NetInv
  <2>3. lookup(ncall.host)' = lookup(ncall.host)
    BY <2>1 DEF lookup
  <2> QED
    BY <2>1, <2>2, <2>3
<1> QED
  BY <1>1, <1>2, <1>3 DEF NetInv

\* The cache takes a name it does not hold.
LEMMA StoreFresh ==
    ASSUME NetInv, NEW n \in HostNames, ~lookup(n), store(n)
    PROVE  /\ cache' \in [slots : [0 .. CACHE_CAP - 1 -> HostNames \cup {Unset}], next : 0 .. CACHE_CAP - 1]
           /\ \A i, j \in DOMAIN cache'.slots :
                  cache'.slots[i] = cache'.slots[j] => i = j \/ cache'.slots[i] = Unset
<1> PICK s : s = cache.slots
  OBVIOUS
<1> PICK k : k = cache.next
  OBVIOUS
<1>1. s \in [0 .. CACHE_CAP - 1 -> HostNames \cup {Unset}] /\ k \in 0 .. CACHE_CAP - 1
  BY DEF NetInv
<1>2. Lower[n] \in HostNames /\ CACHE_CAP \in Nat \ {0}
  BY NetworkConstants
<1>3. cache'.slots = [s EXCEPT ![k] = Lower[n]] /\ cache' = [slots |-> cache'.slots, next |-> (k + 1) % CACHE_CAP]
  BY DEF store
<1>4. (k + 1) % CACHE_CAP \in 0 .. CACHE_CAP - 1
  BY <1>1, <1>2
<1>5. cache'.slots \in [0 .. CACHE_CAP - 1 -> HostNames \cup {Unset}]
  BY <1>1, <1>2, <1>3
<1>6. \A i \in 0 .. CACHE_CAP - 1 : s[i] # Lower[n]
  <2> SUFFICES ASSUME NEW i \in 0 .. CACHE_CAP - 1, s[i] = Lower[n] PROVE FALSE
    OBVIOUS
  <2>1. s[i] # Unset /\ Lower[s[i]] = Lower[n]
    BY <1>2, NetworkConstants DEF Unset
  <2> QED
    BY <2>1, <1>1 DEF lookup
<1>7. \A i, j \in 0 .. CACHE_CAP - 1 : s[i] = s[j] => i = j \/ s[i] = Unset
  BY <1>1 DEF NetInv, NetConfig
<1>8. \A i \in 0 .. CACHE_CAP - 1 : cache'.slots[i] = IF i = k THEN Lower[n] ELSE s[i]
  BY <1>1, <1>3
<1>9. DOMAIN cache'.slots = 0 .. CACHE_CAP - 1
  BY <1>5
<1>10. \A i, j \in 0 .. CACHE_CAP - 1 :
          cache'.slots[i] = cache'.slots[j] => i = j \/ cache'.slots[i] = Unset
  BY <1>6, <1>7, <1>8
<1>11. cache' \in [slots : [0 .. CACHE_CAP - 1 -> HostNames \cup {Unset}], next : 0 .. CACHE_CAP - 1]
  <2> PICK t : t = cache'.slots
    OBVIOUS
  <2>1. cache' = [slots |-> t, next |-> (k + 1) % CACHE_CAP]
    BY <1>3
  <2> QED
    BY <2>1, <1>4, <1>5
<1> QED
  BY <1>9, <1>10, <1>11

\* Every step of the network keeps NetInv.
LEMMA NetInvStep ==
    ASSUME NetInv, [NetNext]_netVars
    PROVE  NetInv'
<1>u. CASE UNCHANGED netVars
  BY <1>u, NetQuietStep DEF netVars, NetQuiet
<1>i. ncall.pc # "dns" => (ncall = NoCall \/ query = NoQuery)
  BY DEF NetInv, NetConfig
<1>c. ncall.pc # "idle" => CallRec(ncall) /\ NET = "held" /\ ncall # NoCall
  BY DEF NetInv, NoCall
<1>1. ASSUME NEW op, NEW host \in HostNames \cup {"lit"}, NEW s, NEW id, Begin(op, host, s, id)
      PROVE  NetInv'
  <2>1. ncall = NoCall /\ query = NoQuery /\ NetQuiet
    BY <1>1 DEF NetInv, NetConfig, CallRec, Begin, NetQuiet
  <2>2. CallRec(ncall') /\ ncall'.pc = "lease" /\ NET' = "held"
    BY <1>1 DEF Begin, CallRec
  <2>3. NetConfig'
    BY <2>1, <2>2 DEF NetInv, NetConfig, NetQuiet
  <2> QED
    BY <2>1, <2>2, <2>3 DEF NetInv, NetQuiet
<1>2. CASE BadArgs
  BY <1>2, NetQuietStep DEF BadArgs, NetQuiet
<1>3. CASE on_poll
  <2>1. \/ netcfg' = Deconfigured
        \/ \E full \in BOOLEAN : netcfg' = [lease |-> "Leased", addr |-> "leased_ip",
               route |-> IF full THEN "router" ELSE Unset, servers |-> full, has_dns |-> full]
    BY <1>3 DEF on_poll, apply_configured, apply_deconfigured
  <2>2. NetConfig'
    BY <1>3, <2>1 DEF on_poll, NetInv, NetConfig, Deconfigured
  <2> QED
    BY <1>3, <2>2 DEF on_poll, NetInv, lookup, CallRec
<1>4. CASE DnsAnswer
  <2>1. PICK st \in {"ok", "empty", "failed"} : query' = [query EXCEPT !.st = st]
    BY <1>4 DEF DnsAnswer
  <2>2. ncall # NoCall /\ NET = "held" /\ query # NoQuery /\ query.name = ncall.host
    BY <1>4, <1>c DEF DnsAnswer, NetInv, NetConfig, NoQuery
  <2> QED
    BY <1>4, <2>1, <2>2 DEF DnsAnswer, NetInv, NetConfig, lookup, CallRec
<1>5. ASSUME NEW i, TcpSegment(i)
      PROVE  NetInv'
  BY <1>5, NetQuietStep DEF TcpSegment, NetQuiet
<1>6. CASE ensure_lease
  <2>1. CallRec(ncall') /\ ncall'.pc = "dns_resolve"
    BY <1>6, <1>c DEF ensure_lease, Leased, CallRec
  <2> QED
    BY <1>6, <1>c, <2>1, NetQuietStep DEF ensure_lease, NetQuiet
<1>7. CASE apply_static
  <2>1. CallRec(ncall') /\ ncall'.pc = "dns_resolve" /\ NET' = "held" /\ query' = NoQuery /\ cache' = cache
    BY <1>7, <1>c, <1>i DEF apply_static, Leased, CallRec
  <2>2. NetConfig'
    BY <1>7, <2>1 DEF apply_static, NetInv, NetConfig, StaticConfig
  <2> QED
    BY <2>1, <2>2 DEF NetInv
<1>8. CASE dns_resolve
  <2>1. ncall.pc = "dns_resolve" /\ CallRec(ncall) /\ NET = "held" /\ ncall # NoCall /\ query = NoQuery
    BY <1>8, <1>c, <1>i DEF dns_resolve
  <2>2. CASE HaveAddress(ncall) /\ UNCHANGED <<cache, query>>
    BY <1>8, <2>1, <2>2, HaveAddressCall, NetQuietStep DEF dns_resolve, NetQuiet
  <2>3. CASE Fails("Failed") /\ UNCHANGED <<cache, query, tcp, next_port, conns, echoes>>
    BY <1>8, <2>1, <2>3, NetQuietStep DEF dns_resolve, NetQuiet, Fails, NetReturn
  <2>4. CASE /\ ncall.host # "lit" /\ ~lookup(ncall.host)
             /\ query' = [name |-> ncall.host, st |-> "pending"]
             /\ ncall' = [ncall EXCEPT !.pc = "dns"]
             /\ UNCHANGED <<cache, tcp, next_port, conns, echoes, NET, nret>>
    <3>1. CallRec(ncall') /\ ncall'.pc = "dns" /\ ncall'.host = ncall.host /\ ncall.host \in HostNames
      BY <2>1, <2>4 DEF CallRec
    <3>2. NetConfig'
      BY <1>8, <2>1, <2>4, <3>1 DEF dns_resolve, NetInv, NetConfig
    <3> QED
      BY <2>1, <2>4, <3>1, <3>2 DEF NetInv, lookup
  <2> QED
    BY <1>8, <2>2, <2>3, <2>4 DEF dns_resolve
<1>9. CASE resolve_result
  <2>1. CallRec(ncall) /\ NET = "held" /\ ncall.host \in HostNames /\ ~lookup(ncall.host)
        /\ netcfg' = netcfg /\ query' = NoQuery
    BY <1>9, <1>c DEF resolve_result, NetInv
  <2>2. CASE store(ncall.host) /\ HaveAddress(ncall)
    <3>1. \/ ncall' = NoCall
          \/ CallRec(ncall') /\ ncall'.pc \in {"echo", "http", "tls"} /\ NET' = "held"
      BY <2>1, <2>2, HaveAddressCall
    <3>2. /\ cache' \in [slots : [0 .. CACHE_CAP - 1 -> HostNames \cup {Unset}], next : 0 .. CACHE_CAP - 1]
          /\ \A i, j \in DOMAIN cache'.slots :
                  cache'.slots[i] = cache'.slots[j] => i = j \/ cache'.slots[i] = Unset
      BY <2>1, <2>2, StoreFresh
    <3>3. NetConfig'
      BY <2>1, <3>2 DEF NetInv, NetConfig
    <3> QED
      BY <3>1, <3>2, <3>3 DEF NetInv, NoCall
  <2>3. CASE Fails("Failed") /\ UNCHANGED <<cache, tcp, next_port, conns, echoes>>
    BY <2>1, <2>3 DEF Fails, NetReturn, NetInv, NetConfig, NoCall
  <2> QED
    BY <1>9, <2>2, <2>3 DEF resolve_result
<1>10. CASE DnsTimeout
  BY <1>10 DEF DnsTimeout, Fails, NetReturn, NetInv, NetConfig, NoCall
<1>11. ASSUME NEW replies, NEW left, ncall.pc = "echo", NextEcho(replies, left), NetQuiet
       PROVE  NetInv'
  <2>1. CASE ncall' = NoCall
    <3>1. query = NoQuery
      BY <1>11, <1>c, <1>i
    <3> QED
      BY <1>11, <2>1, <3>1, NetQuietStep
  <2>2. CASE ~(ncall' = NoCall)
    <3>1. SendEcho([ncall EXCEPT !.replies = replies], ncall.seq + 1, left)
      BY <1>11, <2>2 DEF NextEcho, NetReturn
    <3>2. CallRec(ncall') /\ ncall'.pc = "echo" /\ NET' = "held"
      BY <1>11, <2>2, <3>1, <1>c DEF SendEcho, Fails, NetReturn, CallRec
    <3> QED
      BY <1>11, <1>c, <3>2, NetQuietStep
  <2> QED
    BY <2>1, <2>2
<1>12. CASE take_echo_reply
  <2>1. ncall.pc = "echo" /\ NetQuiet
    BY <1>12 DEF take_echo_reply, NetQuiet
  <2>2. CASE ncall.seq \in echoes /\ NextEcho(ncall.replies + 1, echoes \ {ncall.seq})
    BY <2>1, <2>2, <1>11
  <2>3. CASE UNCHANGED <<ncall, NET, nret>>
    BY <2>1, <2>3, NetQuietStep
  <2> QED
    BY <1>12, <2>2, <2>3 DEF take_echo_reply
<1>13. CASE EchoTimeout
  BY <1>13, <1>11 DEF EchoTimeout, NetQuiet
<1>14. CASE http_step \/ tls_step \/ GetTimeout
  <2>1. ncall.pc \in {"http", "tls"} /\ NetQuiet
    BY <1>14 DEF http_step, tls_step, GetTimeout, NetQuiet
  <2>2. query = NoQuery /\ ncall # NoCall /\ CallRec(ncall) /\ NET = "held"
    BY <2>1, <1>c, <1>i
  <2>3. \/ ncall' = NoCall
        \/ ncall' = ncall /\ NET' = NET
        \/ CallRec(ncall') /\ ncall'.pc \in {"http", "tls"} /\ NET' = "held"
    <3>1. CASE http_step
      BY <3>1, <2>2 DEF http_step, Fails, GotBody, NetReturn, CallRec
    <3>2. CASE tls_step
      BY <3>2, <2>2 DEF tls_step, Fails, GotBody, NetReturn, CallRec
    <3> QED
      BY <1>14, <3>1, <3>2 DEF GetTimeout, Fails, NetReturn
  <2> QED
    BY <2>1, <2>2, <2>3, NetQuietStep
<1>15. CASE Killed
  BY <1>15, NetQuietStep DEF Killed, NetQuiet
<1> QED
  BY <1>u, <1>1, <1>2, <1>3, <1>4, <1>5, <1>6, <1>7, <1>8, <1>9, <1>10, <1>12, <1>13, <1>14, <1>15
     DEF NetNext, Timeout, LoopStep

\* Whatever leases, losses, answers, timeouts and kills come in whatever order, the
\* interface is set to what the lease says, the query slot of the DNS socket is free
\* whenever a call can begin, and the cache holds no name twice (dhcp.rs, dns.rs,
\* net/mod.rs), for any names, any size of the cache and any number of ports.
THEOREM NetConfigKept == NetSpec => []NetConfig
<1>1. NetInit => NetInv
  BY NetworkConstants DEF NetInit, NetInv, NetConfig, NoCall, Deconfigured, NoQuery, Unset
<1>2. NetInv /\ [NetNext]_netVars => NetInv'
  BY NetInvStep
<1>3. NetInv => NetConfig
  BY DEF NetInv
<1> QED
  BY <1>1, <1>2, <1>3, PTL DEF NetSpec

-----------------------------------------------------------------------------
(* Network: whose body a get returns, and how much of it.                   *)

ConnIds == 0 .. LOCAL_PORTS - 1

\* Connections, the socket, and the two kinds of calls.
Conn == [port : ConnIds \cup {-1}, resp : Responses \cup {"none"}, left : Nat]
TcpSockets == [st : {"Closed", "SynSent", "Est", "CloseWait"}, port : ConnIds, rx : Seq(ConnIds)]
Calls(op, pcs, schemes) ==
    [pc : pcs, op : {op}, host : HostNames \cup {"lit"}, scheme : schemes, id : ConnIds,
     seq : Nat, replies : Nat, sent : BOOLEAN, rx : Seq(ConnIds),
     tls : {"hello", "wait", "ready", "traffic"}, out : BOOLEAN]
PingCalls == Calls("ping", {"lease", "dns_resolve", "dns", "echo"}, {"none"})
GetCalls  == Calls("get", {"lease", "dns_resolve", "dns", "http", "tls"}, {"http", "https"})

\* The lesser of the two.
AtMost(n, m) == IF n < m THEN n ELSE m

\* Every entry of s is v.
Only(v, s) == \A j \in DOMAIN s : s[j] = v

\* Call c talks to server k through socket t: what has arrived is k's, all of it if the
\* connection has come to its end, and over plain HTTP none of it was left out before
\* the buffer was full.
Talks(c, t, k) ==
    /\ t.port = c.id /\ k.resp \in Responses
    /\ Only(c.id, t.rx) /\ Only(c.id, c.rx)
    /\ t.st = "CloseWait" => k.left = 0
    /\ c.pc = "tls" => c.scheme = "https"
    /\ c.pc = "http" =>
         /\ c.scheme = "http"
         /\ t.st = "SynSent" => ~c.sent
         /\ k.left + Len(t.rx) <= HEAD + k.resp.body
         /\ Len(c.rx) = AtMost(HEAD + k.resp.body - k.left - Len(t.rx), BODY_CAP + SLACK)

\* A get: its number is the next connection's until it has it; before, the socket is closed.
GetOK(c, t, n, of) ==
    /\ c.pc \in {"lease", "dns_resolve", "dns"} => c.id = n /\ c.rx = << >> /\ ~c.sent
    /\ c.pc \in {"dns_resolve", "dns"} => t.st = "Closed"
    /\ c.pc \in {"http", "tls"} => Talks(c, t, of[c.id])

\* The number of a connection is its port.
GetInv ==
    /\ conns \in [next : ConnIds, of : [ConnIds -> Conn]]
    /\ next_port = conns.next
    /\ \A i \in ConnIds : conns.of[i].port \in {i, -1}
    /\ tcp \in TcpSockets
    /\ \/ ncall = NoCall
       \/ ncall \in PingCalls
       \/ ncall \in GetCalls /\ GetOK(ncall, tcp, conns.next, conns.of)
    /\ GetIsRight

\* The first port comes after the last one, and so does the number.
LEMMA AdvanceFacts ==
    ASSUME NEW p \in ConnIds
    PROVE  Advance(p) = (p + 1) % LOCAL_PORTS /\ Advance(p) \in ConnIds
<1>1. LOCAL_PORTS \in Nat \ {0}
  BY NetworkConstants
<1>2. CASE p = LOCAL_PORTS - 1
  <2>1. p + 1 = LOCAL_PORTS
    BY <1>1, <1>2
  <2>2. LOCAL_PORTS % LOCAL_PORTS = 0
    BY <1>1
  <2> QED  BY <1>1, <1>2, <2>1, <2>2 DEF Advance, ConnIds
<1>3. CASE p # LOCAL_PORTS - 1
  <2>1. p + 1 \in 0 .. LOCAL_PORTS - 1
    BY <1>1, <1>3 DEF ConnIds
  <2>2. (p + 1) % LOCAL_PORTS = p + 1
    BY <1>1, <2>1
  <2> QED  BY <1>3, <2>1, <2>2 DEF Advance, ConnIds
<1> QED  BY <1>2, <1>3

\* The beginning of a sequence.
LEMMA TakeFacts ==
    ASSUME NEW V, NEW s \in Seq(V), NEW n \in Nat, NEW v, Only(v, s)
    PROVE  Take(s, n) \in Seq(V) /\ Len(Take(s, n)) = AtMost(Len(s), n) /\ Only(v, Take(s, n))
<1>1. PICK m \in Nat : m = (IF n < Len(s) THEN n ELSE Len(s)) /\ m <= Len(s) /\ m = AtMost(Len(s), n)
  BY DEF AtMost
<1>2. \A i \in 1 .. m : s[i] \in V /\ i \in DOMAIN s
  BY <1>1
<1>3. PICK r : r = SubSeq(s, 1, m)
  OBVIOUS
<1>4. r \in Seq(V) /\ Len(r) = m /\ \A i \in 1 .. m : r[i] = s[i]
  BY <1>2, <1>3, SubSeqProperties
<1>5. DOMAIN r = 1 .. m
  BY <1>4
<1>6. Only(v, r)
  BY <1>2, <1>4, <1>5 DEF Only
<1>7. Take(s, n) = r
  BY <1>1, <1>3 DEF Take
<1> QED  BY <1>1, <1>4, <1>6, <1>7

\* What follows the head.
LEMMA BodyFacts ==
    ASSUME NEW V, NEW s \in Seq(V), Len(s) >= HEAD, NEW v, Only(v, s)
    PROVE  Body(s) \in Seq(V) /\ Len(Body(s)) = Len(s) - HEAD /\ Only(v, Body(s))
<1>1. \A i \in 2 .. Len(s) : s[i] \in V /\ i \in DOMAIN s
  OBVIOUS
<1>2. PICK r : r = SubSeq(s, 2, Len(s))
  OBVIOUS
<1>3. r \in Seq(V) /\ Len(r) = Len(s) - 1 /\ \A i \in 1 .. Len(s) - 1 : r[i] = s[i + 1]
  BY <1>1, <1>2, SubSeqProperties DEF HEAD
<1>4. DOMAIN r = 1 .. Len(s) - 1
  BY <1>3
<1>5. Only(v, r)
  BY <1>1, <1>3, <1>4 DEF Only
<1>6. Body(s) = r
  BY <1>2 DEF Body, HEAD
<1> QED  BY <1>3, <1>5, <1>6 DEF HEAD

\* Two sequences of the same bytes, one after the other.
LEMMA JoinFacts ==
    ASSUME NEW V, NEW s \in Seq(V), NEW t \in Seq(V), NEW v, Only(v, s), Only(v, t)
    PROVE  s \o t \in Seq(V) /\ Len(s \o t) = Len(s) + Len(t) /\ Only(v, s \o t)
<1>1. PICK r : r = s \o t
  OBVIOUS
<1>2. /\ r \in Seq(V) /\ Len(r) = Len(s) + Len(t)
      /\ \A i \in 1 .. Len(s) + Len(t) : r[i] = IF i <= Len(s) THEN s[i] ELSE t[i - Len(s)]
  BY <1>1, ConcatProperties
<1>3. DOMAIN r = 1 .. Len(s) + Len(t) /\ DOMAIN s = 1 .. Len(s) /\ DOMAIN t = 1 .. Len(t)
  BY <1>2
<1>4. ASSUME NEW i \in DOMAIN r
      PROVE  r[i] = v
  <2>1. CASE i <= Len(s)
    <3>1. i \in DOMAIN s /\ r[i] = s[i]
      BY <1>2, <1>3, <2>1
    <3> QED  BY <3>1 DEF Only
  <2>2. CASE ~(i <= Len(s))
    <3>1. i - Len(s) \in DOMAIN t /\ r[i] = t[i - Len(s)]
      BY <1>2, <1>3, <2>2
    <3> QED  BY <3>1 DEF Only
  <2> QED  BY <2>1, <2>2
<1> QED  BY <1>1, <1>2, <1>4 DEF Only

LEMMA AppendFacts ==
    ASSUME NEW V, NEW s \in Seq(V), NEW v \in V, Only(v, s)
    PROVE  Append(s, v) \in Seq(V) /\ Len(Append(s, v)) = Len(s) + 1 /\ Only(v, Append(s, v))
<1>1. PICK r : r = Append(s, v)
  OBVIOUS
<1>2. /\ r \in Seq(V) /\ Len(r) = Len(s) + 1
      /\ \A i \in 1 .. Len(s) : r[i] = s[i]
      /\ r[Len(s) + 1] = v
  BY <1>1, AppendProperties
<1>3. DOMAIN r = 1 .. Len(s) + 1 /\ DOMAIN s = 1 .. Len(s)
  BY <1>2
<1>4. \A i \in DOMAIN r : r[i] = v
  BY <1>2, <1>3 DEF Only
<1> QED  BY <1>1, <1>2, <1>4 DEF Only

\* What the last call returned stays right when it is not a new body.
LEMMA ReturnRight ==
    ASSUME GetIsRight, nret' = nret \/ nret'.ok = FALSE \/ nret'.op = "ping"
    PROVE  GetIsRight'
<1>1. CASE nret' = nret
  BY <1>1 DEF GetIsRight
<1>2. CASE nret'.ok = FALSE \/ nret'.op = "ping"
  BY <1>2 DEF GetIsRight
<1> QED  BY <1>1, <1>2

\* A step after which no get is under way, and no connection is new.
LEMMA GetOver ==
    ASSUME GetInv, conns' = conns, next_port' = next_port, tcp' \in TcpSockets,
           ncall' = NoCall \/ ncall' \in PingCalls, GetIsRight'
    PROVE  GetInv'
BY DEF GetInv

\* A step that does not touch call and socket.
LEMMA GetSame ==
    ASSUME GetInv, conns' = conns, next_port' = next_port, tcp' = tcp, ncall' = ncall,
           nret' = nret \/ nret'.ok = FALSE
    PROVE  GetInv'
<1>1. GetIsRight'
  BY ReturnRight DEF GetInv
<1>2. CASE ncall = NoCall \/ ncall \in PingCalls
  BY <1>1, <1>2, GetOver DEF GetInv
<1>3. CASE ncall \in GetCalls /\ GetOK(ncall, tcp, conns.next, conns.of)
  <2>1. ncall' \in GetCalls /\ GetOK(ncall', tcp', conns'.next, conns'.of)
    BY <1>3
  <2> QED  BY <1>1, <2>1 DEF GetInv
<1> QED  BY <1>2, <1>3 DEF GetInv

\* A get goes on with the same connections.
LEMMA GetOn ==
    ASSUME GetInv, conns' = conns, next_port' = next_port, tcp' \in TcpSockets,
           ncall' \in GetCalls, GetOK(ncall', tcp', conns.next, conns.of), nret' = nret
    PROVE  GetInv'
<1>1. GetIsRight'
  BY ReturnRight DEF GetInv
<1>2. GetOK(ncall', tcp', conns'.next, conns'.of)
  BY Zenon
<1> QED  BY <1>1, <1>2 DEF GetInv

\* Where a call is says which kind it is.
LEMMA CallKinds ==
    ASSUME GetInv
    PROVE  /\ ncall.pc = "idle" => ncall = NoCall
           /\ ncall.pc = "echo" => ncall \in PingCalls
           /\ ncall.pc \in {"http", "tls"} =>
                  ncall \in GetCalls /\ Talks(ncall, tcp, conns.of[ncall.id])
           /\ ncall.pc \in {"lease", "dns_resolve", "dns"} =>
                  \/ ncall \in PingCalls /\ ncall.op = "ping"
                  \/ /\ ncall \in GetCalls /\ ncall.op = "get" /\ ncall.id = conns.next
                     /\ ncall.rx = << >> /\ ~ncall.sent
                     /\ ncall.pc # "lease" => tcp.st = "Closed"
<1>1. CASE ncall = NoCall
  BY <1>1 DEF NoCall
<1>2. CASE ncall \in PingCalls
  <2>1. ncall.pc \in {"lease", "dns_resolve", "dns", "echo"} /\ ncall.op = "ping"
    BY <1>2 DEF PingCalls, Calls
  <2> QED  BY <1>2, <2>1
<1>3. CASE ncall \in GetCalls /\ GetOK(ncall, tcp, conns.next, conns.of)
  <2>1. ncall.pc \in {"lease", "dns_resolve", "dns", "http", "tls"} /\ ncall.op = "get"
    BY <1>3 DEF GetCalls, Calls
  <2> QED  BY <1>3, <2>1 DEF GetOK
<1> QED  BY <1>1, <1>2, <1>3 DEF GetInv

\* A call begins.
LEMMA BeginGet ==
    ASSUME GetInv, NEW host \in HostNames \cup {"lit"},
           \/ Begin("ping", host, "none", 0)
           \/ \E s \in {"http", "https"} : Begin("get", host, s, conns.next)
    PROVE  GetInv'
<1>1. 0 \in ConnIds /\ conns.next \in ConnIds /\ << >> \in Seq(ConnIds)
  BY NetworkConstants DEF GetInv, ConnIds
<1>2. ASSUME NEW op, NEW s, NEW id, Begin(op, host, s, id)
      PROVE  /\ UNCHANGED <<tcp, next_port, conns>> /\ nret'.ok = FALSE
             /\ ncall' = [pc |-> "lease", op |-> op, host |-> host, scheme |-> s, id |-> id,
                          seq |-> 0, replies |-> 0, sent |-> FALSE, rx |-> <<>>,
                          tls |-> "hello", out |-> FALSE]
  BY <1>2 DEF Begin
<1>3. ASSUME Begin("ping", host, "none", 0)
      PROVE  GetInv'
  <2>1. ncall' \in PingCalls
    <3>1. ncall' = [pc |-> "lease", op |-> "ping", host |-> host, scheme |-> "none", id |-> 0,
                    seq |-> 0, replies |-> 0, sent |-> FALSE, rx |-> <<>>,
                    tls |-> "hello", out |-> FALSE]
      BY <1>2, <1>3
    <3> QED  BY <1>1, <3>1 DEF PingCalls, Calls
  <2>2. GetIsRight'
    BY <1>2, <1>3, ReturnRight DEF GetInv
  <2>3. tcp' \in TcpSockets /\ conns' = conns /\ next_port' = next_port
    BY <1>2, <1>3 DEF GetInv
  <2> QED  BY <2>1, <2>2, <2>3, GetOver
<1>4. ASSUME NEW s \in {"http", "https"}, Begin("get", host, s, conns.next)
      PROVE  GetInv'
  <2>1. PICK c : c = [pc |-> "lease", op |-> "get", host |-> host, scheme |-> s, id |-> conns.next,
                      seq |-> 0, replies |-> 0, sent |-> FALSE, rx |-> <<>>,
                      tls |-> "hello", out |-> FALSE]
    OBVIOUS
  <2>2. c \in GetCalls
    BY <1>1, <2>1 DEF GetCalls, Calls
  <2>3. GetOK(c, tcp, conns.next, conns.of)
    BY <2>1 DEF GetOK
  <2>4. ncall' = c /\ tcp' = tcp /\ conns' = conns /\ next_port' = next_port /\ nret'.ok = FALSE
    BY <1>2, <1>4, <2>1
  <2>5. GetIsRight'
    BY <2>4, ReturnRight DEF GetInv
  <2>6. GetOK(ncall', tcp', conns'.next, conns'.of)
    BY <2>3, <2>4, Zenon
  <2> QED  BY <2>2, <2>4, <2>5, <2>6 DEF GetInv
<1> QED  BY <1>3, <1>4

\* abort_tcp leaves a closed socket.
LEMMA AbortFacts ==
    ASSUME GetInv, abort_tcp
    PROVE  tcp' \in TcpSockets /\ tcp'.st = "Closed"
<1>1. << >> \in Seq(ConnIds)
  OBVIOUS
<1> QED  BY <1>1 DEF GetInv, abort_tcp, TcpSockets

\* The lease is there: a get closes the socket.
LEMMA LeaseGet ==
    ASSUME GetInv, ensure_lease \/ apply_static
    PROVE  GetInv'
<1>1. ncall.pc = "lease" /\ Leased /\ conns' = conns /\ next_port' = next_port /\ nret' = nret
  BY DEF ensure_lease, apply_static
<1>2. PICK c : c = [ncall EXCEPT !.pc = "dns_resolve"]
  OBVIOUS
<1>3. ncall' = c
  BY <1>1, <1>2 DEF Leased
<1>4. CASE ncall \in PingCalls /\ ncall.op = "ping"
  <2>1. c \in PingCalls
    BY <1>2, <1>4 DEF PingCalls, Calls
  <2>2. tcp' = tcp
    BY <1>1, <1>4 DEF Leased
  <2>3. GetIsRight' /\ tcp \in TcpSockets
    BY <1>1, ReturnRight DEF GetInv
  <2> QED  BY <1>1, <1>3, <2>1, <2>2, <2>3, GetOver
<1>5. CASE ncall \in GetCalls /\ ncall.op = "get" /\ ncall.id = conns.next /\ ncall.rx = << >> /\ ~ncall.sent
  <2>1. c \in GetCalls /\ c.pc = "dns_resolve" /\ c.id = conns.next /\ c.rx = << >> /\ ~c.sent
    BY <1>2, <1>5 DEF GetCalls, Calls
  <2>2. tcp' \in TcpSockets /\ tcp'.st = "Closed"
    BY <1>1, <1>5, AbortFacts DEF Leased
  <2>3. GetOK(c, tcp', conns.next, conns.of)
    BY <2>1, <2>2 DEF GetOK
  <2> QED  BY <1>1, <1>3, <2>1, <2>2, <2>3, GetOn
<1> QED  BY <1>1, <1>4, <1>5, CallKinds

\* The bookkeeping of a new connection.
LEMMA WithConnFacts ==
    ASSUME GetInv, NEW resp \in Responses, NEW n \in Nat, NEW id, id = conns.next
    PROVE  LET k == [port |-> next_port, resp |-> resp, left |-> n]
               w == WithConn(id, k)
           IN  /\ w \in [next : ConnIds, of : [ConnIds -> Conn]]
               /\ w.next = Advance(next_port) /\ w.of[id] = k
               /\ \A i \in ConnIds : w.of[i].port \in {i, -1}
<1>1. PICK k : k = [port |-> next_port, resp |-> resp, left |-> n]
  OBVIOUS
<1>2. next_port = id /\ id \in ConnIds /\ conns.of \in [ConnIds -> Conn]
      /\ \A i \in ConnIds : conns.of[i].port \in {i, -1}
  BY DEF GetInv
<1>3. k \in Conn /\ NoConn \in Conn /\ k.port = id /\ NoConn.port = -1
  BY <1>1, <1>2 DEF Conn, NoConn
<1>4. (id + 1) % LOCAL_PORTS = Advance(next_port) /\ Advance(next_port) \in ConnIds
  BY <1>2, AdvanceFacts
<1>5. PICK g : g = [i \in ConnIds |->
                       IF i = id THEN k ELSE IF conns.of[i].left > 0 THEN conns.of[i] ELSE NoConn]
  OBVIOUS
<1>6. \A i \in ConnIds : (g[i] = k /\ i = id) \/ g[i] = conns.of[i] \/ g[i] = NoConn
  BY <1>5
<1>7. g \in [ConnIds -> Conn] /\ g[id] = k /\ \A i \in ConnIds : g[i].port \in {i, -1}
  <2>1. \A i \in ConnIds : conns.of[i] \in Conn
    BY <1>2
  <2>2. \A i \in ConnIds : g[i] \in Conn
    BY <1>3, <1>6, <2>1
  <2>3. \A i \in ConnIds : g[i].port \in {i, -1}
    BY <1>2, <1>3, <1>6
  <2> QED  BY <1>2, <1>5, <2>2, <2>3
<1>8. WithConn(id, k) = [next |-> (id + 1) % LOCAL_PORTS, of |-> g]
  BY <1>5 DEF WithConn, ConnIds
<1> QED  BY <1>1, <1>4, <1>7, <1>8

\* A get connects.
LEMMA ConnectGet ==
    ASSUME GetInv, NEW c \in GetCalls, c.pc \in {"dns_resolve", "dns"}, c.id = conns.next,
           c.rx = << >>, ~c.sent, tcp.st = "Closed", NEW resp \in Responses, Connect(c, resp)
    PROVE  GetInv'
<1>1. PICK n : n = HEAD + resp.body + (IF c.scheme = "https" THEN 1 ELSE 0)
  OBVIOUS
<1>2. resp.body \in Nat /\ n \in Nat /\ (c.scheme = "http" => n = HEAD + resp.body)
  BY <1>1, NetworkConstants DEF HEAD
<1>3. PICK k : k = [port |-> next_port, resp |-> resp, left |-> n]
  OBVIOUS
<1>4. PICK w : w = WithConn(c.id, k)
  OBVIOUS
<1>5. /\ w \in [next : ConnIds, of : [ConnIds -> Conn]]
      /\ w.next = Advance(next_port) /\ w.of[c.id] = k
      /\ \A i \in ConnIds : w.of[i].port \in {i, -1}
  BY <1>2, <1>3, <1>4, WithConnFacts
<1>6. PICK t : t = [st |-> "SynSent", port |-> next_port, rx |-> << >>]
  OBVIOUS
<1>7. next_port' = w.next /\ conns' = w /\ tcp' = t
  BY <1>1, <1>3, <1>4, <1>5, <1>6 DEF Connect
<1>8. \/ /\ ncall' = [c EXCEPT !.pc = IF c.scheme = "http" THEN "http" ELSE "tls"] /\ nret' = nret
      \/ Fails("Https")
  BY DEF Connect
<1>9. next_port \in ConnIds /\ next_port = c.id
  BY DEF GetInv
<1>10. t \in TcpSockets
  <2>1. << >> \in Seq(ConnIds)
    OBVIOUS
  <2> QED  BY <1>6, <1>9, <2>1 DEF TcpSockets
<1>11. CASE Fails("Https")
  <2>1. ncall' = NoCall /\ nret'.ok = FALSE
    BY <1>11 DEF Fails, NetReturn
  <2>2. GetIsRight'
    BY <2>1, ReturnRight DEF GetInv
  <2> QED  BY <1>5, <1>7, <1>10, <2>1, <2>2 DEF GetInv
<1>12. CASE ncall' = [c EXCEPT !.pc = IF c.scheme = "http" THEN "http" ELSE "tls"] /\ nret' = nret
  <2>1. PICK d : d = [c EXCEPT !.pc = IF c.scheme = "http" THEN "http" ELSE "tls"]
    OBVIOUS
  <2>2. /\ d \in GetCalls /\ d.id = c.id /\ d.rx = << >> /\ ~d.sent /\ d.pc \in {"http", "tls"}
        /\ d.pc = "http" => c.scheme = "http" /\ d.scheme = "http"
        /\ d.pc = "tls" => d.scheme = "https"
    BY <2>1 DEF GetCalls, Calls
  <2>3. Talks(d, t, k)
    <3>1. t.port = d.id /\ k.resp = resp /\ t.rx = << >> /\ t.st = "SynSent" /\ k.left = n
      BY <1>3, <1>6, <1>9, <2>2
    <3>2. Only(d.id, t.rx) /\ Only(d.id, d.rx)
      BY <2>2, <3>1 DEF Only
    <3>3. Len(t.rx) = 0 /\ Len(d.rx) = 0
      BY <2>2, <3>1
    <3>4. AtMost(0, BODY_CAP + SLACK) = 0
      BY NetworkConstants DEF AtMost, HEAD
    <3>5. ASSUME d.pc = "http"
          PROVE  /\ k.left + Len(t.rx) <= HEAD + k.resp.body
                 /\ Len(d.rx) = AtMost(HEAD + k.resp.body - k.left - Len(t.rx), BODY_CAP + SLACK)
      <4>1. n = HEAD + resp.body /\ HEAD \in Nat
        BY <1>2, <2>2, <3>5 DEF HEAD
      <4>2. HEAD + k.resp.body - k.left - Len(t.rx) = 0 /\ k.left + Len(t.rx) <= HEAD + k.resp.body
        BY <1>2, <3>1, <3>3, <4>1
      <4> QED  BY <3>3, <3>4, <4>2
    <3> QED  BY <2>2, <3>1, <3>2, <3>5 DEF Talks
  <2>4. GetOK(d, t, w.next, w.of)
    BY <1>5, <2>2, <2>3 DEF GetOK
  <2>5. ncall' = d /\ GetIsRight'
    BY <1>12, <2>1, ReturnRight DEF GetInv
  <2>6. GetOK(ncall', tcp', conns'.next, conns'.of)
    BY <1>7, <2>4, <2>5, Zenon
  <2> QED  BY <1>5, <1>7, <1>10, <2>2, <2>5, <2>6 DEF GetInv
<1> QED  BY <1>8, <1>11, <1>12

\* An echo is sent, or cannot be.
LEMMA EchoSent ==
    ASSUME NEW c \in PingCalls, NEW n \in Nat, NEW left, SendEcho(c, n, left)
    PROVE  (ncall' \in PingCalls /\ nret' = nret) \/ (ncall' = NoCall /\ nret'.ok = FALSE)
<1>1. CASE ncall' = [c EXCEPT !.pc = "echo", !.seq = n] /\ nret' = nret
  BY <1>1 DEF PingCalls, Calls
<1>2. CASE Fails("Failed")
  BY <1>2 DEF Fails, NetReturn
<1> QED  BY <1>1, <1>2 DEF SendEcho

\* The address is known.
LEMMA AddressGet ==
    ASSUME GetInv, ncall.pc \in {"dns_resolve", "dns"}, HaveAddress(ncall)
    PROVE  GetInv'
<1>1. PICK c : c = [ncall EXCEPT !.host = "lit"]
  OBVIOUS
<1>2. \/ c.op = "ping" /\ SendEcho(c, 0, echoes) /\ UNCHANGED <<tcp, next_port, conns>>
      \/ c.op = "get" /\ \E resp \in Responses : Connect(c, resp)
  BY <1>1 DEF HaveAddress
<1>3. CASE ncall \in PingCalls /\ ncall.op = "ping"
  <2>1. c \in PingCalls /\ c.op = "ping"
    BY <1>1, <1>3 DEF PingCalls, Calls
  <2>2. SendEcho(c, 0, echoes) /\ UNCHANGED <<tcp, next_port, conns>>
    BY <1>2, <2>1
  <2>3. (ncall' \in PingCalls /\ nret' = nret) \/ (ncall' = NoCall /\ nret'.ok = FALSE)
    BY <2>1, <2>2, EchoSent
  <2>4. GetIsRight'
    BY <2>3, ReturnRight DEF GetInv
  <2> QED  BY <2>2, <2>3, <2>4, GetOver DEF GetInv
<1>4. CASE /\ ncall \in GetCalls /\ ncall.op = "get" /\ ncall.id = conns.next
           /\ ncall.rx = << >> /\ ~ncall.sent /\ tcp.st = "Closed"
  <2>1. /\ c \in GetCalls /\ c.op = "get" /\ c.id = conns.next /\ c.rx = << >> /\ ~c.sent
        /\ c.pc \in {"dns_resolve", "dns"}
    BY <1>1, <1>4 DEF GetCalls, Calls
  <2>2. PICK resp \in Responses : Connect(c, resp)
    BY <1>2, <2>1
  <2> QED  BY <1>4, <2>1, <2>2, ConnectGet
<1> QED  BY <1>3, <1>4, CallKinds

\* The call ends without a body.
LEMMA EndGet ==
    ASSUME GetInv, conns' = conns, next_port' = next_port, tcp' = tcp \/ abort_tcp,
           ncall' = NoCall, nret'.ok = FALSE \/ nret'.op = "ping"
    PROVE  GetInv'
<1>1. tcp' \in TcpSockets
  BY AbortFacts DEF GetInv
<1>2. GetIsRight'
  BY ReturnRight DEF GetInv
<1> QED  BY <1>1, <1>2, GetOver

\* Lookups and pings do not touch the connections.
LEMMA OtherSteps ==
    ASSUME GetInv,
           \/ BadArgs \/ on_poll \/ DnsAnswer \/ dns_resolve \/ resolve_result \/ DnsTimeout
           \/ take_echo_reply \/ EchoTimeout \/ GetTimeout \/ Killed
    PROVE  GetInv'
<1>1. CASE BadArgs \/ on_poll \/ DnsAnswer
  <2>1. /\ conns' = conns /\ next_port' = next_port /\ tcp' = tcp /\ ncall' = ncall
        /\ nret' = nret \/ nret'.ok = FALSE
    BY <1>1 DEF BadArgs, on_poll, DnsAnswer
  <2> QED  BY <2>1, GetSame
<1>2. ASSUME Fails("Failed") \/ Fails("Timeout"), conns' = conns, next_port' = next_port,
             tcp' = tcp \/ abort_tcp
      PROVE  GetInv'
  <2>1. ncall' = NoCall /\ nret'.ok = FALSE
    BY <1>2 DEF Fails, NetReturn
  <2> QED  BY <1>2, <2>1, EndGet
<1>3. CASE dns_resolve
  <2>1. ncall.pc = "dns_resolve"
    BY <1>3 DEF dns_resolve
  <2>2. CASE HaveAddress(ncall)
    BY <2>1, <2>2, AddressGet
  <2>3. CASE Fails("Failed") /\ UNCHANGED <<cache, query, tcp, next_port, conns, echoes>>
    BY <1>2, <2>3
  <2>4. CASE /\ ncall' = [ncall EXCEPT !.pc = "dns"]
             /\ UNCHANGED <<cache, tcp, next_port, conns, echoes, NET, nret>>
    <3>1. PICK c : c = [ncall EXCEPT !.pc = "dns"]
      OBVIOUS
    <3>2. ncall' = c /\ tcp' = tcp /\ conns' = conns /\ next_port' = next_port /\ nret' = nret
      BY <2>4, <3>1
    <3>3. CASE ncall \in PingCalls
      <4>1. c \in PingCalls
        BY <3>1, <3>3 DEF PingCalls, Calls
      <4>2. GetIsRight' /\ tcp \in TcpSockets
        BY <3>2, ReturnRight DEF GetInv
      <4> QED  BY <3>2, <4>1, <4>2, GetOver
    <3>4. CASE /\ ncall \in GetCalls /\ ncall.id = conns.next
               /\ ncall.rx = << >> /\ ~ncall.sent /\ tcp.st = "Closed"
      <4>1. c \in GetCalls /\ c.pc = "dns" /\ c.id = conns.next /\ c.rx = << >> /\ ~c.sent
        BY <3>1, <3>4 DEF GetCalls, Calls
      <4>2. GetOK(c, tcp, conns.next, conns.of)
        BY <3>4, <4>1 DEF GetOK
      <4>3. GetOK(ncall', tcp', conns.next, conns.of) /\ tcp' \in TcpSockets
        BY <3>2, <4>2 DEF GetInv
      <4> QED  BY <3>2, <4>1, <4>3, GetOn
    <3> QED  BY <2>1, <3>3, <3>4, CallKinds
  <2> QED  BY <1>3, <2>2, <2>3, <2>4 DEF dns_resolve
<1>4. CASE resolve_result
  <2>1. ncall.pc = "dns"
    BY <1>4 DEF resolve_result
  <2>2. HaveAddress(ncall) \/ (Fails("Failed") /\ UNCHANGED <<tcp, next_port, conns>>)
    BY <1>4 DEF resolve_result
  <2> QED  BY <1>2, <2>1, <2>2, AddressGet
<1>5. CASE DnsTimeout \/ GetTimeout
  BY <1>2, <1>5 DEF DnsTimeout, GetTimeout
<1>6. ASSUME ncall.pc = "echo", NEW n \in Nat, NEW left, NextEcho(n, left),
             UNCHANGED <<tcp, next_port, conns>>
      PROVE  GetInv'
  <2>1. ncall \in PingCalls
    BY <1>6, CallKinds
  <2>2. CASE NetReturn([ok |-> TRUE, op |-> "ping", replies |-> n])
    <3>1. ncall' = NoCall /\ nret'.op = "ping"
      BY <2>2 DEF NetReturn
    <3> QED  BY <1>6, <3>1, EndGet
  <2>3. CASE SendEcho([ncall EXCEPT !.replies = n], ncall.seq + 1, left)
    <3>1. [ncall EXCEPT !.replies = n] \in PingCalls /\ ncall.seq + 1 \in Nat
      BY <1>6, <2>1 DEF PingCalls, Calls
    <3>2. (ncall' \in PingCalls /\ nret' = nret) \/ (ncall' = NoCall /\ nret'.ok = FALSE)
      BY <2>3, <3>1, EchoSent
    <3>3. GetIsRight'
      BY <3>2, ReturnRight DEF GetInv
    <3> QED  BY <1>6, <3>2, <3>3, GetOver DEF GetInv
  <2> QED  BY <1>6, <2>2, <2>3 DEF NextEcho
<1>7. CASE take_echo_reply \/ EchoTimeout
  <2>1. ncall.pc = "echo" /\ UNCHANGED <<tcp, next_port, conns>>
    BY <1>7 DEF take_echo_reply, EchoTimeout
  <2>2. ncall.replies \in Nat /\ ncall.replies + 1 \in Nat
    BY <2>1, CallKinds DEF PingCalls, Calls
  <2>3. \/ \E n \in Nat : \E left : NextEcho(n, left)
        \/ ncall' = ncall /\ nret' = nret
    BY <1>7, <2>2 DEF take_echo_reply, EchoTimeout
  <2> QED  BY <1>6, <2>1, <2>3, GetSame
<1>8. CASE Killed
  <2>1. /\ ncall' = NoCall /\ nret'.ok = FALSE
        /\ conns' = conns /\ next_port' = next_port /\ tcp' = tcp
    BY <1>8 DEF Killed
  <2> QED  BY <2>1, EndGet
<1> QED  BY <1>1, <1>3, <1>4, <1>5, <1>7, <1>8

\* A segment arrives: it is of this call's server, for no other has its port.
LEMMA SegmentGet ==
    ASSUME GetInv, NEW i \in ConnIds, TcpSegment(i)
    PROVE  GetInv'
<1>1. ncall.pc \in {"http", "tls"} /\ conns.of[i].port = tcp.port
      /\ ncall' = ncall /\ next_port' = next_port /\ nret' = nret
  BY DEF TcpSegment
<1>2. ncall \in GetCalls /\ Talks(ncall, tcp, conns.of[ncall.id])
  BY <1>1, CallKinds
<1>3. tcp.port \in ConnIds /\ conns.of[i].port \in {i, -1} /\ tcp \in TcpSockets
  BY DEF GetInv, TcpSockets
<1>4. i = ncall.id
  <2>1. conns.of[i].port # -1
    BY <1>1, <1>3, NetworkConstants DEF ConnIds
  <2> QED  BY <1>1, <1>2, <1>3, <2>1 DEF Talks
<1>5. PICK k \in Conn : k = conns.of[i]
  BY DEF GetInv
<1>6. PICK f \in [ConnIds -> Conn] : f = conns.of
  BY DEF GetInv
<1>7. ASSUME NEW t \in TcpSockets, Talks(ncall, t, k), tcp' = t, conns' = conns
      PROVE  GetInv'
  <2>1. GetOK(ncall, t, conns.next, conns.of)
    BY <1>1, <1>4, <1>5, <1>7 DEF GetOK
  <2>2. GetOK(ncall', tcp', conns.next, conns.of) /\ ncall' \in GetCalls
    BY <1>1, <1>2, <1>7, <2>1
  <2> QED  BY <1>1, <1>7, <2>2, GetOn
<1>8. \/ tcp.st = "SynSent" /\ tcp' = [tcp EXCEPT !.st = "Est"] /\ conns' = conns
      \/ /\ tcp.st = "Est" /\ k.left > 0
         /\ tcp' = [tcp EXCEPT !.rx = Append(@, i)] /\ conns' = [conns EXCEPT !.of[i].left = @ - 1]
      \/ tcp.st = "Est" /\ k.left = 0 /\ tcp' = [tcp EXCEPT !.st = "CloseWait"] /\ conns' = conns
      \/ tcp' = [tcp EXCEPT !.st = "Closed"] /\ conns' = conns
  BY <1>5 DEF TcpSegment
<1>9. ASSUME NEW s \in {"Est", "CloseWait", "Closed"}, s = "CloseWait" => k.left = 0,
             tcp' = [tcp EXCEPT !.st = s], conns' = conns
      PROVE  GetInv'
  <2>1. PICK t : t = [tcp EXCEPT !.st = s]
    OBVIOUS
  <2>2. t \in TcpSockets /\ t.st = s /\ t.port = tcp.port /\ t.rx = tcp.rx
    BY <1>3, <2>1 DEF TcpSockets
  <2>3. Talks(ncall, t, k)
    BY <1>2, <1>4, <1>5, <1>9, <2>2 DEF Talks
  <2> QED  BY <1>7, <1>9, <2>1, <2>2, <2>3
<1>10. CASE /\ tcp.st = "Est" /\ k.left > 0
            /\ tcp' = [tcp EXCEPT !.rx = Append(@, i)] /\ conns' = [conns EXCEPT !.of[i].left = @ - 1]
  <2>1. PICK t : t = [tcp EXCEPT !.rx = Append(@, i)]
    OBVIOUS
  <2>2. tcp.rx \in Seq(ConnIds) /\ Only(i, tcp.rx)
    BY <1>2, <1>3, <1>4 DEF TcpSockets, Talks
  <2>3. /\ Append(tcp.rx, i) \in Seq(ConnIds) /\ Len(Append(tcp.rx, i)) = Len(tcp.rx) + 1
        /\ Only(i, Append(tcp.rx, i))
    BY <2>2, AppendFacts
  <2>4. t \in TcpSockets /\ t.st = "Est" /\ t.port = tcp.port /\ t.rx = Append(tcp.rx, i)
    BY <1>3, <1>10, <2>1, <2>3 DEF TcpSockets
  <2>5. PICK l : l = [k EXCEPT !.left = @ - 1]
    OBVIOUS
  <2>6. l \in Conn /\ l.left = k.left - 1 /\ l.resp = k.resp /\ l.port = k.port
    BY <1>10, <2>5 DEF Conn
  <2>7. Talks(ncall, t, l)
    <3>1. t.port = ncall.id /\ l.resp \in Responses /\ Only(ncall.id, t.rx) /\ Only(ncall.id, ncall.rx)
      BY <1>2, <1>4, <1>5, <2>3, <2>4, <2>6 DEF Talks
    <3>2. ASSUME ncall.pc = "http"
          PROVE  /\ l.left + Len(t.rx) <= HEAD + l.resp.body
                 /\ Len(ncall.rx) = AtMost(HEAD + l.resp.body - l.left - Len(t.rx), BODY_CAP + SLACK)
      <4>1. /\ k.left + Len(tcp.rx) <= HEAD + k.resp.body
            /\ Len(ncall.rx) = AtMost(HEAD + k.resp.body - k.left - Len(tcp.rx), BODY_CAP + SLACK)
        BY <1>2, <1>4, <1>5, <3>2 DEF Talks
      <4>2. k.left \in Nat /\ Len(tcp.rx) \in Nat /\ k.resp.body \in Nat /\ HEAD \in Nat
        BY <2>2, <3>1, <2>6, NetworkConstants DEF Conn, HEAD
      <4>3. l.left = k.left - 1 /\ Len(t.rx) = Len(tcp.rx) + 1 /\ l.resp.body = k.resp.body
        BY <2>3, <2>4, <2>6
      <4>4. /\ l.left + Len(t.rx) = k.left + Len(tcp.rx)
            /\ HEAD + l.resp.body - l.left - Len(t.rx) = HEAD + k.resp.body - k.left - Len(tcp.rx)
        <5>1. \A a, b, d, h \in Nat : (a - 1) + (b + 1) = a + b /\ h + d - (a - 1) - (b + 1) = h + d - a - b
          OBVIOUS
        <5>2. PICK a \in Nat, b \in Nat, d \in Nat, h \in Nat :
                  a = k.left /\ b = Len(tcp.rx) /\ d = k.resp.body /\ h = HEAD
          BY <4>2
        <5>3. l.left = a - 1 /\ Len(t.rx) = b + 1 /\ l.resp.body = d
          BY <4>3, <5>2
        <5>4. (a - 1) + (b + 1) = a + b /\ h + d - (a - 1) - (b + 1) = h + d - a - b
          BY <5>1
        <5> QED  BY <5>2, <5>3, <5>4, Zenon
      <4> QED  BY <4>1, <4>3, <4>4
    <3>3. (ncall.pc = "http" => ncall.scheme = "http") /\ (ncall.pc = "tls" => ncall.scheme = "https")
      BY <1>2 DEF Talks
    <3> QED  BY <2>4, <3>1, <3>2, <3>3 DEF Talks
  <2>8. PICK g : g = [f EXCEPT ![i] = l]
    OBVIOUS
  <2>9. g \in [ConnIds -> Conn] /\ g[i] = l /\ \A j \in ConnIds : g[j].port = f[j].port
    BY <1>5, <1>6, <2>6, <2>8
  <2>10. conns'.of = g /\ conns'.next = conns.next /\ conns' \in [next : ConnIds, of : [ConnIds -> Conn]]
    <3>1. conns \in [next : ConnIds, of : [ConnIds -> Conn]]
      BY DEF GetInv
    <3>2. conns' = [conns EXCEPT !.of = g]
      BY <1>5, <1>6, <1>10, <2>5, <2>8, <3>1
    <3> QED  BY <2>9, <3>1, <3>2
  <2>11. GetOK(ncall, t, conns.next, g)
    BY <1>1, <1>4, <2>7, <2>9 DEF GetOK
  <2>12. GetOK(ncall', tcp', conns'.next, conns'.of)
    BY <1>1, <1>10, <2>1, <2>10, <2>11, Zenon
  <2>13. GetIsRight'
    BY <1>1, ReturnRight DEF GetInv
  <2>14. next_port' = conns'.next /\ \A j \in ConnIds : conns'.of[j].port \in {j, -1}
    BY <1>1, <1>6, <2>9, <2>10 DEF GetInv
  <2> QED  BY <1>1, <1>2, <1>10, <2>1, <2>4, <2>10, <2>12, <2>13, <2>14 DEF GetInv
<1> QED  BY <1>8, <1>9, <1>10

\* What has been received when a loop has read the socket.
LEMMA Received ==
    ASSUME GetInv, ncall.pc \in {"http", "tls"}
    PROVE  LET rx == Take(ncall.rx \o tcp.rx, BODY_CAP + SLACK)
               k  == conns.of[ncall.id]
           IN  /\ rx \in Seq(ConnIds) /\ Only(ncall.id, rx)
               /\ k.resp \in Responses /\ k.left \in Nat
               /\ ncall.pc = "http" =>
                    k.left <= HEAD + k.resp.body /\ Len(rx) = AtMost(HEAD + k.resp.body - k.left, BODY_CAP + SLACK)
<1>1. ncall \in GetCalls /\ Talks(ncall, tcp, conns.of[ncall.id])
  BY CallKinds
<1>2. ncall.rx \in Seq(ConnIds) /\ ncall.id \in ConnIds
  BY <1>1 DEF GetCalls, Calls
<1>3. PICK k \in Conn : k = conns.of[ncall.id]
  BY <1>2 DEF GetInv
<1>4. tcp.rx \in Seq(ConnIds)
  BY DEF GetInv, TcpSockets
<1>5. Only(ncall.id, tcp.rx) /\ Only(ncall.id, ncall.rx)
  BY <1>1 DEF Talks
<1>6. PICK j : j = ncall.rx \o tcp.rx
  OBVIOUS
<1>7. j \in Seq(ConnIds) /\ Len(j) = Len(ncall.rx) + Len(tcp.rx) /\ Only(ncall.id, j)
  BY <1>2, <1>4, <1>5, <1>6, JoinFacts
<1>8. BODY_CAP + SLACK \in Nat
  BY NetworkConstants
<1>9. PICK rx : rx = Take(j, BODY_CAP + SLACK)
  OBVIOUS
<1>10. rx \in Seq(ConnIds) /\ Only(ncall.id, rx) /\ Len(rx) = AtMost(Len(j), BODY_CAP + SLACK)
  BY <1>7, <1>8, <1>9, TakeFacts
<1>11. k.resp \in Responses /\ k.left \in Nat /\ k.resp.body \in Nat
  BY <1>1, <1>3, NetworkConstants DEF Talks, Conn
<1>12. ASSUME ncall.pc = "http"
       PROVE  k.left <= HEAD + k.resp.body /\ Len(rx) = AtMost(HEAD + k.resp.body - k.left, BODY_CAP + SLACK)
  <2>1. /\ k.left + Len(tcp.rx) <= HEAD + k.resp.body
        /\ Len(ncall.rx) = AtMost(HEAD + k.resp.body - k.left - Len(tcp.rx), BODY_CAP + SLACK)
    BY <1>1, <1>3, <1>12 DEF Talks
  <2>2. HEAD + k.resp.body \in Nat /\ Len(tcp.rx) \in Nat
    BY <1>4, <1>11 DEF HEAD
  <2>3. PICK a \in Nat, b \in Nat, d \in Nat, cap \in Nat :
            a = k.left /\ b = Len(tcp.rx) /\ d = HEAD + k.resp.body /\ cap = BODY_CAP + SLACK
    BY <1>8, <1>11, <2>2
  <2>4. a + b <= d
    BY <2>1, <2>3
  <2>9. HEAD + k.resp.body - k.left - Len(tcp.rx) = d - a - b
    <3>1. PICK v \in Nat : v = k.resp.body
      BY <1>11
    <3>2. HEAD = 1 /\ d = 1 + v
      BY <2>3, <3>1 DEF HEAD
    <3>3. 1 + v - a - b = d - a - b
      BY <3>2
    <3> QED  BY <2>3, <3>1, <3>2, <3>3, Zenon
  <2>5. Len(ncall.rx) = AtMost(d - a - b, cap)
    BY <2>1, <2>3, <2>9
  <2>6. Len(j) = AtMost(d - a - b, cap) + b /\ Len(rx) = AtMost(Len(j), cap)
    BY <1>7, <1>10, <2>3, <2>5
  <2>7. Len(rx) = AtMost(d - a, cap)
    <3>1. CASE d - a - b < cap
      BY <2>4, <2>6, <3>1 DEF AtMost
    <3>2. CASE ~(d - a - b < cap)
      BY <2>4, <2>6, <3>2 DEF AtMost
    <3> QED  BY <3>1, <3>2
  <2>8. k.left <= HEAD + k.resp.body
    BY <2>3, <2>4
  <2> QED  BY <1>8, <1>11, <2>2, <2>3, <2>7, <2>8 DEF AtMost, HEAD
<1> QED  BY <1>3, <1>6, <1>9, <1>10, <1>11, <1>12

\* A body that is returned: of this call's server, and as long as it should be.
LEMMA GotRight ==
    ASSUME GetInv, ncall.pc \in {"http", "tls"}, NEW rx \in Seq(ConnIds), Only(ncall.id, rx), Len(rx) >= HEAD,
           NEW n \in Nat, n <= BODY_CAP, NEW closed,
           abort_tcp, GotBody(Take(Body(rx), n), closed), conns' = conns, next_port' = next_port,
           LET r == conns.of[ncall.id].resp
               m == AtMost(Len(rx) - HEAD, n)
           IN  /\ r.length # NoLength => m <= r.length
               /\ ncall.scheme = "http" /\ r.length # NoLength => m = Want(r.length)
               /\ ncall.scheme = "http" /\ r.length = NoLength /\ closed => m = Want(r.body)
    PROVE  GetInv'
<1>1. PICK b : b = Take(Body(rx), n)
  OBVIOUS
<1>2. Body(rx) \in Seq(ConnIds) /\ Len(Body(rx)) = Len(rx) - HEAD /\ Only(ncall.id, Body(rx))
  BY BodyFacts
<1>3. b \in Seq(ConnIds) /\ Len(b) = AtMost(Len(rx) - HEAD, n) /\ Only(ncall.id, b)
  BY <1>1, <1>2, TakeFacts
<1>4. Len(b) <= BODY_CAP
  <2>1. Len(rx) - HEAD \in Nat /\ BODY_CAP \in Nat
    BY NetworkConstants DEF HEAD
  <2> QED  BY <1>3, <2>1 DEF AtMost
<1>5. ncall' = NoCall
      /\ nret' = [ok |-> TRUE, op |-> "get", scheme |-> ncall.scheme, id |-> ncall.id, body |-> b,
                  resp |-> conns.of[ncall.id].resp, closed |-> closed]
  BY <1>1 DEF GotBody, NetReturn, ServerOf
<1>6. /\ nret'.body = b /\ nret'.id = ncall.id /\ nret'.scheme = ncall.scheme
      /\ nret'.resp = conns.of[ncall.id].resp /\ nret'.closed = closed
  BY <1>5
<1>7. GetIsRight'
  <2>1. \A i \in DOMAIN nret'.body : nret'.body[i] = nret'.id
    BY <1>3, <1>6 DEF Only
  <2>2. Len(nret'.body) <= BODY_CAP
    BY <1>4, <1>6
  <2>3. /\ nret'.resp.length # NoLength => Len(nret'.body) <= nret'.resp.length
        /\ nret'.scheme = "http" /\ nret'.resp.length # NoLength => Len(nret'.body) = Want(nret'.resp.length)
        /\ nret'.scheme = "http" /\ nret'.resp.length = NoLength /\ nret'.closed =>
               Len(nret'.body) = Want(nret'.resp.body)
    BY <1>3, <1>6
  <2> QED  BY <2>1, <2>2, <2>3 DEF GetIsRight
<1>8. tcp' \in TcpSockets
  BY AbortFacts
<1> QED  BY <1>5, <1>7, <1>8, GetOver

\* One turn of the loop of http_get.
LEMMA HttpGet ==
    ASSUME GetInv, http_step
    PROVE  GetInv'
<1>1. ncall.pc = "http" /\ conns' = conns /\ next_port' = next_port
  BY DEF http_step
<1>2. ncall \in GetCalls /\ Talks(ncall, tcp, conns.of[ncall.id])
  BY <1>1, CallKinds
<1>3. tcp \in TcpSockets /\ ncall.scheme = "http" /\ ncall.sent \in BOOLEAN
  BY <1>1, <1>2 DEF GetInv, Talks, GetCalls, Calls
<1>4. PICK k : k = conns.of[ncall.id]
  OBVIOUS
<1>5. PICK rx : rx = Take(ncall.rx \o tcp.rx, BODY_CAP + SLACK)
  OBVIOUS
<1>6. /\ rx \in Seq(ConnIds) /\ Only(ncall.id, rx)
      /\ k.resp \in Responses /\ k.left \in Nat /\ k.left <= HEAD + k.resp.body
      /\ Len(rx) = AtMost(HEAD + k.resp.body - k.left, BODY_CAP + SLACK)
  BY <1>1, <1>4, <1>5, Received
<1>7. k.resp.body \in Nat /\ k.resp.length \in Nat \cup {NoLength} /\ BODY_CAP \in Nat
  BY <1>6, NetworkConstants
<1>8. PICK sent \in BOOLEAN : sent = (ncall.sent \/ may_send)
  BY <1>3
<1>9. PICK done \in BOOLEAN : done = ((sent \/ ~is_open) /\ ~may_recv(<<>>))
  OBVIOUS
<1>10. \/ abort_tcp /\ Fails("Failed")
       \/ /\ Len(rx) >= HEAD /\ k.resp.length # NoLength /\ Len(Body(rx)) >= Want(k.resp.length)
          /\ abort_tcp /\ GotBody(Take(Body(rx), Want(k.resp.length)), done)
       \/ /\ Len(rx) >= HEAD /\ k.resp.length = NoLength /\ done
          /\ abort_tcp /\ GotBody(Take(Body(rx), BODY_CAP), is_open)
       \/ /\ ncall' = [ncall EXCEPT !.sent = sent, !.rx = rx]
          /\ tcp' = [tcp EXCEPT !.rx = <<>>] /\ nret' = nret
  <2> DEFINE s  == ncall.sent \/ may_send
             rd == (s \/ ~is_open) /\ ~may_recv(<<>>)
             x  == Take(ncall.rx \o tcp.rx, BODY_CAP + SLACK)
             ln == conns.of[ncall.id].resp.length
  <2>1. \/ abort_tcp /\ Fails("Failed")
        \/ /\ Len(x) >= HEAD /\ ln # NoLength /\ Len(Body(x)) >= Want(ln)
           /\ abort_tcp /\ GotBody(Take(Body(x), Want(ln)), rd)
        \/ /\ Len(x) >= HEAD /\ ln = NoLength /\ rd
           /\ abort_tcp /\ GotBody(Take(Body(x), BODY_CAP), ~~is_open)
        \/ /\ ncall' = [ncall EXCEPT !.sent = s, !.rx = x]
           /\ tcp' = [tcp EXCEPT !.rx = <<>>] /\ nret' = nret
    BY DEF http_step, ServerOf
  <2>2. x = rx /\ ln = k.resp.length
    BY <1>4, <1>5
  <2>3. s = sent
    BY <1>8
  <2>4. rd = done
    BY <1>9, <2>3
  <2>5. (~~is_open) = is_open
    BY DEF is_open
  <2> HIDE DEF s, rd, x, ln
  <2> QED  BY <2>1, <2>2, <2>3, <2>4, <2>5, Zenon
<1>11. CASE abort_tcp /\ Fails("Failed")
  <2>1. ncall' = NoCall /\ nret'.ok = FALSE
    BY <1>11 DEF Fails, NetReturn
  <2> QED  BY <1>1, <1>11, <2>1, EndGet
<1>12. CASE /\ Len(rx) >= HEAD /\ k.resp.length # NoLength /\ Len(Body(rx)) >= Want(k.resp.length)
            /\ abort_tcp /\ GotBody(Take(Body(rx), Want(k.resp.length)), done)
  <2>1. PICK n : n = Want(k.resp.length)
    OBVIOUS
  <2>2. n \in Nat /\ n <= BODY_CAP /\ n <= k.resp.length
    BY <1>7, <1>12, <2>1 DEF Want
  <2>3. Len(Body(rx)) = Len(rx) - HEAD
    BY <1>6, <1>12, BodyFacts
  <2>4. AtMost(Len(rx) - HEAD, n) = n
    <3>1. Len(rx) - HEAD >= n /\ Len(rx) - HEAD \in Int
      BY <1>6, <1>12, <2>1, <2>3 DEF HEAD
    <3> QED  BY <2>2, <3>1 DEF AtMost
  <2>5. /\ k.resp.length # NoLength => AtMost(Len(rx) - HEAD, n) <= k.resp.length
        /\ ncall.scheme = "http" /\ k.resp.length # NoLength => AtMost(Len(rx) - HEAD, n) = Want(k.resp.length)
        /\ ncall.scheme = "http" /\ k.resp.length = NoLength /\ done =>
               AtMost(Len(rx) - HEAD, n) = Want(k.resp.body)
    BY <1>12, <2>1, <2>2, <2>4
  <2>6. GotBody(Take(Body(rx), n), done)
    BY <1>12, <2>1
  <2> QED  BY <1>1, <1>4, <1>6, <1>12, <2>2, <2>5, <2>6, GotRight
<1>13. CASE /\ Len(rx) >= HEAD /\ k.resp.length = NoLength /\ done
            /\ abort_tcp /\ GotBody(Take(Body(rx), BODY_CAP), is_open)
  <2>1. ASSUME is_open
        PROVE  AtMost(Len(rx) - HEAD, BODY_CAP) = Want(k.resp.body)
    <3>1. tcp.st = "CloseWait"
      <4>1. tcp.st \in {"SynSent", "CloseWait"}
        BY <1>3, <1>9, <1>13, <2>1 DEF is_open, may_recv, TcpSockets
      <4>2. tcp.st # "SynSent"
        BY <1>1, <1>2, <1>8, <1>9, <1>13, <2>1 DEF Talks, may_send, is_open
      <4> QED  BY <4>1, <4>2
    <3>2. k.left = 0
      BY <1>2, <1>4, <3>1 DEF Talks
    <3>3. Len(rx) = AtMost(HEAD + k.resp.body, BODY_CAP + SLACK)
      BY <1>6, <1>7, <3>2 DEF AtMost, HEAD
    <3>4. SLACK \in Nat /\ SLACK >= 1
      BY NetworkConstants DEF HEAD
    <3> QED  BY <1>7, <3>3, <3>4 DEF AtMost, Want, HEAD
  <2>2. PICK closed \in BOOLEAN : closed = is_open
    BY DEF is_open
  <2>3. /\ k.resp.length # NoLength => AtMost(Len(rx) - HEAD, BODY_CAP) <= k.resp.length
        /\ ncall.scheme = "http" /\ k.resp.length # NoLength =>
               AtMost(Len(rx) - HEAD, BODY_CAP) = Want(k.resp.length)
        /\ ncall.scheme = "http" /\ k.resp.length = NoLength /\ closed =>
               AtMost(Len(rx) - HEAD, BODY_CAP) = Want(k.resp.body)
    BY <1>3, <1>13, <2>1, <2>2
  <2>4. GotBody(Take(Body(rx), BODY_CAP), closed) /\ BODY_CAP <= BODY_CAP
    BY <1>7, <1>13, <2>2
  <2> QED  BY <1>1, <1>4, <1>6, <1>7, <1>13, <2>3, <2>4, GotRight
<1>14. CASE /\ ncall' = [ncall EXCEPT !.sent = sent, !.rx = rx]
            /\ tcp' = [tcp EXCEPT !.rx = <<>>] /\ nret' = nret
  <2>1. PICK c : c = [ncall EXCEPT !.sent = sent, !.rx = rx]
    OBVIOUS
  <2>2. /\ c \in GetCalls /\ c.sent = sent /\ c.rx = rx /\ c.pc = "http"
        /\ c.scheme = "http" /\ c.id = ncall.id
    BY <1>1, <1>2, <1>3, <1>6, <2>1 DEF GetCalls, Calls
  <2>3. PICK t : t = [tcp EXCEPT !.rx = <<>>]
    OBVIOUS
  <2>4. t \in TcpSockets /\ t.st = tcp.st /\ t.port = tcp.port /\ t.rx = <<>>
    <3>1. <<>> \in Seq(ConnIds)
      OBVIOUS
    <3> QED  BY <1>3, <2>3, <3>1 DEF TcpSockets
  <2>5. Talks(c, t, k)
    <3>1. Only(c.id, t.rx) /\ Only(c.id, c.rx) /\ Len(t.rx) = 0
      BY <1>6, <2>2, <2>4 DEF Only
    <3>2. t.port = c.id /\ k.resp \in Responses /\ (t.st = "CloseWait" => k.left = 0)
      BY <1>2, <1>4, <1>6, <2>2, <2>4 DEF Talks
    <3>3. t.st = "SynSent" => ~c.sent
      BY <1>1, <1>2, <1>8, <2>2, <2>4 DEF Talks, may_send
    <3>4. /\ k.left + Len(t.rx) <= HEAD + k.resp.body
          /\ Len(c.rx) = AtMost(HEAD + k.resp.body - k.left - Len(t.rx), BODY_CAP + SLACK)
      BY <1>6, <1>7, <2>2, <3>1 DEF AtMost, HEAD
    <3> QED  BY <2>2, <3>1, <3>2, <3>3, <3>4 DEF Talks
  <2>6. GetOK(c, t, conns.next, conns.of)
    BY <1>4, <2>2, <2>5 DEF GetOK
  <2>7. ncall' = c /\ tcp' = t
    BY <1>14, <2>1, <2>3
  <2> QED  BY <1>1, <1>14, <2>2, <2>4, <2>6, <2>7, GetOn
<1> QED  BY <1>10, <1>11, <1>12, <1>13, <1>14

\* One turn of the loop of tls_get.
LEMMA TlsGet ==
    ASSUME GetInv, tls_step
    PROVE  GetInv'
<1>1. ncall.pc = "tls" /\ conns' = conns /\ next_port' = next_port
  BY DEF tls_step
<1>2. ncall \in GetCalls /\ Talks(ncall, tcp, conns.of[ncall.id])
  BY <1>1, CallKinds
<1>3. tcp \in TcpSockets
  BY DEF GetInv
<1>4. PICK k : k = conns.of[ncall.id]
  OBVIOUS
<1>5. PICK rx : rx = Take(ncall.rx \o tcp.rx, BODY_CAP + SLACK)
  OBVIOUS
<1>6. rx \in Seq(ConnIds) /\ Only(ncall.id, rx) /\ k.resp \in Responses
  BY <1>1, <1>4, <1>5, Received
<1>7. k.resp.body \in Nat /\ k.resp.length \in Nat \cup {NoLength} /\ BODY_CAP \in Nat
  BY <1>6, NetworkConstants
<1>8. ASSUME NEW n \in Nat, n <= BODY_CAP, k.resp.length # NoLength => n <= k.resp.length,
             NEW closed, Len(rx) >= HEAD, abort_tcp, GotBody(Take(Body(rx), n), closed),
             ncall.scheme = "https"
      PROVE  GetInv'
  <2>1. k.resp.length # NoLength => AtMost(Len(rx) - HEAD, n) <= k.resp.length
    <3>1. Len(rx) - HEAD \in Nat
      BY <1>6, <1>8 DEF HEAD
    <3> QED  BY <1>7, <1>8, <3>1 DEF AtMost
  <2>2. /\ ncall.scheme = "http" /\ k.resp.length # NoLength => AtMost(Len(rx) - HEAD, n) = Want(k.resp.length)
        /\ ncall.scheme = "http" /\ k.resp.length = NoLength /\ closed =>
               AtMost(Len(rx) - HEAD, n) = Want(k.resp.body)
    BY <1>8
  <2> QED  BY <1>1, <1>4, <1>6, <1>8, <2>1, <2>2, GotRight
<1>9. ASSUME NEW c \in GetCalls, c.pc = "tls", c.id = ncall.id, c.scheme = ncall.scheme,
             c.rx = ncall.rx \/ c.rx = rx,
             ncall' = c, tcp' = [tcp EXCEPT !.rx = <<>>], nret' = nret
      PROVE  GetInv'
  <2>1. PICK t : t = [tcp EXCEPT !.rx = <<>>]
    OBVIOUS
  <2>2. t \in TcpSockets /\ t.st = tcp.st /\ t.port = tcp.port /\ t.rx = <<>>
    <3>1. <<>> \in Seq(ConnIds)
      OBVIOUS
    <3> QED  BY <1>3, <2>1, <3>1 DEF TcpSockets
  <2>3. Talks(c, t, k)
    <3>1. Only(c.id, t.rx)
      BY <2>2 DEF Only
    <3>2. Only(c.id, c.rx)
      BY <1>2, <1>6, <1>9 DEF Talks
    <3> QED  BY <1>1, <1>2, <1>4, <1>9, <2>2, <3>1, <3>2 DEF Talks
  <2>4. GetOK(c, t, conns.next, conns.of)
    BY <1>4, <1>9, <2>3 DEF GetOK
  <2> QED  BY <1>1, <1>9, <2>1, <2>2, <2>4, GetOn
<1>10. \/ abort_tcp /\ (Fails("Failed") \/ Fails("Https"))
       \/ ncall' = ncall /\ tcp' = tcp /\ nret' = nret
       \/ /\ tcp' = [tcp EXCEPT !.rx = <<>>] /\ nret' = nret
          /\ \/ ncall' = [ncall EXCEPT !.out = TRUE, !.tls = "wait"]
             \/ ncall' = [ncall EXCEPT !.out = FALSE]
             \/ ncall' = [ncall EXCEPT !.out = TRUE, !.tls = "ready"]
             \/ ncall' = [ncall EXCEPT !.out = TRUE, !.tls = "traffic"]
             \/ ncall' = [ncall EXCEPT !.out = FALSE, !.rx = rx]
       \/ /\ Len(rx) >= HEAD /\ k.resp.length # NoLength
          /\ abort_tcp /\ GotBody(Take(Body(rx), Want(k.resp.length)), FALSE)
       \/ /\ Len(rx) >= HEAD /\ abort_tcp
          /\ GotBody(Take(Body(rx), IF k.resp.length = NoLength THEN BODY_CAP ELSE Want(k.resp.length)), TRUE)
  <2> DEFINE x  == Take(ncall.rx \o tcp.rx, BODY_CAP + SLACK)
             ln == conns.of[ncall.id].resp.length
  <2>1. \/ abort_tcp /\ (Fails("Failed") \/ Fails("Https"))
        \/ ncall' = ncall /\ tcp' = tcp /\ nret' = nret
        \/ /\ tcp' = [tcp EXCEPT !.rx = <<>>] /\ nret' = nret
           /\ \/ ncall' = [ncall EXCEPT !.out = TRUE, !.tls = "wait"]
              \/ ncall' = [ncall EXCEPT !.out = FALSE]
              \/ ncall' = [ncall EXCEPT !.out = TRUE, !.tls = "ready"]
              \/ ncall' = [ncall EXCEPT !.out = TRUE, !.tls = "traffic"]
              \/ ncall' = [ncall EXCEPT !.out = FALSE, !.rx = x]
        \/ /\ Len(x) >= HEAD /\ ln # NoLength
           /\ abort_tcp /\ GotBody(Take(Body(x), Want(ln)), FALSE)
        \/ /\ Len(x) >= HEAD /\ abort_tcp
           /\ GotBody(Take(Body(x), IF ln = NoLength THEN BODY_CAP ELSE Want(ln)), TRUE)
    BY DEF tls_step, ServerOf
  <2>2. x = rx /\ ln = k.resp.length
    BY <1>4, <1>5
  <2> HIDE DEF x, ln
  <2> QED  BY <2>1, <2>2, Zenon
<1>11. CASE abort_tcp /\ (Fails("Failed") \/ Fails("Https"))
  <2>1. ncall' = NoCall /\ nret'.ok = FALSE
    BY <1>11 DEF Fails, NetReturn
  <2> QED  BY <1>1, <1>11, <2>1, EndGet
<1>12. CASE ncall' = ncall /\ tcp' = tcp /\ nret' = nret
  BY <1>1, <1>12, GetSame
<1>13. CASE /\ tcp' = [tcp EXCEPT !.rx = <<>>] /\ nret' = nret
            /\ \/ ncall' = [ncall EXCEPT !.out = TRUE, !.tls = "wait"]
               \/ ncall' = [ncall EXCEPT !.out = FALSE]
               \/ ncall' = [ncall EXCEPT !.out = TRUE, !.tls = "ready"]
               \/ ncall' = [ncall EXCEPT !.out = TRUE, !.tls = "traffic"]
               \/ ncall' = [ncall EXCEPT !.out = FALSE, !.rx = rx]
  <2>1. ASSUME NEW o \in BOOLEAN, NEW tl \in {"hello", "wait", "ready", "traffic"},
               NEW c, c = [ncall EXCEPT !.out = o, !.tls = tl] \/ c = [ncall EXCEPT !.out = o]
        PROVE  c \in GetCalls /\ c.pc = "tls" /\ c.id = ncall.id /\ c.scheme = ncall.scheme /\ c.rx = ncall.rx
    BY <1>1, <1>2, <2>1 DEF GetCalls, Calls
  <2>2. ASSUME NEW c, c = [ncall EXCEPT !.out = FALSE, !.rx = rx]
        PROVE  c \in GetCalls /\ c.pc = "tls" /\ c.id = ncall.id /\ c.scheme = ncall.scheme /\ c.rx = rx
    BY <1>1, <1>2, <1>6, <2>2 DEF GetCalls, Calls
  <2>3. PICK c : c = ncall'
    OBVIOUS
  <2>4. /\ c \in GetCalls /\ c.pc = "tls" /\ c.id = ncall.id /\ c.scheme = ncall.scheme
        /\ (c.rx = ncall.rx \/ c.rx = rx)
    BY <1>13, <2>1, <2>2, <2>3
  <2> QED  BY <1>9, <1>13, <2>3, <2>4
<1>14. ncall.scheme = "https"
  BY <1>1, <1>2 DEF Talks
<1>15. CASE /\ Len(rx) >= HEAD /\ k.resp.length # NoLength
            /\ abort_tcp /\ GotBody(Take(Body(rx), Want(k.resp.length)), FALSE)
  <2>1. PICK n \in Nat : n = Want(k.resp.length) /\ n <= BODY_CAP /\ n <= k.resp.length
    BY <1>7, <1>15 DEF Want
  <2> QED  BY <1>8, <1>14, <1>15, <2>1
<1>16. CASE /\ Len(rx) >= HEAD /\ abort_tcp
            /\ GotBody(Take(Body(rx), IF k.resp.length = NoLength THEN BODY_CAP ELSE Want(k.resp.length)), TRUE)
  <2>1. PICK n \in Nat : /\ n = IF k.resp.length = NoLength THEN BODY_CAP ELSE Want(k.resp.length)
                         /\ n <= BODY_CAP /\ (k.resp.length # NoLength => n <= k.resp.length)
    BY <1>7 DEF Want
  <2> QED  BY <1>8, <1>14, <1>16, <2>1
<1> QED  BY <1>10, <1>11, <1>12, <1>13, <1>15, <1>16

\* A body that get returns is of the server it asked, whatever earlier servers still
\* send, is no longer than the buffer and the length the head gives, and over plain HTTP
\* is the whole of it (http_get, tls_get), for any buffer, any number of local ports and
\* any responses.
THEOREM GetReturnsRight == NetSpec => []GetIsRight
<1>1. NetInit => GetInv
  <2> SUFFICES ASSUME NetInit
               PROVE  GetInv
    OBVIOUS
  <2>1. 0 \in ConnIds /\ NoConn \in Conn /\ NoConn.port = -1 /\ <<>> \in Seq(ConnIds)
    BY NetworkConstants DEF ConnIds, Conn, NoConn
  <2>2. /\ conns = [next |-> 0, of |-> [i \in ConnIds |-> NoConn]] /\ next_port = 0
        /\ tcp = [st |-> "Closed", port |-> 0, rx |-> <<>>] /\ ncall = NoCall
        /\ nret = [ok |-> FALSE, err |-> "none"]
    BY DEF NetInit, ConnIds
  <2>3. tcp \in TcpSockets
    BY <2>1, <2>2 DEF TcpSockets
  <2>4. GetIsRight
    BY <2>2 DEF GetIsRight
  <2> QED  BY <2>1, <2>2, <2>3, <2>4 DEF GetInv
<1>2. ASSUME GetInv, [NetNext]_netVars
      PROVE  GetInv'
  <2>1. CASE UNCHANGED netVars
    BY <1>2, <2>1, GetSame DEF netVars
  <2>2. ASSUME NEW i \in 0 .. LOCAL_PORTS - 1, TcpSegment(i)
        PROVE  GetInv'
    BY <1>2, <2>2, SegmentGet DEF ConnIds
  <2>3. CASE http_step \/ tls_step
    BY <1>2, <2>3, HttpGet, TlsGet
  <2>4. CASE ensure_lease \/ apply_static
    BY <1>2, <2>4, LeaseGet
  <2>5. CASE \/ BadArgs \/ on_poll \/ DnsAnswer \/ dns_resolve \/ resolve_result \/ DnsTimeout
             \/ take_echo_reply \/ EchoTimeout \/ GetTimeout \/ Killed
    BY <1>2, <2>5, OtherSteps
  <2>6. ASSUME NEW host \in HostNames \cup {"lit"},
               \/ Begin("ping", host, "none", 0)
               \/ \E s \in {"http", "https"} : Begin("get", host, s, conns.next)
        PROVE  GetInv'
    BY <1>2, <2>6, BeginGet
  <2> QED  BY <1>2, <2>1, <2>2, <2>3, <2>4, <2>5, <2>6 DEF NetNext, Timeout, LoopStep
<1>3. GetInv => GetIsRight
  BY DEF GetInv
<1> QED  BY <1>1, <1>2, <1>3, PTL DEF NetSpec

-----------------------------------------------------------------------------
(* XhciEnum: the table of devices.                                         *)

Kinds == {"none", "unknown", "msc", "hid", "hub"}
EnOK(e) ==
    /\ {"pc", "round", "port", "progress", "hub", "child", "slot"} \subseteq DOMAIN e
    /\ e.pc \in {"off", "scan", "enable", "address", "classify", "eval", "disable", "release", "done"}
    /\ e.port \in Nat \ {0} /\ e.hub \in 0 .. MAX_SLOTS /\ e.child \in Nat /\ e.slot \in 0 .. MAX_SLOTS
EnumTypeOK ==
    /\ EnOK(en)
    /\ slots \in [1 .. MAX_SLOTS -> [kind : Kinds, loc : Nat \X Nat, parent : 0 .. MAX_SLOTS]]
    /\ tried \subseteq Nat /\ hwSlots \subseteq 1 .. MAX_SLOTS

\* The driver has one command out at most: the one its place in the code waits for, at
\* the controller or answered.  A slot that enable_slot got is new to the table.
AwaitedCmd ==
    [cmd  |-> IF en.pc = "release" THEN "disable" ELSE en.pc,
     slot |-> IF en.pc = "enable" THEN 0 ELSE en.slot]
CmdInv ==
    IF en.pc \in {"enable", "address", "eval", "disable", "release"}
    THEN \/ evq = <<>> /\ pend = <<AwaitedCmd>>
         \/ /\ pend = <<>> /\ evq = <<evq[1]>>
            /\ en.pc = "enable" /\ evq[1].code = "ok" /\ evq[1].slot # 0 =>
                  evq[1].slot \in hwSlots /\ slots[evq[1].slot] = NoDev
    ELSE pend = <<>> /\ evq = <<>>

\* The place looked at and the slot of the device there.
PlaceInv ==
    /\ en.hub = 0 <=> en.child = 0
    /\ en.hub # 0 => slots[en.hub].kind = "hub" /\ en.port \in tried /\ en.pc \notin {"off", "eval", "release", "done"}
    /\ en.pc \in {"off", "scan", "enable"} => en.slot = 0
    /\ en.pc \in {"address", "classify", "eval", "disable"} =>
           /\ en.slot # 0
           /\ slots[en.slot] = [kind |-> "unknown", loc |-> Here, parent |-> en.hub]
    /\ en.pc = "release" => en.slot # 0 /\ slots[en.slot].kind = "msc"
    /\ en.pc \in {"enable", "address"} /\ en.hub = 0 => en.port \notin tried
    /\ en.pc \in {"classify", "eval", "disable"} => en.port \in tried

\* An entry is of a tried port, or of the one being addressed; of the port looked at there
\* are the hub, its earlier ports' devices and the device in en.slot.
EntryInv(s) ==
    slots[s] # NoDev =>
        /\ s \in hwSlots \/ (en.pc \in {"disable", "release"} /\ en.slot = s)
        /\ slots[s].loc[1] # 0
        /\ slots[s].loc[1] \in tried \/ (en.pc = "address" /\ en.hub = 0 /\ s = en.slot)
        /\ slots[s].parent # 0 => slots[slots[s].parent].kind = "hub"
        /\ slots[s].loc[1] = en.port /\ en.hub # 0 => s = en.slot \/ slots[s].loc[2] < en.child
        /\ slots[s].loc[1] = en.port /\ en.hub = 0 /\ en.pc \in {"classify", "eval", "disable"} => s = en.slot

OnePlace == \A s, t \in 1 .. MAX_SLOTS : slots[s] # NoDev /\ slots[t].loc = slots[s].loc => t = s

TableInv == EnumTypeOK /\ CmdInv /\ PlaceInv /\ (\A s \in 1 .. MAX_SLOTS : EntryInv(s)) /\ OnePlace
EnumInv == ~lateCmd => TableInv

\* Where the loops go next: the hub's next port, or a root port, or nowhere.
LEMMA NextPlaceFacts ==
    ASSUME EnumTypeOK, PlaceInv, en' = NextPlace(en)
    PROVE  /\ EnOK(en') /\ en'.pc \in {"scan", "done"} /\ en'.slot = 0
           /\ \/ /\ en.hub # 0 /\ en'.hub = en.hub /\ en'.port = en.port /\ en'.child = en.child + 1
                 /\ en'.pc = "scan"
              \/ en'.hub = 0 /\ en'.child = 0
<1>1. EnOK(en) /\ 0 \in 0 .. MAX_SLOTS
  BY EnumAssumption DEF EnumTypeOK
<1>2. CASE en.hub # 0 /\ en.child < MAX_HUB_PORTS
  <2>1. en' = [en EXCEPT !.pc = "scan", !.child = @ + 1, !.slot = 0]
    BY <1>2 DEF NextPlace
  <2> QED
    BY <1>1, <1>2, <2>1 DEF EnOK
<1>3. CASE ~(en.hub # 0 /\ en.child < MAX_HUB_PORTS)
  <2> PICK f : f = [en EXCEPT !.pc = "scan", !.hub = 0, !.child = 0, !.slot = 0]
    OBVIOUS
  <2>1. EnOK(f) /\ f.pc = "scan" /\ f.hub = 0 /\ f.child = 0 /\ f.slot = 0
    BY <1>1 DEF EnOK
  <2>2. en' \in {[f EXCEPT !.port = @ + 1], [f EXCEPT !.port = 1, !.round = @ + 1, !.progress = FALSE],
                 [f EXCEPT !.pc = "done"]}
    BY <1>3 DEF NextPlace
  <2>3. CASE en' = [f EXCEPT !.port = @ + 1]
    BY <2>1, <2>3 DEF EnOK
  <2>4. CASE en' = [f EXCEPT !.port = 1, !.round = @ + 1, !.progress = FALSE]
    BY <2>1, <2>4 DEF EnOK
  <2>5. CASE en' = [f EXCEPT !.pc = "done"]
    BY <2>1, <2>5 DEF EnOK
  <2> QED
    BY <2>2, <2>3, <2>4, <2>5
<1> QED
  BY <1>2, <1>3

\* The loops go on: no hub is gone, entries are where they were, and none of them waits
\* for an address or to be disabled.
LEMMA MoveOn ==
    ASSUME EnumTypeOK, PlaceInv, \A s \in 1 .. MAX_SLOTS : EntryInv(s), OnePlace,
           en' = NextPlace(en), pend' = <<>>, evq' = <<>>, hwSlots' = hwSlots,
           en.pc # "address", tried \subseteq tried', tried' \subseteq Nat,
           slots' \in [1 .. MAX_SLOTS -> [kind : Kinds, loc : Nat \X Nat, parent : 0 .. MAX_SLOTS]],
           \A s \in 1 .. MAX_SLOTS :
               /\ slots[s].kind = "hub" => slots'[s].kind = "hub"
               /\ slots'[s] # NoDev =>
                     /\ slots[s] # NoDev /\ slots'[s].loc = slots[s].loc
                     /\ slots'[s].parent = slots[s].parent
                     /\ s \in hwSlots,
           \A s \in 1 .. MAX_SLOTS : slots'[s] = NoDev \/ slots'[s].loc # NoDev.loc
    PROVE  TableInv'
<1>1. EnumTypeOK'
  BY NextPlaceFacts DEF EnumTypeOK
<1>2. CmdInv'
  BY NextPlaceFacts DEF CmdInv
<1>3. PlaceInv'
  <2>1. en'.pc \in {"scan", "done"} /\ en'.slot = 0 /\ en'.hub \in 0 .. MAX_SLOTS
    BY NextPlaceFacts DEF EnOK
  <2>2. CASE en'.hub = 0 /\ en'.child = 0
    BY <2>1, <2>2 DEF PlaceInv
  <2>3. CASE /\ en.hub # 0 /\ en'.hub = en.hub /\ en'.port = en.port /\ en'.child = en.child + 1
             /\ en'.pc = "scan"
    <3>1. slots'[en.hub].kind = "hub" /\ en.port \in tried
      BY <2>1, <2>3 DEF PlaceInv
    <3>2. en'.child # 0
      BY <2>3 DEF EnumTypeOK, EnOK
    <3> QED
      BY <2>1, <2>3, <3>1, <3>2 DEF PlaceInv
  <2> QED
    BY <2>2, <2>3, NextPlaceFacts
<1>4. ASSUME NEW s \in 1 .. MAX_SLOTS, slots'[s] # NoDev
      PROVE  EntryInv(s)'
  <2>1. slots[s] # NoDev /\ slots'[s].loc = slots[s].loc /\ slots'[s].parent = slots[s].parent /\ s \in hwSlots
    BY <1>4
  <2>2. slots[s].loc[1] \in Nat /\ slots[s].loc[2] \in Nat /\ slots[s].parent \in 0 .. MAX_SLOTS
    BY DEF EnumTypeOK
  <2>3. slots[s].loc[1] \in tried /\ slots[s].loc[1] # 0
    BY <2>1 DEF EntryInv
  <2>4. slots[s].parent # 0 => slots'[slots[s].parent].kind = "hub"
    BY <2>1, <2>2 DEF EntryInv
  <2>5. slots[s].loc[1] = en'.port /\ en'.hub # 0 => slots[s].loc[2] < en'.child
    <3> SUFFICES ASSUME slots[s].loc[1] = en'.port, en'.hub # 0 PROVE slots[s].loc[2] < en'.child
      OBVIOUS
    <3>1. en.hub # 0 /\ en'.port = en.port /\ en'.child = en.child + 1 /\ en.child \in Nat
      BY NextPlaceFacts DEF EnumTypeOK, EnOK
    <3>2. s = en.slot \/ slots[s].loc[2] < en.child
      BY <2>1, <3>1 DEF EntryInv
    <3>3. s = en.slot => slots[s].loc[2] = en.child
      BY <3>1 DEF PlaceInv, EnumTypeOK, EnOK, Here, Place
    <3> QED
      BY <3>1, <3>2, <3>3, <2>2
  <2> QED
    BY <2>1, <2>2, <2>3, <2>4, <2>5, NextPlaceFacts DEF EntryInv
<1>5. \A s \in 1 .. MAX_SLOTS : EntryInv(s)'
  BY <1>4 DEF EntryInv
<1>6. OnePlace'
  <2> SUFFICES ASSUME NEW s \in 1 .. MAX_SLOTS, NEW t \in 1 .. MAX_SLOTS,
                      slots'[s] # NoDev, slots'[t].loc = slots'[s].loc
               PROVE  t = s
    BY DEF OnePlace
  <2>1. slots'[t] # NoDev
    OBVIOUS
  <2> QED
    BY <2>1 DEF OnePlace
<1> QED
  BY <1>1, <1>2, <1>3, <1>5, <1>6 DEF TableInv


\* An answer that wait_cmd got is the only one, and no other command is out.
LEMMA AnswerFacts ==
    ASSUME TableInv, NEW ok, Answer(ok)
    PROVE  /\ en.pc \in {"enable", "address", "eval", "disable", "release"}
           /\ pend = <<>> /\ evq = <<evq[1]>> /\ Last(evq) = evq[1] /\ evq' = <<>> /\ lateCmd' = lateCmd
<1>1. evq # <<>> /\ evq' = <<>> /\ lateCmd' = lateCmd
  BY DEF Answer
<1>2. en.pc \in {"enable", "address", "eval", "disable", "release"} /\ pend = <<>> /\ evq = <<evq[1]>>
  BY <1>1 DEF TableInv, CmdInv
<1>3. Len(evq) = 1
  BY <1>2
<1>4. Last(evq) = evq[1]
  BY <1>3 DEF Last
<1> QED
  BY <1>1, <1>2, <1>4

\* Entries have a place.
LEMMA EntryPlace ==
    ASSUME TableInv, NEW s \in 1 .. MAX_SLOTS, slots[s] # NoDev
    PROVE  slots[s].loc # NoDev.loc
BY DEF TableInv, EntryInv, NoDev, Place

\* The loops go on with the table as it is.
LEMMA MoveOnSame ==
    ASSUME TableInv, en' = NextPlace(en), pend' = <<>>, evq' = <<>>, hwSlots' = hwSlots, slots' = slots,
           en.pc \in {"scan", "enable"}, tried' = tried \/ MarkTried
    PROVE  TableInv'
<1>1. tried \subseteq tried' /\ tried' \subseteq Nat
  BY DEF TableInv, EnumTypeOK, EnOK, MarkTried
<1>2. \A s \in 1 .. MAX_SLOTS : slots'[s] # NoDev => s \in hwSlots
  BY DEF TableInv, EntryInv
<1>3. \A s \in 1 .. MAX_SLOTS : slots'[s] = NoDev \/ slots'[s].loc # NoDev.loc
  BY EntryPlace
<1>4. slots' \in [1 .. MAX_SLOTS -> [kind : Kinds, loc : Nat \X Nat, parent : 0 .. MAX_SLOTS]]
  BY DEF TableInv, EnumTypeOK
<1> QED
  BY <1>1, <1>2, <1>3, <1>4, MoveOn DEF TableInv

\* The steps that look for a device at the next place.
LEMMA ScanSteps ==
    ASSUME TableInv, ~lateCmd', enumerate \/ SkipPort \/ ResetPort \/ EnableFails
    PROVE  TableInv'
<1> USE DEF TableInv
<1>1. CASE enumerate
  <2>1. en' = [en EXCEPT !.pc = "scan"] /\ en.pc = "off" /\ EnOK(en)
    BY <1>1 DEF enumerate, EnumTypeOK
  <2>2. /\ EnOK(en') /\ en'.pc = "scan" /\ en'.port = en.port /\ en'.hub = en.hub
        /\ en'.child = en.child /\ en'.slot = en.slot
    BY <2>1 DEF EnOK
  <2>3. UNCHANGED <<plug, slots, tried, pend, evq, hwSlots, lateCmd>>
    BY <1>1 DEF enumerate
  <2>4. EnumTypeOK' /\ CmdInv' /\ PlaceInv' /\ OnePlace'
    BY <2>1, <2>2, <2>3 DEF EnumTypeOK, CmdInv, PlaceInv, OnePlace
  <2>5. \A s \in 1 .. MAX_SLOTS : EntryInv(s)'
    BY <2>1, <2>2, <2>3 DEF EntryInv
  <2> QED
    BY <2>4, <2>5
<1>2. CASE SkipPort
  BY <1>2, MoveOnSame DEF SkipPort, CmdInv
<1>3. CASE ResetPort
  <2>1. en' = [en EXCEPT !.pc = "enable"] /\ en.pc = "scan" /\ EnOK(en)
    BY <1>3 DEF ResetPort, EnumTypeOK
  <2>2. /\ EnOK(en') /\ en'.pc = "enable" /\ en'.port = en.port /\ en'.hub = en.hub
        /\ en'.child = en.child /\ en'.slot = en.slot
    BY <2>1 DEF EnOK
  <2>3. UNCHANGED <<slots, tried, evq, hwSlots>> /\ (en.hub = 0 => en.port \notin tried)
    BY <1>3 DEF ResetPort
  <2>4. pend = <<>> /\ evq = <<>> /\ pend' = <<[cmd |-> "enable", slot |-> 0]>>
    BY <1>3 DEF ResetPort, CmdInv, Send
  <2>5. CmdInv'
    BY <2>2, <2>3, <2>4 DEF CmdInv, AwaitedCmd
  <2>6. EnumTypeOK' /\ PlaceInv' /\ OnePlace'
    BY <2>1, <2>2, <2>3 DEF EnumTypeOK, PlaceInv, OnePlace
  <2>7. \A s \in 1 .. MAX_SLOTS : EntryInv(s)'
    BY <2>1, <2>2, <2>3 DEF EntryInv
  <2> QED
    BY <2>5, <2>6, <2>7
<1>4. CASE EnableFails
  <2>1. Answer(FALSE) \/ Answer(TRUE)
    BY <1>4 DEF EnableFails, Failed
  <2>2. pend' = <<>> /\ evq' = <<>>
    BY <1>4, <2>1, AnswerFacts DEF EnableFails
  <2> QED
    BY <1>4, <2>2, MoveOnSame DEF EnableFails
<1> QED
  BY <1>1, <1>2, <1>3, <1>4

\* enable_slot gave a slot that is new to the table, and the place is new as well.
LEMMA EnableStep ==
    ASSUME TableInv, EnableDone
    PROVE  TableInv'
<1> USE DEF TableInv
<1> PICK s : s = Last(evq).slot
  OBVIOUS
<1> PICK d : d = [kind |-> "unknown", loc |-> Here, parent |-> en.hub]
  OBVIOUS
<1>1. /\ en.pc = "enable" /\ Answer(TRUE) /\ s # 0
      /\ slots' = [slots EXCEPT ![s] = d]
      /\ en' = [en EXCEPT !.pc = "address", !.slot = s]
      /\ Send("address", s) /\ tried' = tried /\ hwSlots' = hwSlots
  BY DEF EnableDone
<1>2. pend = <<>> /\ evq = <<evq[1]>> /\ s = evq[1].slot /\ evq[1].code = "ok" /\ evq' = <<>>
  BY <1>1, AnswerFacts DEF Answer
<1>3. s \in hwSlots /\ slots[s] = NoDev /\ s \in 1 .. MAX_SLOTS
  BY <1>1, <1>2 DEF CmdInv, EnumTypeOK
<1>4. EnOK(en) /\ en.slot = 0
  BY <1>1 DEF EnumTypeOK, PlaceInv
<1>5. /\ EnOK(en') /\ en'.pc = "address" /\ en'.port = en.port /\ en'.hub = en.hub
      /\ en'.child = en.child /\ en'.slot = s
  BY <1>1, <1>3, <1>4 DEF EnOK
<1>6. d \in [kind : Kinds, loc : Nat \X Nat, parent : 0 .. MAX_SLOTS]
  BY <1>4 DEF EnOK, Here, Place, Kinds
<1>7. EnumTypeOK'
  BY <1>1, <1>3, <1>5, <1>6 DEF EnumTypeOK
<1>8. pend' = <<[cmd |-> "address", slot |-> s]>>
  BY <1>1, <1>2 DEF Send
<1>9. CmdInv'
  BY <1>2, <1>5, <1>8 DEF CmdInv, AwaitedCmd
<1>10. \A t \in 1 .. MAX_SLOTS : slots'[t] = IF t = s THEN d ELSE slots[t]
  BY <1>1, <1>3 DEF EnumTypeOK
<1>11. d.kind = "unknown" /\ d.loc = <<en.port, en.child>> /\ d.parent = en.hub /\ NoDev.kind = "none"
  BY DEF Here, Place, NoDev
<1>12. en.hub # 0 => en.hub # s /\ slots'[en.hub].kind = "hub" /\ en.hub \in 1 .. MAX_SLOTS /\ en.port \in tried
  BY <1>1, <1>3, <1>4, <1>10, <1>11 DEF PlaceInv, EnOK
<1>13. Here' = <<en.port, en.child>>
  BY <1>5 DEF Here, Place
<1>14. PlaceInv'
  BY <1>1, <1>3, <1>4, <1>5, <1>10, <1>11, <1>12, <1>13 DEF PlaceInv, Here, Place
<1>15. ASSUME NEW t \in 1 .. MAX_SLOTS, t # s, slots[t] # NoDev
       PROVE  slots[t].loc # d.loc /\ EntryInv(t)'
  <2>1. slots'[t] = slots[t] /\ t # en.slot
    BY <1>4, <1>10, <1>15
  <2>2. slots[t].loc[1] \in tried /\ t \in hwSlots /\ slots[t].loc[1] # 0
        /\ slots[t].parent \in 0 .. MAX_SLOTS /\ slots[t].loc[2] \in Nat
    BY <1>1, <1>15 DEF EntryInv, EnumTypeOK
  <2>3. slots[t].parent # 0 => slots'[slots[t].parent].kind = "hub"
    <3>1. slots[t].parent # 0 => slots[slots[t].parent].kind = "hub" /\ slots[t].parent # s
      BY <1>3, <1>11, <1>15 DEF EntryInv
    <3> QED
      BY <3>1, <2>2, <1>10
  <2>4. slots[t].loc[1] = en.port => en.hub # 0 /\ slots[t].loc[2] < en.child
    BY <1>1, <2>1, <2>2, <1>15 DEF EntryInv, PlaceInv
  <2>5. slots[t].loc # d.loc
    BY <2>2, <2>4, <1>4, <1>11 DEF EnOK
  <2> QED
    BY <1>1, <1>5, <2>1, <2>2, <2>3, <2>4, <2>5 DEF EntryInv
<1>16. EntryInv(s)'
  <2>1. en.port # 0
    BY <1>4 DEF EnOK
  <2> QED
    BY <1>1, <1>3, <1>5, <1>10, <1>11, <1>12, <2>1 DEF EntryInv
<1>17. \A t \in 1 .. MAX_SLOTS : EntryInv(t)'
  <2> TAKE t \in 1 .. MAX_SLOTS
  <2>1. CASE t # s /\ slots[t] = NoDev
    BY <1>10, <2>1 DEF EntryInv
  <2> QED
    BY <2>1, <1>15, <1>16
<1>18. OnePlace'
  <2> SUFFICES ASSUME NEW t \in 1 .. MAX_SLOTS, NEW u \in 1 .. MAX_SLOTS,
                      slots'[t] # NoDev, slots'[u].loc = slots'[t].loc
               PROVE  u = t
    BY DEF OnePlace
  <2>1. d.loc # NoDev.loc
    BY <1>4, <1>11 DEF NoDev, Place, EnOK
  <2>2. CASE t = s
    BY <1>10, <1>15, <2>1, <2>2
  <2>3. CASE t # s
    <3>1. slots[t] # NoDev /\ slots[t].loc # d.loc /\ u # s
      BY <1>10, <1>15, <2>3
    <3> QED
      BY <1>10, <2>3, <3>1 DEF OnePlace
  <2> QED
    BY <2>2, <2>3
<1> QED
  BY <1>7, <1>9, <1>14, <1>17, <1>18


\* The driver goes on with the device in en.slot; its port counts as tried.
LEMMA StayPut ==
    ASSUME TableInv, slots' = slots, hwSlots' = hwSlots, tried' = tried \cup {en.port}, CmdInv', EnOK(en'),
           en'.port = en.port, en'.hub = en.hub, en'.child = en.child, en'.slot = en.slot,
           en.pc \in {"address", "classify", "eval"}, en'.pc \in {"classify", "eval", "disable"},
           en'.pc = "eval" => en.hub = 0
    PROVE  TableInv'
<1> USE DEF TableInv
<1>1. EnOK(en)
  BY DEF EnumTypeOK
<1>2. EnumTypeOK' /\ OnePlace'
  BY <1>1 DEF EnumTypeOK, OnePlace, EnOK
<1>3. PlaceInv'
  BY DEF PlaceInv, Here
<1>4. \A s \in 1 .. MAX_SLOTS : EntryInv(s)'
  <2> SUFFICES ASSUME NEW s \in 1 .. MAX_SLOTS, slots[s] # NoDev PROVE EntryInv(s)'
    BY DEF EntryInv
  <2>1. slots[s].loc[1] = en.port /\ en.hub = 0 => s = en.slot
    BY DEF EntryInv, PlaceInv
  <2>2. slots[s].loc[1] \in tried'
    BY DEF EntryInv, PlaceInv, Here, Place
  <2> QED
    BY <2>1, <2>2 DEF EntryInv
<1> QED
  BY <1>2, <1>3, <1>4

\* A port that is done with, or whose hub is being walked, is already tried.
LEMMA MarkTriedSame ==
    ASSUME TableInv
    PROVE  /\ MarkTried => tried' = tried \cup {en.port}
           /\ en.pc \in {"classify", "eval", "disable"} => tried = tried \cup {en.port}
BY DEF TableInv, PlaceInv, MarkTried

\* The steps that address and classify the device, until its slot is kept or given back.
LEMMA DeviceSteps ==
    ASSUME TableInv, ~lateCmd',
           AddressDone \/ AddressFails \/ ClassifyDrop \/ AttachHub \/ EvalFails
    PROVE  TableInv'
<1> USE DEF TableInv
<1>1. EnOK(en)
  BY DEF EnumTypeOK
<1>2. CASE AddressDone
  <2>1. en.pc = "address" /\ Answer(TRUE) /\ MarkTried /\ UNCHANGED <<slots, pend, hwSlots>>
        /\ en' = [en EXCEPT !.pc = "classify", !.progress = @ \/ en.hub = 0]
    BY <1>2 DEF AddressDone
  <2>2. /\ EnOK(en') /\ en'.pc = "classify" /\ en'.port = en.port /\ en'.hub = en.hub
        /\ en'.child = en.child /\ en'.slot = en.slot
    BY <1>1, <2>1 DEF EnOK
  <2>3. CmdInv'
    BY <2>1, <2>2, AnswerFacts DEF CmdInv
  <2> QED
    BY <2>1, <2>2, <2>3, StayPut, MarkTriedSame
<1>3. ASSUME NEW pc \in {"eval", "disable"}, NEW cmd, cmd = pc,
             en' = [en EXCEPT !.pc = pc], pend' = Append(pend, [cmd |-> cmd, slot |-> en.slot]),
             pend = <<>>, evq' = <<>>, slots' = slots, hwSlots' = hwSlots, tried' = tried \cup {en.port},
             en.pc \in {"address", "classify", "eval"}, pc = "eval" => en.hub = 0
      PROVE  TableInv'
  <2>1. /\ EnOK(en') /\ en'.pc = pc /\ en'.port = en.port /\ en'.hub = en.hub
        /\ en'.child = en.child /\ en'.slot = en.slot
    BY <1>1, <1>3 DEF EnOK
  <2>2. pend' = <<[cmd |-> cmd, slot |-> en.slot]>>
    BY <1>3
  <2>3. CmdInv'
    BY <1>3, <2>1, <2>2 DEF CmdInv, AwaitedCmd
  <2> QED
    BY <1>3, <2>1, <2>3, StayPut
<1>4. CASE AddressFails \/ EvalFails
  <2>1. en.pc \in {"address", "eval"} /\ Answer(FALSE) /\ Disable("disable", en.slot)
        /\ UNCHANGED <<slots, hwSlots>>
    BY <1>4 DEF AddressFails, EvalFails, Failed
  <2>2. en' = [en EXCEPT !.pc = "disable"]
    BY <1>1, <2>1 DEF Disable, EnOK
  <2>3. tried' = tried \cup {en.port}
    BY <1>4, MarkTriedSame DEF AddressFails, EvalFails
  <2> QED
    BY <1>3, <2>1, <2>2, <2>3, AnswerFacts DEF Disable, Send
<1>5. CASE ClassifyDrop
  <2>1. en.pc = "classify" /\ Disable("disable", en.slot) /\ UNCHANGED <<slots, tried, evq, hwSlots>>
    BY <1>5 DEF ClassifyDrop
  <2>2. en' = [en EXCEPT !.pc = "disable"]
    BY <1>1, <2>1 DEF Disable, EnOK
  <2> QED
    BY <1>3, <2>1, <2>2, MarkTriedSame DEF Disable, Send, CmdInv
<1>6. CASE AttachHub
  <2>1. en.pc = "classify" /\ en.hub = 0 /\ UNCHANGED <<slots, tried, evq, hwSlots>>
        /\ en' = [en EXCEPT !.pc = "eval"] /\ Send("eval", en.slot)
    BY <1>6 DEF AttachHub
  <2> QED
    BY <1>3, <2>1, MarkTriedSame DEF Send, CmdInv
<1> QED
  BY <1>2, <1>4, <1>5, <1>6

\* The hub is in its slot, and its first port is looked at.
LEMMA EvalStep ==
    ASSUME TableInv, EvalDone
    PROVE  TableInv'
<1> USE DEF TableInv
<1> PICK h : h = en.slot
  OBVIOUS
<1>1. /\ en.pc = "eval" /\ Answer(TRUE) /\ UNCHANGED <<plug, tried, pend, hwSlots>>
      /\ slots' = [slots EXCEPT ![h].kind = "hub"]
      /\ en' = [en EXCEPT !.pc = "scan", !.hub = h, !.child = 1, !.slot = 0]
  BY DEF EvalDone
<1>2. EnOK(en) /\ h \in 1 .. MAX_SLOTS /\ en.hub = 0 /\ en.child = 0 /\ en.port \in tried
      /\ slots[h] = [kind |-> "unknown", loc |-> <<en.port, 0>>, parent |-> 0]
  BY <1>1 DEF EnumTypeOK, EnOK, PlaceInv, Here, Place
<1>3. /\ EnOK(en') /\ en'.pc = "scan" /\ en'.port = en.port /\ en'.hub = h
      /\ en'.child = 1 /\ en'.slot = 0
  BY <1>1, <1>2 DEF EnOK
<1>4. slots'[h] = [kind |-> "hub", loc |-> <<en.port, 0>>, parent |-> 0]
  BY <1>1, <1>2 DEF EnumTypeOK
<1>5. \A s \in 1 .. MAX_SLOTS : s # h => slots'[s] = slots[s]
  BY <1>1, <1>2 DEF EnumTypeOK
<1>6. EnumTypeOK'
  <2>1. slots'[h] \in [kind : Kinds, loc : Nat \X Nat, parent : 0 .. MAX_SLOTS]
    BY <1>2, <1>4 DEF EnOK, Kinds
  <2>2. DOMAIN slots' = 1 .. MAX_SLOTS /\ slots' = [s \in 1 .. MAX_SLOTS |-> slots'[s]]
    BY <1>1 DEF EnumTypeOK
  <2>3. \A s \in 1 .. MAX_SLOTS : slots'[s] \in [kind : Kinds, loc : Nat \X Nat, parent : 0 .. MAX_SLOTS]
    BY <1>5, <2>1 DEF EnumTypeOK
  <2> QED
    BY <1>1, <1>3, <2>2, <2>3 DEF EnumTypeOK
<1>7. CmdInv'
  BY <1>1, <1>3, AnswerFacts DEF CmdInv
<1>8. PlaceInv'
  BY <1>1, <1>2, <1>3, <1>4 DEF PlaceInv, EnOK
<1>9. \A s \in 1 .. MAX_SLOTS : slots'[s].loc = slots[s].loc /\ slots'[s].parent = slots[s].parent
                                /\ (slots'[s] # NoDev => slots[s] # NoDev)
                                /\ (slots[s].kind = "hub" => slots'[s].kind = "hub")
  BY <1>2, <1>4, <1>5 DEF NoDev
<1>10. \A s \in 1 .. MAX_SLOTS : EntryInv(s)'
  <2> SUFFICES ASSUME NEW s \in 1 .. MAX_SLOTS, slots'[s] # NoDev PROVE EntryInv(s)'
    BY DEF EntryInv
  <2>1. slots[s] # NoDev /\ slots'[s].loc = slots[s].loc /\ slots'[s].parent = slots[s].parent
        /\ slots[s].parent \in 0 .. MAX_SLOTS
    BY <1>9 DEF EnumTypeOK
  <2>2. slots[s].loc[1] = en.port => s = h
    BY <1>1, <1>2, <2>1 DEF EntryInv
  <2>3. s \in hwSlots /\ slots[s].loc[1] \in tried /\ slots[s].loc[1] # 0
    BY <1>1, <2>1 DEF EntryInv
  <2>4. slots[s].parent # 0 => slots'[slots[s].parent].kind = "hub"
    BY <1>9, <2>1 DEF EntryInv
  <2>5. s = h => slots[s].loc[2] < 1
    BY <1>2
  <2> QED
    BY <1>1, <1>3, <2>1, <2>2, <2>3, <2>4, <2>5 DEF EntryInv
<1>11. OnePlace'
  BY <1>9 DEF OnePlace
<1> QED
  BY <1>6, <1>7, <1>8, <1>10, <1>11


\* A set of natural numbers that is not empty has a least element.
LEMMA LeastExists ==
    ASSUME NEW S, S \subseteq Nat, S # {}
    PROVE  \E x \in S : \A y \in S : x <= y
<1> DEFINE R == OpToRel(<, Nat)
<1>1. \A x, y \in Nat : x < y => <<x, y>> \in R
  BY DEF OpToRel
<1>2. IsWellFoundedOn(R, Nat)
  BY NatLessThanWellFounded
<1> HIDE DEF R
<1>3. PICK x \in S : \A y \in S : ~(<<y, x>> \in R)
  BY <1>2, WFMin
<1>4. ASSUME NEW y \in S
      PROVE  x <= y
  <2>1. x \in Nat /\ y \in Nat /\ ~(y < x)
    BY <1>1, <1>3
  <2> QED
    BY <2>1
<1> QED
  BY <1>4

\* A device leaves the table: the one in en.slot, after its slot was disabled.
LEMMA DisableStep ==
    ASSUME TableInv, ~lateCmd', DisableDone
    PROVE  TableInv'
<1> USE DEF TableInv
<1> PICK k : k = en.slot
  OBVIOUS
<1>1. /\ en.pc \in {"disable", "release"} /\ slots' = [slots EXCEPT ![k] = NoDev]
      /\ en' = IF en.pc = "disable" THEN NextPlace(en) ELSE [en EXCEPT !.pc = "done"]
      /\ UNCHANGED <<tried, pend, hwSlots>> /\ (Answer(FALSE) \/ Answer(TRUE))
  BY DEF DisableDone, Failed
<1>2. EnOK(en) /\ k \in 1 .. MAX_SLOTS /\ slots[k].kind # "hub"
  BY <1>1 DEF EnumTypeOK, EnOK, PlaceInv
<1>3. pend' = <<>> /\ evq' = <<>>
  BY <1>1, AnswerFacts
<1>4. slots' \in [1 .. MAX_SLOTS -> [kind : Kinds, loc : Nat \X Nat, parent : 0 .. MAX_SLOTS]]
  <2>1. NoDev \in [kind : Kinds, loc : Nat \X Nat, parent : 0 .. MAX_SLOTS]
    BY EnumAssumption DEF NoDev, Place, Kinds
  <2> QED
    BY <1>1, <2>1 DEF EnumTypeOK
<1>5. slots'[k] = NoDev /\ \A s \in 1 .. MAX_SLOTS : s # k => slots'[s] = slots[s]
  BY <1>1, <1>2 DEF EnumTypeOK
<1>6. \A s \in 1 .. MAX_SLOTS :
               /\ slots[s].kind = "hub" => slots'[s].kind = "hub"
               /\ slots'[s] # NoDev =>
                     /\ slots[s] # NoDev /\ slots'[s].loc = slots[s].loc
                     /\ slots'[s].parent = slots[s].parent
                     /\ s \in hwSlots
  BY <1>1, <1>2, <1>5 DEF EntryInv
<1>7. \A s \in 1 .. MAX_SLOTS : slots'[s] = NoDev \/ slots'[s].loc # NoDev.loc
  BY <1>5, EntryPlace
<1>8. CASE en.pc = "disable"
  <2>1. tried \subseteq tried' /\ tried' \subseteq Nat
    BY <1>1 DEF EnumTypeOK
  <2> QED
    BY <1>1, <1>3, <1>4, <1>6, <1>7, <1>8, <2>1, MoveOn
<1>9. CASE en.pc = "release"
  <2>1. /\ EnOK(en') /\ en'.pc = "done" /\ en'.port = en.port /\ en'.hub = en.hub
        /\ en'.child = en.child /\ en'.slot = en.slot
    BY <1>1, <1>2, <1>9 DEF EnOK
  <2>2. en.hub = 0 /\ en.child = 0
    BY <1>9 DEF PlaceInv
  <2>3. EnumTypeOK' /\ CmdInv' /\ PlaceInv'
    BY <1>1, <1>3, <1>4, <2>1, <2>2 DEF EnumTypeOK, CmdInv, PlaceInv
  <2>4. \A s \in 1 .. MAX_SLOTS : EntryInv(s)'
    <3> SUFFICES ASSUME NEW s \in 1 .. MAX_SLOTS, slots'[s] # NoDev PROVE EntryInv(s)'
      BY DEF EntryInv
    <3>1. slots[s] # NoDev /\ slots'[s].loc = slots[s].loc /\ slots'[s].parent = slots[s].parent
          /\ s \in hwSlots /\ slots[s].parent \in 0 .. MAX_SLOTS
      BY <1>6 DEF EnumTypeOK
    <3>2. slots[s].loc[1] \in tried /\ slots[s].loc[1] # 0
      BY <1>9, <3>1 DEF EntryInv
    <3>3. slots[s].parent # 0 => slots'[slots[s].parent].kind = "hub"
      BY <1>6, <3>1 DEF EntryInv
    <3> QED
      BY <1>1, <2>1, <2>2, <3>1, <3>2, <3>3 DEF EntryInv
  <2>5. OnePlace'
    BY <1>6, <1>7 DEF OnePlace
  <2> QED
    BY <2>3, <2>4, <2>5
<1> QED
  BY <1>1, <1>8, <1>9

\* A disk, a keyboard or a mouse stays in its slot.
LEMMA KeepStep ==
    ASSUME TableInv, ClassifyKeep
    PROVE  TableInv'
<1> USE DEF TableInv
<1> PICK k : k = en.slot
  OBVIOUS
<1> PICK kind : kind = plug[Here]
  OBVIOUS
<1>1. /\ en.pc = "classify" /\ kind \in {"msc", "hid"} /\ slots' = [slots EXCEPT ![k].kind = kind]
      /\ en' = NextPlace(en) /\ UNCHANGED <<tried, pend, evq, hwSlots>>
  BY DEF ClassifyKeep
<1>2. EnOK(en) /\ k \in 1 .. MAX_SLOTS /\ slots[k] = [kind |-> "unknown", loc |-> Here, parent |-> en.hub]
  BY <1>1 DEF EnumTypeOK, EnOK, PlaceInv
<1>3. pend' = <<>> /\ evq' = <<>>
  BY <1>1 DEF CmdInv
<1>4. slots'[k] = [kind |-> kind, loc |-> Here, parent |-> en.hub]
  BY <1>1, <1>2 DEF EnumTypeOK
<1>5. \A s \in 1 .. MAX_SLOTS : s # k => slots'[s] = slots[s]
  BY <1>1, <1>2 DEF EnumTypeOK
<1>6. slots' \in [1 .. MAX_SLOTS -> [kind : Kinds, loc : Nat \X Nat, parent : 0 .. MAX_SLOTS]]
  <2>1. slots'[k] \in [kind : Kinds, loc : Nat \X Nat, parent : 0 .. MAX_SLOTS]
    BY <1>1, <1>2, <1>4 DEF EnOK, Kinds, Here, Place
  <2>2. DOMAIN slots' = 1 .. MAX_SLOTS /\ slots' = [s \in 1 .. MAX_SLOTS |-> slots'[s]]
    BY <1>1 DEF EnumTypeOK
  <2>3. \A s \in 1 .. MAX_SLOTS : slots'[s] \in [kind : Kinds, loc : Nat \X Nat, parent : 0 .. MAX_SLOTS]
    BY <1>5, <2>1 DEF EnumTypeOK
  <2> QED
    BY <2>2, <2>3
<1>7. \A s \in 1 .. MAX_SLOTS :
               /\ slots[s].kind = "hub" => slots'[s].kind = "hub"
               /\ slots'[s] # NoDev =>
                     /\ slots[s] # NoDev /\ slots'[s].loc = slots[s].loc
                     /\ slots'[s].parent = slots[s].parent
                     /\ s \in hwSlots
  BY <1>1, <1>2, <1>4, <1>5 DEF EntryInv, NoDev
<1>8. \A s \in 1 .. MAX_SLOTS : slots'[s] = NoDev \/ slots'[s].loc # NoDev.loc
  BY <1>7, EntryPlace
<1>9. tried \subseteq tried' /\ tried' \subseteq Nat
  BY <1>1 DEF EnumTypeOK
<1> QED
  BY <1>1, <1>3, <1>6, <1>7, <1>8, <1>9, MoveOn

\* The controller answers, or usb_msc gives a disk back.
LEMMA AnswerStep ==
    ASSUME TableInv, HcAnswers
    PROVE  TableInv'
<1> USE DEF TableInv
<1> PICK free : free = (1 .. MAX_SLOTS) \ hwSlots
  OBVIOUS
<1>1. pend # <<>> /\ pend' = Tail(pend) /\ UNCHANGED <<plug, slots, tried, en, lateCmd>>
  BY DEF HcAnswers
<1>2. /\ en.pc \in {"enable", "address", "eval", "disable", "release"}
      /\ evq = <<>> /\ pend = <<AwaitedCmd>>
  BY <1>1 DEF CmdInv
<1>3. Head(pend) = AwaitedCmd /\ pend' = <<>>
  BY <1>1, <1>2
<1>4. PICK e : evq' = Append(evq, e) /\
              \/ /\ AwaitedCmd.cmd = "enable" /\ free # {} /\ e.slot = Min(free)
                 /\ hwSlots' = hwSlots \cup {Min(free)}
              \/ AwaitedCmd.cmd = "disable" /\ hwSlots' = hwSlots \ {AwaitedCmd.slot}
              \/ (AwaitedCmd.cmd = "enable" => e.code = "err") /\ hwSlots' = hwSlots
  <2> PICK c : c = AwaitedCmd
    OBVIOUS
  <2>1. \/ c.cmd = "enable" /\ free # {} /\ evq' = Append(evq, [code |-> "ok", slot |-> Min(free)])
           /\ hwSlots' = hwSlots \cup {Min(free)}
        \/ c.cmd = "disable" /\ evq' = Append(evq, [code |-> "ok", slot |-> c.slot])
           /\ hwSlots' = hwSlots \ {c.slot}
        \/ c.cmd \in {"address", "eval"} /\ evq' = Append(evq, [code |-> "ok", slot |-> c.slot])
           /\ hwSlots' = hwSlots
        \/ evq' = Append(evq, [code |-> "err", slot |-> c.slot]) /\ hwSlots' = hwSlots
    BY <1>3, Zenon DEF HcAnswers
  <2>2. CASE c.cmd = "enable" /\ free # {} /\ evq' = Append(evq, [code |-> "ok", slot |-> Min(free)])
           /\ hwSlots' = hwSlots \cup {Min(free)}
    <3> WITNESS [code |-> "ok", slot |-> Min(free)]
    <3> QED
      BY <2>2
  <2>3. CASE c.cmd \in {"disable", "address", "eval"} /\ evq' = Append(evq, [code |-> "ok", slot |-> c.slot])
             /\ hwSlots' = (IF c.cmd = "disable" THEN hwSlots \ {c.slot} ELSE hwSlots)
    <3> WITNESS [code |-> "ok", slot |-> c.slot]
    <3> QED
      BY <2>3
  <2>4. CASE evq' = Append(evq, [code |-> "err", slot |-> c.slot]) /\ hwSlots' = hwSlots
    <3> WITNESS [code |-> "err", slot |-> c.slot]
    <3> QED
      BY <2>4
  <2> QED
    BY <2>1, <2>2, <2>3, <2>4
<1>5. evq' = <<e>>
  BY <1>2, <1>4
<1>6. free # {} => Min(free) \in free
  <2>1. free \subseteq Nat
    BY EnumAssumption
  <2> QED
    BY <2>1, LeastExists DEF Min
<1>7. ASSUME NEW s \in 1 .. MAX_SLOTS, slots[s] # NoDev
      PROVE  s \in hwSlots' \/ (en.pc \in {"disable", "release"} /\ en.slot = s)
  BY <1>4, <1>7 DEF EntryInv, AwaitedCmd
<1>8. \A s \in 1 .. MAX_SLOTS : EntryInv(s)'
  BY <1>1, <1>7 DEF EntryInv
<1>9. en.pc = "enable" /\ e.code = "ok" => e.slot \in hwSlots' /\ slots[e.slot] = NoDev
  BY <1>4, <1>6 DEF EntryInv, AwaitedCmd
<1>10. CmdInv'
  BY <1>1, <1>2, <1>3, <1>5, <1>9 DEF CmdInv
<1>11. EnumTypeOK'
  BY <1>1, <1>4, <1>6 DEF EnumTypeOK
<1>12. PlaceInv' /\ OnePlace'
  BY <1>1 DEF PlaceInv, OnePlace, Here
<1> QED
  BY <1>8, <1>10, <1>11, <1>12

\* A disk that failed to start gives its slot back by a command.
LEMMA ReleaseStep ==
    ASSUME TableInv, NEW k \in 1 .. MAX_SLOTS, Release(k)
    PROVE  TableInv'
<1> USE DEF TableInv
<1>1. /\ en.pc = "done" /\ slots[k].kind = "msc" /\ UNCHANGED <<slots, tried, evq, hwSlots>>
      /\ en' = [en EXCEPT !.pc = "release", !.slot = k]
      /\ pend' = Append(pend, [cmd |-> "disable", slot |-> k])
  BY DEF Release, Disable, Send
<1>2. EnOK(en) /\ en.hub = 0 /\ en.child = 0 /\ pend = <<>> /\ evq = <<>>
  BY <1>1 DEF EnumTypeOK, PlaceInv, CmdInv
<1>3. /\ EnOK(en') /\ en'.pc = "release" /\ en'.port = en.port /\ en'.hub = 0
      /\ en'.child = 0 /\ en'.slot = k
  BY <1>1, <1>2 DEF EnOK
<1>4. pend' = <<[cmd |-> "disable", slot |-> k]>>
  BY <1>1, <1>2
<1>5. CmdInv'
  BY <1>1, <1>2, <1>3, <1>4 DEF CmdInv, AwaitedCmd
<1>6. EnumTypeOK' /\ PlaceInv' /\ OnePlace'
  BY <1>1, <1>2, <1>3 DEF EnumTypeOK, PlaceInv, OnePlace
<1>7. \A s \in 1 .. MAX_SLOTS : EntryInv(s)'
  BY <1>1, <1>2, <1>3 DEF EntryInv
<1> QED
  BY <1>5, <1>6, <1>7

\* While no command was given up on, every entry of the table of USB devices is a slot
\* that the controller has enabled, no two stand for one place, and the parent of a
\* device behind a hub is that hub, whatever is plugged in, whatever the controller
\* answers, and for any number of ports and slots (mod.rs:171-255, hub.rs, slot.rs).
THEOREM UsbTableKept == EnumSpec => []UsbTable
<1>1. EnumInit => EnumInv
  <2> SUFFICES ASSUME EnumInit PROVE TableInv
    BY DEF EnumInv
  <2> USE EnumAssumption DEF EnumInit
  <2>1. NoDev \in [kind : Kinds, loc : Nat \X Nat, parent : 0 .. MAX_SLOTS]
    BY DEF NoDev, Place, Kinds
  <2>2. EnumTypeOK
    BY <2>1 DEF EnumTypeOK, EnOK
  <2>3. CmdInv /\ PlaceInv
    BY DEF CmdInv, PlaceInv
  <2>4. \A s \in 1 .. MAX_SLOTS : slots[s] = NoDev
    OBVIOUS
  <2> QED
    BY <2>2, <2>3, <2>4 DEF TableInv, EntryInv, OnePlace
<1>2. EnumInv /\ [EnumNext]_enumVars => EnumInv'
  <2> SUFFICES ASSUME EnumInv, [EnumNext]_enumVars, ~lateCmd' PROVE TableInv'
    BY DEF EnumInv
  <2>1. CASE UNCHANGED enumVars
    <3>1. TableInv
      BY <2>1 DEF EnumInv, enumVars
    <3> QED
      BY <2>1, <3>1 DEF enumVars, TableInv, EnumTypeOK, CmdInv, AwaitedCmd, PlaceInv, EntryInv, OnePlace, Here
  <2>2. CASE EnumNext
    <3>1. ~lateCmd
      BY <2>2 DEF EnumNext, DriverStep, enumerate, SkipPort, ResetPort, EnableDone, EnableFails, AddressDone,
                  AddressFails, DisableDone, ClassifyKeep, ClassifyDrop, AttachHub, EvalDone, EvalFails,
                  HcAnswers, Release, Answer, Failed
    <3>2. TableInv
      BY <3>1 DEF EnumInv
    <3> QED
      BY <2>2, <3>2, ScanSteps, EnableStep, DeviceSteps, EvalStep, DisableStep, KeepStep, AnswerStep, ReleaseStep
         DEF EnumNext, DriverStep
  <2> QED
    BY <2>1, <2>2
<1>3. EnumInv => UsbTable
  BY DEF EnumInv, TableInv, EntryInv, OnePlace, UsbTable
<1> QED
  BY <1>1, <1>2, <1>3, PTL DEF EnumSpec


-----------------------------------------------------------------------------
(* ShellExec: what is left at the prompt.                                  *)

Fds == 0 .. FD_MAX - 1
Taken == {f \in DOMAIN sfd : sfd[f] # Free}
ScriptFds == {scripts[i] : i \in DOMAIN scripts}
Alive == Running \cup Dead

\* Every descriptor taken is a standard one, a script's, a pipe's end or a redirection's;
\* no script has one of the line's, nor two scripts the same.
FdInv ==
    /\ DOMAIN sfd = Fds /\ scripts \in Seq(Fds)
    /\ Taken = 0 .. 2 \cup ScriptFds \cup PipeFds \cup ExtraFds
    /\ ScriptFds \cap (0 .. 2) = {}
    /\ (PipeFds \cup ExtraFds) \cap (0 .. 2 \cup ScriptFds) = {}
    /\ \A i, j \in DOMAIN scripts : scripts[i] = scripts[j] => i = j

\* Redirections are opened and stages started when all pipes are there.
LineOK(x) ==
    /\ {"pc", "stages", "pipes", "extra", "pids", "waits"} \subseteq DOMAIN x
    /\ x.pc \in {"prompt", "pipe", "abort", "wait"}
    /\ x.pipes \in Seq(Fds \X Fds) /\ x.extra \in Seq(Fds) /\ x.pids \in Seq(Nat) /\ x.waits \in Nat
    /\ x.pc = "prompt" => x = AtPrompt
    /\ x.pc = "wait" => x.pipes = <<>> /\ x.extra = <<>> /\ x.pids = <<>>
    /\ x.pc \in {"pipe", "abort"} => x.waits = 0
    /\ x.pc = "pipe" /\ ~(x.extra = <<>> /\ x.pids = <<>>) => Len(x.pipes) = Len(x.stages) - 1

\* The children there are: the clocks, and those the line started and will wait for.
KidInv ==
    /\ DOMAIN kids = 1 .. PROCS /\ clocks \in Nat
    /\ \A s \in 1 .. PROCS : /\ {"name", "st", "in", "out"} \subseteq DOMAIN kids[s]
                             /\ kids[s].st \in {"none", "run", "zombie"}
    /\ Cardinality(Alive) = clocks + Len(sx.pids) + sx.waits

ShellInv == FdInv /\ LineOK(sx) /\ KidInv

\* The least of some descriptors or slots is one of them.
LEMMA LowestIn ==
    ASSUME NEW S, S \subseteq Nat, S # {}
    PROVE  LowestOf(S) \in S
BY LeastExists DEF LowestOf

\* Elements of a sequence that grew.
LEMMA AppendElems ==
    ASSUME NEW S, NEW q \in Seq(S), NEW x \in S
    PROVE  /\ Append(q, x) \in Seq(S)
           /\ DOMAIN Append(q, x) = DOMAIN q \cup {Len(q) + 1}
           /\ \A i \in DOMAIN q : Append(q, x)[i] = q[i]
           /\ Append(q, x)[Len(q) + 1] = x
OBVIOUS

Elems(q) == {q[i] : i \in DOMAIN q}
PairElems(q) == UNION {{q[i][1], q[i][2]} : i \in DOMAIN q}

\* Elements of two sequences put together.
LEMMA ConcatElems ==
    ASSUME NEW q \in Seq(Fds), NEW r \in Seq(Fds)
    PROVE  q \o r \in Seq(Fds) /\ Elems(q \o r) = Elems(q) \cup Elems(r)
<1>1. q \o r \in Seq(Fds) /\ Len(q \o r) = Len(q) + Len(r) /\ Len(q) \in Nat /\ Len(r) \in Nat
  OBVIOUS
<1>2. DOMAIN q = 1 .. Len(q) /\ DOMAIN r = 1 .. Len(r) /\ DOMAIN (q \o r) = 1 .. Len(q) + Len(r)
  BY <1>1
<1>3. \A i \in 1 .. Len(q) : (q \o r)[i] = q[i]
  BY <1>1
<1>4. \A i \in 1 .. Len(r) : (q \o r)[Len(q) + i] = r[i]
  BY <1>1
<1>5. \A i \in 1 .. Len(q) + Len(r) : i \in 1 .. Len(q) \/ \E j \in 1 .. Len(r) : i = Len(q) + j
  <2> TAKE i \in 1 .. Len(q) + Len(r)
  <2>1. CASE i > Len(q)
    <3>1. i - Len(q) \in 1 .. Len(r) /\ i = Len(q) + (i - Len(q))
      BY <1>1, <2>1
    <3> QED
      BY <3>1
  <2> QED
    BY <1>1, <2>1
<1>6. \A i \in 1 .. Len(q) : i \in 1 .. Len(q) + Len(r)
  BY <1>1
<1>7. \A i \in 1 .. Len(r) : Len(q) + i \in 1 .. Len(q) + Len(r)
  BY <1>1
<1>8. {(q \o r)[i] : i \in 1 .. Len(q) + Len(r)} \subseteq {q[i] : i \in 1 .. Len(q)} \cup {r[i] : i \in 1 .. Len(r)}
  <2> SUFFICES ASSUME NEW i \in 1 .. Len(q) + Len(r)
               PROVE  (q \o r)[i] \in {q[j] : j \in 1 .. Len(q)} \cup {r[j] : j \in 1 .. Len(r)}
    OBVIOUS
  <2>1. CASE i \in 1 .. Len(q)
    BY <1>3, <2>1
  <2>2. ASSUME NEW j \in 1 .. Len(r), i = Len(q) + j
        PROVE  (q \o r)[i] = r[j]
    BY <1>4, <2>2
  <2> QED
    BY <1>5, <2>1, <2>2
<1>9. {q[i] : i \in 1 .. Len(q)} \cup {r[i] : i \in 1 .. Len(r)} \subseteq {(q \o r)[i] : i \in 1 .. Len(q) + Len(r)}
  BY <1>3, <1>4, <1>6, <1>7
<1> QED
  BY <1>1, <1>2, <1>8, <1>9 DEF Elems

\* Elements of a sequence of pairs that grew by one.
LEMMA PairAppend ==
    ASSUME NEW q \in Seq(Fds \X Fds), NEW a \in Fds, NEW b \in Fds
    PROVE  PairElems(Append(q, <<a, b>>)) = PairElems(q) \cup {a, b}
<1> PICK v : v = Append(q, <<a, b>>)
  OBVIOUS
<1>1. /\ DOMAIN v = DOMAIN q \cup {Len(q) + 1} /\ v[Len(q) + 1] = <<a, b>>
      /\ \A i \in DOMAIN q : v[i] = q[i]
  BY AppendElems
<1>2. v[Len(q) + 1][1] = a /\ v[Len(q) + 1][2] = b
  BY <1>1
<1>3. ASSUME NEW f
      PROVE  f \in PairElems(v) <=> \E i \in DOMAIN v : f = v[i][1] \/ f = v[i][2]
  BY DEF PairElems
<1>4. ASSUME NEW f
      PROVE  f \in PairElems(q) <=> \E i \in DOMAIN q : f = q[i][1] \/ f = q[i][2]
  BY DEF PairElems
<1>5. ASSUME NEW f
      PROVE  f \in PairElems(v) <=> f \in PairElems(q) \/ f = a \/ f = b
  <2>1. ASSUME NEW i \in DOMAIN v, f = v[i][1] \/ f = v[i][2]
        PROVE  f \in PairElems(q) \/ f = a \/ f = b
    <3>1. CASE i \in DOMAIN q
      BY <1>1, <1>4, <2>1, <3>1
    <3>2. CASE i = Len(q) + 1
      BY <1>2, <2>1, <3>2
    <3> QED
      BY <1>1, <3>1, <3>2
  <2>2. ASSUME NEW i \in DOMAIN q, f = q[i][1] \/ f = q[i][2]
        PROVE  f \in PairElems(v)
    <3>1. i \in DOMAIN v /\ v[i] = q[i]
      BY <1>1
    <3> QED
      BY <1>3, <2>2, <3>1
  <2>3. f = a \/ f = b => f \in PairElems(v)
    BY <1>1, <1>2, <1>3
  <2> QED
    BY <1>3, <1>4, <2>1, <2>2, <2>3
<1> QED
  BY <1>5

\* What there are of descriptors at a line that has none.
LEMMA NoLineFds ==
    /\ sx.pipes = <<>> => PipeFds = {}
    /\ sx.extra = <<>> => ExtraFds = {}
BY DEF PipeFds, ExtraFds

\* The same after a step.
LEMMA NoLineFdsNext ==
    /\ sx'.pipes = <<>> => PipeFds' = {}
    /\ sx'.extra = <<>> => ExtraFds' = {}
BY DEF PipeFds, ExtraFds

\* A child is started in a free slot.
LEMMA NewKid ==
    ASSUME KidInv, NEW k, {"name", "st", "in", "out"} \subseteq DOMAIN k, k.st = "run",
           Slots # {}, kids' = [kids EXCEPT ![LowestOf(Slots)] = k]
    PROVE  /\ DOMAIN kids' = 1 .. PROCS
           /\ \A s \in 1 .. PROCS : /\ {"name", "st", "in", "out"} \subseteq DOMAIN kids'[s]
                                    /\ kids'[s].st \in {"none", "run", "zombie"}
           /\ Cardinality(Alive') = Cardinality(Alive) + 1
<1> PICK m : m = LowestOf(Slots)
  OBVIOUS
<1>1. m \in Slots /\ m \in 1 .. PROCS
  <2>1. Slots \subseteq 1 .. PROCS /\ 1 .. PROCS \subseteq Nat
    BY ShellConstants DEF Slots, KidInv
  <2> QED
    BY <2>1, LowestIn
<1>2. \A s \in 1 .. PROCS : kids'[s] = IF s = m THEN k ELSE kids[s]
  BY <1>1 DEF KidInv
<1>3. DOMAIN kids' = 1 .. PROCS
  BY DEF KidInv
<1>4. m \notin Alive
  BY <1>1 DEF Alive, Running, Dead, Slots
<1>5. Alive' = Alive \cup {m}
  BY <1>1, <1>2, <1>3 DEF Alive, Running, Dead, KidInv
<1>6. IsFiniteSet(Alive)
  <2>1. Alive \subseteq 1 .. PROCS
    BY DEF Alive, Running, Dead, KidInv
  <2>2. IsFiniteSet(1 .. PROCS)
    BY FS_Interval, ShellConstants
  <2> QED
    BY <2>1, <2>2, FS_Subset
<1>7. Cardinality(Alive') = Cardinality(Alive) + 1
  BY <1>4, <1>5, <1>6, FS_AddElement
<1> QED
  BY <1>2, <1>3, <1>7 DEF KidInv

\* Children that ended are still there until they are waited for.
LEMMA SameKids ==
    ASSUME KidInv, DOMAIN kids' = 1 .. PROCS,
           \A s \in 1 .. PROCS : \/ kids'[s] = kids[s]
                                 \/ /\ s \in Running /\ kids'[s].st = "zombie"
                                    /\ {"name", "st", "in", "out"} \subseteq DOMAIN kids'[s]
    PROVE  /\ \A s \in 1 .. PROCS : /\ {"name", "st", "in", "out"} \subseteq DOMAIN kids'[s]
                                    /\ kids'[s].st \in {"none", "run", "zombie"}
           /\ Alive' = Alive
<1>1. \A s \in 1 .. PROCS : s \in Alive' <=> s \in Alive
  BY DEF KidInv, Alive, Running, Dead
<1>2. Alive' \subseteq 1 .. PROCS /\ Alive \subseteq 1 .. PROCS
  BY DEF KidInv, Alive, Running, Dead
<1> QED
  BY <1>1, <1>2 DEF KidInv


\* The line's descriptors are closed again.
LEMMA ClosedLine ==
    ASSUME FdInv, sfd' = Close(sfd, PipeFds \cup ExtraFds), scripts' = scripts,
           sx'.pipes = <<>>, sx'.extra = <<>>
    PROVE  FdInv'
<1>1. DOMAIN sfd' = Fds /\ \A f \in Fds : sfd'[f] = IF f \in PipeFds \cup ExtraFds THEN Free ELSE sfd[f]
  BY DEF FdInv, Close
<1>2. PipeFds' = {} /\ ExtraFds' = {} /\ ScriptFds' = ScriptFds
  BY NoLineFdsNext DEF ScriptFds
<1>3. Taken' = Taken \ (PipeFds \cup ExtraFds)
  BY <1>1 DEF Taken, FdInv
<1>4. Taken' = 0 .. 2 \cup ScriptFds
  BY <1>3 DEF FdInv
<1>5. Taken' = (0 .. 2 \cup ScriptFds \cup PipeFds \cup ExtraFds)'
  BY <1>2, <1>4
<1> QED
  BY <1>1, <1>2, <1>5 DEF FdInv

\* Free descriptors become the line's.
LEMMA OpenedLine ==
    ASSUME FdInv, NEW N, N \subseteq FreeFds(sfd), scripts' = scripts, DOMAIN sfd' = Fds,
           \A f \in Fds : sfd'[f] # Free <=> f \in N \/ sfd[f] # Free,
           PipeFds' \cup ExtraFds' = PipeFds \cup ExtraFds \cup N
    PROVE  FdInv'
<1>1. ScriptFds' = ScriptFds /\ N \subseteq Fds /\ N \cap Taken = {}
  BY DEF ScriptFds, FreeFds, FdInv, Taken
<1>2. Taken' = Taken \cup N
  <2>1. \A f \in Fds : f \in Taken' <=> f \in Taken \cup N
    BY DEF Taken, FdInv
  <2>2. Taken' \subseteq Fds /\ Taken \cup N \subseteq Fds
    BY <1>1 DEF Taken, FdInv
  <2> QED
    BY <2>1, <2>2
<1>3. Taken' = 0 .. 2 \cup ScriptFds \cup PipeFds' \cup ExtraFds'
  BY <1>2 DEF FdInv
<1>4. (PipeFds' \cup ExtraFds') \cap (0 .. 2 \cup ScriptFds) = {}
  BY <1>1 DEF FdInv
<1> QED
  BY <1>1, <1>3, <1>4 DEF FdInv

\* A step that leaves descriptors, scripts and the line's tables alone.
LEMMA SameFds ==
    ASSUME FdInv, sfd' = sfd, scripts' = scripts, sx'.pipes = sx.pipes, sx'.extra = sx.extra
    PROVE  FdInv'
<1>1. Taken' = Taken /\ ScriptFds' = ScriptFds
  BY DEF Taken, ScriptFds
<1>2. PipeFds' = PipeFds
  BY Zenon DEF PipeFds
<1>3. ExtraFds' = ExtraFds
  BY Zenon DEF ExtraFds
<1> QED
  BY <1>1, <1>2, <1>3 DEF FdInv

\* A step that leaves the children alone, and the number of them the line will wait for.
LEMMA CountSame ==
    ASSUME KidInv, kids' = kids, clocks' = clocks,
           Len(sx'.pids) + sx'.waits = Len(sx.pids) + sx.waits,
           Len(sx.pids) \in Nat, sx.waits \in Nat, Len(sx'.pids) \in Nat, sx'.waits \in Nat
    PROVE  KidInv'
<1>1. Alive' = Alive
  BY DEF Alive, Running, Dead
<1>2. clocks + Len(sx'.pids) + sx'.waits = clocks + Len(sx.pids) + sx.waits
  <2>1. clocks \in Nat
    BY DEF KidInv
  <2>2. PICK b : b = Len(sx.pids)
    OBVIOUS
  <2>3. PICK c : c = sx.waits
    OBVIOUS
  <2>4. PICK d : d = Len(sx'.pids)
    OBVIOUS
  <2>5. PICK e : e = sx'.waits
    OBVIOUS
  <2>6. b \in Nat /\ c \in Nat /\ d \in Nat /\ e \in Nat
    BY <2>2, <2>3, <2>4, <2>5
  <2>7. d + e = b + c
    BY <2>2, <2>3, <2>4, <2>5
  <2>8. clocks + d + e = clocks + b + c
    BY ONLY <2>1, <2>6, <2>7
  <2> QED
    BY <2>2, <2>3, <2>4, <2>5, <2>8
<1> QED
  BY <1>1, <1>2 DEF KidInv

\* The tables of the prompt are empty.
LEMMA PromptLine ==
    /\ LineOK(AtPrompt)
    /\ \A n \in Nat : LineOK([AtPrompt EXCEPT !.pc = "wait", !.waits = n])
    /\ \A st : LineOK([AtPrompt EXCEPT !.pc = "pipe", !.stages = st])
BY DEF LineOK, AtPrompt

\* The shell's steps that end a line or begin one.
LEMMA LineSteps ==
    ASSUME ShellInv, (\E line : run_line(line)) \/ abort_pipeline \/ CloseAll \/ Wait \/ RunProgram
    PROVE  ShellInv'
<1> USE DEF ShellInv
<1>t. /\ sx.pipes \in Seq(Fds \X Fds) /\ sx.extra \in Seq(Fds) /\ sx.pids \in Seq(Nat) /\ sx.waits \in Nat
      /\ Len(sx.pids) \in Nat
  BY DEF LineOK
<1>1. ASSUME NEW line, run_line(line)
      PROVE  ShellInv'
  <2>1. sx = AtPrompt /\ UNCHANGED <<sfd, kids, scripts, clocks>>
    BY <1>1 DEF run_line, LineOK
  <2>2. sx' = sx \/ sx' = [AtPrompt EXCEPT !.pc = "pipe", !.stages = parse(line).stages]
    BY <1>1 DEF run_line
  <2>3. LineOK(sx') /\ sx'.pipes = sx.pipes /\ sx'.extra = sx.extra /\ sx'.pids = sx.pids /\ sx'.waits = sx.waits
    BY <2>1, <2>2, PromptLine DEF AtPrompt
  <2> QED
    BY <1>t, <2>1, <2>3, SameFds, CountSame
<1>2. CASE abort_pipeline \/ CloseAll
  <2>1. /\ sfd' = Close(sfd, PipeFds \cup ExtraFds) /\ UNCHANGED <<scripts, clocks>>
        /\ sx' = [AtPrompt EXCEPT !.pc = "wait", !.waits = Len(sx.pids)] /\ sx.pc \in {"pipe", "abort"}
    BY <1>2 DEF abort_pipeline, CloseAll
  <2>2. /\ LineOK(sx') /\ sx'.pipes = <<>> /\ sx'.extra = <<>>
        /\ sx'.pids = <<>> /\ sx'.waits = Len(sx.pids) /\ sx.waits = 0
    BY <1>t, <2>1, PromptLine DEF AtPrompt, LineOK
  <2>3. DOMAIN kids' = 1 .. PROCS
        /\ \A s \in 1 .. PROCS : \/ kids'[s] = kids[s]
                                 \/ /\ s \in Running /\ kids'[s].st = "zombie"
                                    /\ {"name", "st", "in", "out"} \subseteq DOMAIN kids'[s]
    <3>1. CASE CloseAll
      BY <3>1 DEF CloseAll, KidInv
    <3>2. CASE abort_pipeline
      <4> DEFINE gone(s) == [NoKid EXCEPT !.name = kids[s].name, !.st = "zombie"]
      <4>1. \A s : gone(s).st = "zombie" /\ {"name", "st", "in", "out"} \subseteq DOMAIN gone(s)
        BY DEF NoKid
      <4>2. DOMAIN kids' = 1 .. PROCS /\ \A s \in 1 .. PROCS : kids'[s] = kids[s] \/ (s \in Running /\ kids'[s] = gone(s))
        BY <3>2 DEF abort_pipeline, KidInv
      <4> QED
        BY <4>1, <4>2
    <3> QED
      BY <1>2, <3>1, <3>2
  <2>4. Alive' = Alive /\ \A s \in 1 .. PROCS : /\ {"name", "st", "in", "out"} \subseteq DOMAIN kids'[s]
                                                /\ kids'[s].st \in {"none", "run", "zombie"}
    BY <2>3, SameKids
  <2>5. clocks + Len(sx'.pids) + sx'.waits = clocks + Len(sx.pids) + sx.waits
    BY <1>t, <2>2 DEF KidInv
  <2>6. KidInv'
    BY <2>1, <2>3, <2>4, <2>5 DEF KidInv
  <2> QED
    BY <2>1, <2>2, <2>6, ClosedLine
<1>3. CASE Wait /\ sx.waits = 0
  <2>1. sx' = AtPrompt /\ UNCHANGED <<sfd, kids, scripts, clocks>> /\ sx.pc = "wait"
    BY <1>3 DEF Wait, LineOK
  <2>2. LineOK(sx') /\ sx'.pipes = sx.pipes /\ sx'.extra = sx.extra /\ sx'.pids = sx.pids /\ sx'.waits = sx.waits
    BY <1>3, <2>1, PromptLine DEF AtPrompt, LineOK
  <2> QED
    BY <1>t, <2>1, <2>2, SameFds, CountSame
<1>4. CASE Wait /\ sx.waits # 0
  <2> PICK m : m = LowestOf(Dead)
    OBVIOUS
  <2>1. /\ kids' = [kids EXCEPT ![m] = NoKid] /\ sx' = [sx EXCEPT !.waits = @ - 1] /\ Dead # {}
        /\ sx.pc = "wait" /\ sx.waits > 0 /\ UNCHANGED <<sfd, scripts, clocks>>
    BY <1>4 DEF Wait
  <2>2. m \in Dead /\ m \in 1 .. PROCS
    <3>1. Dead \subseteq 1 .. PROCS /\ 1 .. PROCS \subseteq Nat
      BY ShellConstants DEF Dead, KidInv
    <3> QED
      BY <2>1, <3>1, LowestIn
  <2>3. \A s \in 1 .. PROCS : kids'[s] = IF s = m THEN NoKid ELSE kids[s]
    BY <2>1, <2>2 DEF KidInv
  <2>4. DOMAIN kids' = 1 .. PROCS
    BY <2>1 DEF KidInv
  <2>5. Alive' = Alive \ {m} /\ m \in Alive
    BY <2>2, <2>3, <2>4 DEF Alive, Running, Dead, KidInv, NoKid
  <2>6. IsFiniteSet(Alive)
    <3>1. Alive \subseteq 1 .. PROCS
      BY DEF Alive, Running, Dead, KidInv
    <3>2. IsFiniteSet(1 .. PROCS)
      BY FS_Interval, ShellConstants
    <3> QED
      BY <3>1, <3>2, FS_Subset
  <2>7. Cardinality(Alive') = Cardinality(Alive) - 1
    BY <2>5, <2>6, FS_RemoveElement
  <2>8. LineOK(sx') /\ sx'.pipes = sx.pipes /\ sx'.extra = sx.extra /\ sx'.pids = sx.pids /\ sx'.waits = sx.waits - 1
    BY <1>t, <2>1 DEF LineOK
  <2>9. KidInv'
    BY <1>t, <2>1, <2>3, <2>4, <2>7, <2>8 DEF KidInv, NoKid
  <2> QED
    BY <2>1, <2>8, <2>9, SameFds
<1>5. CASE RunProgram
  <2> PICK k : k = Kid("program", Tty, Tty)
    OBVIOUS
  <2>1. /\ sx = AtPrompt /\ Slots # {} /\ kids' = [kids EXCEPT ![LowestOf(Slots)] = k]
        /\ sx' = [AtPrompt EXCEPT !.pc = "wait", !.waits = 1] /\ UNCHANGED <<sfd, scripts, clocks>>
    BY <1>5 DEF RunProgram, LineOK
  <2>2. {"name", "st", "in", "out"} \subseteq DOMAIN k /\ k.st = "run"
    BY DEF Kid
  <2>3. LineOK(sx') /\ sx'.pipes = sx.pipes /\ sx'.extra = sx.extra /\ sx'.pids = sx.pids
        /\ sx'.waits = 1 /\ sx.waits = 0
    BY <2>1, PromptLine DEF AtPrompt
  <2>4. KidInv'
    <3>1. /\ DOMAIN kids' = 1 .. PROCS
          /\ \A s \in 1 .. PROCS : /\ {"name", "st", "in", "out"} \subseteq DOMAIN kids'[s]
                                   /\ kids'[s].st \in {"none", "run", "zombie"}
          /\ Cardinality(Alive') = Cardinality(Alive) + 1
      BY <2>1, <2>2, NewKid
    <3>2. clocks \in Nat /\ Cardinality(Alive) = clocks + Len(sx.pids) + 0
      BY <2>3 DEF KidInv
    <3>3. Cardinality(Alive') = clocks + Len(sx'.pids) + sx'.waits
      BY <1>t, <2>3, <3>1, <3>2
    <3> QED
      BY <2>1, <3>1, <3>2, <3>3 DEF KidInv
  <2> QED
    BY <2>1, <2>3, <2>4, SameFds
<1> QED
  BY <1>1, <1>2, <1>3, <1>4, <1>5


\* Free descriptors are descriptors; of two or more, the second least is one too.
LEMMA FreeFdFacts ==
    ASSUME FdInv
    PROVE  /\ FreeFds(sfd) \subseteq Fds /\ Fds \subseteq Nat /\ Cardinality(FreeFds(sfd)) \in Nat
           /\ Cardinality(FreeFds(sfd)) >= 1 => LowestOf(FreeFds(sfd)) \in FreeFds(sfd)
           /\ Cardinality(FreeFds(sfd)) >= 2 =>
                  LowestOf(FreeFds(sfd) \ {LowestOf(FreeFds(sfd))}) \in FreeFds(sfd) \ {LowestOf(FreeFds(sfd))}
<1> PICK F : F = FreeFds(sfd)
  OBVIOUS
<1>1. F \subseteq Fds /\ Fds \subseteq Nat
  BY ShellConstants DEF FreeFds, FdInv, Fds
<1>2. IsFiniteSet(F)
  <2>1. IsFiniteSet(Fds)
    BY FS_Interval, ShellConstants DEF Fds
  <2> QED
    BY <1>1, <2>1, FS_Subset
<1>3. Cardinality(F) \in Nat
  BY <1>2, FS_CardinalityType
<1>4. Cardinality(F) >= 1 => LowestOf(F) \in F
  <2>1. Cardinality(F) >= 1 => F # {}
    BY FS_EmptySet
  <2> QED
    BY <1>1, <2>1, LowestIn
<1>5. ASSUME Cardinality(F) >= 2
      PROVE  LowestOf(F \ {LowestOf(F)}) \in F \ {LowestOf(F)}
  <2> PICK a : a = LowestOf(F)
    OBVIOUS
  <2>1. a \in F
    BY <1>3, <1>4, <1>5
  <2>2. Cardinality(F \ {a}) = Cardinality(F) - 1
    BY <1>2, <2>1, FS_RemoveElement
  <2>3. F \ {a} # {}
    <3>1. Cardinality(F \ {a}) # 0
      BY <1>3, <1>5, <2>2
    <3> QED
      BY <3>1, FS_EmptySet
  <2>4. F \ {a} \subseteq Nat
    BY <1>1
  <2>5. LowestOf(F \ {a}) \in F \ {a}
    BY <2>3, <2>4, LowestIn
  <2> QED
    BY <2>5
<1> QED
  BY <1>1, <1>3, <1>4, <1>5

\* A pipe between two stages, or none and those made are closed.
LEMMA MakePipeStep ==
    ASSUME ShellInv, MakePipe
    PROVE  ShellInv'
<1> USE DEF ShellInv
<1>1. /\ sx.pc = "pipe" /\ Len(sx.pipes) < Len(sx.stages) - 1 /\ UNCHANGED <<kids, scripts, clocks>>
  BY DEF MakePipe
<1>t. /\ sx.pipes \in Seq(Fds \X Fds) /\ sx.extra \in Seq(Fds) /\ sx.pids \in Seq(Nat) /\ sx.waits = 0
      /\ sx.waits \in Nat /\ Len(sx.pids) \in Nat /\ Len(sx.pipes) \in Nat
  BY <1>1 DEF LineOK
<1>2. sx.extra = <<>> /\ sx.pids = <<>>
  BY <1>1, <1>t DEF LineOK
<1>3. CASE sfd' = Close(sfd, PipeFds) /\ sx' = AtPrompt
  <2>1. sfd' = Close(sfd, PipeFds \cup ExtraFds)
    BY <1>2, <1>3, NoLineFds
  <2>2. LineOK(sx') /\ sx'.pipes = <<>> /\ sx'.extra = <<>> /\ sx'.pids = sx.pids /\ sx'.waits = sx.waits
    BY <1>2, <1>3, <1>t, PromptLine DEF AtPrompt
  <2> QED
    BY <1>1, <1>t, <2>1, <2>2, ClosedLine, CountSame
<1>4. CASE ~(sfd' = Close(sfd, PipeFds) /\ sx' = AtPrompt)
  <2> PICK r : r = LowestOf(FreeFds(sfd))
    OBVIOUS
  <2> PICK w : w = LowestOf(FreeFds(sfd) \ {r})
    OBVIOUS
  <2> PICK p : p = LowestOf(IdlePipes)
    OBVIOUS
  <2>1. /\ Cardinality(FreeFds(sfd)) >= 2
        /\ sfd' = [sfd EXCEPT ![r] = Obj("r", p), ![w] = Obj("w", p)]
        /\ sx' = [sx EXCEPT !.pipes = Append(@, <<r, w>>)]
    BY <1>4, Zenon DEF MakePipe
  <2>2. r \in FreeFds(sfd) /\ w \in FreeFds(sfd) /\ r # w /\ r \in Fds /\ w \in Fds
    BY <2>1, FreeFdFacts
  <2>3. DOMAIN sfd' = Fds /\ \A f \in Fds : sfd'[f] # Free <=> f \in {r, w} \/ sfd[f] # Free
    BY <2>1, <2>2 DEF FdInv, Free, Obj
  <2>4. sx'.pipes = Append(sx.pipes, <<r, w>>) /\ <<r, w>> \in Fds \X Fds
    BY <2>1, <2>2 DEF LineOK
  <2>5. LineOK(sx') /\ sx'.extra = sx.extra /\ sx'.pids = sx.pids /\ sx'.waits = sx.waits
    BY <1>1, <1>2, <1>t, <2>1, <2>4, AppendElems DEF LineOK
  <2>6. PipeFds' = PipeFds \cup {r, w}
    <3>1. PipeFds = PairElems(sx.pipes) /\ PipeFds' = PairElems(Append(sx.pipes, <<r, w>>))
      BY <2>4, Zenon DEF PipeFds, PairElems
    <3>2. PairElems(Append(sx.pipes, <<r, w>>)) = PairElems(sx.pipes) \cup {r, w}
      <4>1. sx.pipes \in Seq(Fds \X Fds) /\ r \in Fds /\ w \in Fds
        BY <1>t, <2>2
      <4>2. \A q \in Seq(Fds \X Fds) : \A a, b \in Fds : PairElems(Append(q, <<a, b>>)) = PairElems(q) \cup {a, b}
        BY PairAppend
      <4>3. \A a, b \in Fds : PairElems(Append(sx.pipes, <<a, b>>)) = PairElems(sx.pipes) \cup {a, b}
        BY ONLY <4>1, <4>2
      <4>4. \A b \in Fds : PairElems(Append(sx.pipes, <<r, b>>)) = PairElems(sx.pipes) \cup {r, b}
        BY ONLY <4>1, <4>3
      <4> QED
        BY ONLY <4>1, <4>4
    <3> QED
      BY <3>1, <3>2, Zenon
  <2>7. ExtraFds' = ExtraFds
    BY <2>5, Zenon DEF ExtraFds
  <2>8. FdInv'
    <3>1. {r, w} \subseteq FreeFds(sfd) /\ PipeFds' \cup ExtraFds' = PipeFds \cup ExtraFds \cup {r, w}
      BY <2>2, <2>6, <2>7
    <3> QED
      BY <1>1, <2>3, <3>1, OpenedLine
  <2> QED
    BY <1>1, <1>t, <2>5, <2>8, CountSame
<1> QED
  BY <1>3, <1>4

\* A stage is started on its files, or the line is given up with those opened.
LEMMA StartStageStep ==
    ASSUME ShellInv, NEW got \in 0 .. 2, StartStage(got)
    PROVE  ShellInv'
<1> USE DEF ShellInv
<1> PICK a : a = LowestOf(FreeFds(sfd))
  OBVIOUS
<1> PICK opened : opened = CASE got = 0 -> <<>>
                             [] got = 1 -> <<a>>
                             [] got = 2 -> <<a, LowestOf(FreeFds(sfd) \ {a})>>
  OBVIOUS
<1> DEFINE N == {opened[k] : k \in DOMAIN opened}
<1>1. /\ sx.pc = "pipe" /\ Len(sx.pipes) = Len(sx.stages) - 1 /\ UNCHANGED <<scripts, clocks>>
      /\ got <= Cardinality(FreeFds(sfd))
      /\ sfd' = [f \in DOMAIN sfd |-> IF \E k \in DOMAIN opened : opened[k] = f THEN Obj("file", 0) ELSE sfd[f]]
  BY Zenon DEF StartStage
<1>2. \/ \E in, out : /\ Slots # {} /\ kids' = [kids EXCEPT ![LowestOf(Slots)] = Kid("stage", in, out)]
                      /\ sx' = [sx EXCEPT !.extra = @ \o opened, !.pids = Append(@, LowestOf(Slots))]
      \/ sx' = [sx EXCEPT !.extra = @ \o opened, !.pc = "abort"] /\ UNCHANGED kids
  BY Zenon DEF StartStage
<1>t. /\ sx.pipes \in Seq(Fds \X Fds) /\ sx.extra \in Seq(Fds) /\ sx.pids \in Seq(Nat) /\ sx.waits = 0
      /\ sx.waits \in Nat /\ Len(sx.pids) \in Nat /\ Len(sx.pipes) \in Nat
  BY <1>1 DEF LineOK
<1>3. opened \in Seq(Fds) /\ N \subseteq FreeFds(sfd)
  <2>1. CASE got = 0
    <3>1. opened = <<>>
      BY <2>1
    <3> QED
      BY <3>1
  <2>2. CASE got = 1
    <3>1. opened = <<a>> /\ a \in FreeFds(sfd) /\ a \in Fds
      BY <1>1, <2>2, FreeFdFacts
    <3>2. DOMAIN opened = {1} /\ opened[1] = a
      BY <3>1
    <3> QED
      BY <3>1, <3>2
  <2>3. CASE got = 2
    <3> PICK b : b = LowestOf(FreeFds(sfd) \ {a})
      OBVIOUS
    <3>1. opened = <<a, b>> /\ a \in FreeFds(sfd) /\ b \in FreeFds(sfd) /\ a \in Fds /\ b \in Fds
      BY <1>1, <2>3, FreeFdFacts
    <3>2. opened[1] = a /\ opened[2] = b /\ \A k \in DOMAIN opened : k = 1 \/ k = 2
      BY <3>1
    <3>3. opened \in Seq(Fds)
      BY <3>1
    <3> QED
      BY <3>1, <3>2, <3>3
  <2> QED
    BY <2>1, <2>2, <2>3
<1>4. DOMAIN sfd' = Fds /\ \A f \in Fds : sfd'[f] # Free <=> f \in N \/ sfd[f] # Free
  BY <1>1 DEF FdInv, Free, Obj
<1>5. sx'.extra = sx.extra \o opened /\ sx'.pipes = sx.pipes /\ sx'.waits = sx.waits
  BY <1>2 DEF LineOK
<1>6. FdInv'
  <2>1. PipeFds' = PipeFds
    BY <1>5, Zenon DEF PipeFds
  <2>2. ExtraFds' = ExtraFds \cup N
    <3>1. Elems(sx.extra \o opened) = Elems(sx.extra) \cup Elems(opened)
      BY <1>t, <1>3, ConcatElems
    <3>2. ExtraFds' = Elems(sx.extra \o opened) /\ ExtraFds = Elems(sx.extra) /\ N = Elems(opened)
      BY <1>5, Zenon DEF ExtraFds, Elems
    <3> QED
      BY <3>1, <3>2, Zenon
  <2>3. PipeFds' \cup ExtraFds' = PipeFds \cup ExtraFds \cup N
    BY <2>1, <2>2
  <2> HIDE DEF N
  <2> QED
    BY <1>1, <1>3, <1>4, <2>3, OpenedLine
<1>7. sx'.extra \in Seq(Fds)
  BY <1>t, <1>3, <1>5, ConcatElems
<1>8. CASE sx' = [sx EXCEPT !.extra = @ \o opened, !.pc = "abort"] /\ UNCHANGED kids
  <2>1. LineOK(sx') /\ sx'.pids = sx.pids
    BY <1>t, <1>5, <1>7, <1>8 DEF LineOK
  <2> QED
    BY <1>1, <1>5, <1>6, <1>8, <1>t, <2>1, CountSame
<1>9. ASSUME NEW in, NEW out, Slots # {}, kids' = [kids EXCEPT ![LowestOf(Slots)] = Kid("stage", in, out)],
             sx' = [sx EXCEPT !.extra = @ \o opened, !.pids = Append(@, LowestOf(Slots))]
      PROVE  ShellInv'
  <2> PICK k : k = Kid("stage", in, out)
    OBVIOUS
  <2>1. {"name", "st", "in", "out"} \subseteq DOMAIN k /\ k.st = "run"
    BY DEF Kid
  <2>2. /\ DOMAIN kids' = 1 .. PROCS
        /\ \A s \in 1 .. PROCS : /\ {"name", "st", "in", "out"} \subseteq DOMAIN kids'[s]
                                 /\ kids'[s].st \in {"none", "run", "zombie"}
        /\ Cardinality(Alive') = Cardinality(Alive) + 1
    BY <1>9, <2>1, NewKid
  <2>3. LowestOf(Slots) \in Nat
    <3>1. Slots \subseteq 1 .. PROCS /\ 1 .. PROCS \subseteq Nat
      BY ShellConstants DEF Slots, KidInv
    <3> QED
      BY <1>9, <3>1, LowestIn
  <2>4. sx'.pids = Append(sx.pids, LowestOf(Slots)) /\ sx'.pc = "pipe"
    BY <1>1, <1>9 DEF LineOK
  <2>5. sx'.pids \in Seq(Nat) /\ Len(sx'.pids) = Len(sx.pids) + 1
    BY <1>t, <2>3, <2>4
  <2>6. sx'.stages = sx.stages /\ {"pc", "stages", "pipes", "extra", "pids", "waits"} \subseteq DOMAIN sx'
    BY <1>9 DEF LineOK
  <2>7. LineOK(sx')
    BY <1>1, <1>t, <1>5, <1>7, <2>4, <2>5, <2>6 DEF LineOK
  <2>8. clocks \in Nat /\ Cardinality(Alive) = clocks + Len(sx.pids) + 0
    BY <1>t DEF KidInv
  <2>9. Cardinality(Alive') = clocks + Len(sx'.pids) + sx'.waits
    BY <1>t, <1>5, <2>2, <2>5, <2>8
  <2>10. KidInv'
    BY <1>1, <2>2, <2>8, <2>9 DEF KidInv
  <2> QED
    BY <1>6, <2>7, <2>10
<1> QED
  BY <1>2, <1>8, <1>9


\* A script is opened or comes to its end, and its descriptor with it.
LEMMA SourceSteps ==
    ASSUME ShellInv, SourceOpen \/ SourceEnd
    PROVE  ShellInv'
<1> USE DEF ShellInv
<1>1. sx.pc = "prompt" /\ UNCHANGED <<kids, sx, clocks>>
  BY DEF SourceOpen, SourceEnd
<1>2. /\ sx = AtPrompt /\ sx.waits \in Nat /\ Len(sx.pids) \in Nat
  BY <1>1 DEF LineOK
<1>3. KidInv' /\ LineOK(sx')
  BY <1>1, <1>2, CountSame
<1>4. PipeFds = {} /\ ExtraFds = {} /\ PipeFds' = {} /\ ExtraFds' = {}
  <2>1. sx.pipes = <<>> /\ sx.extra = <<>> /\ sx'.pipes = <<>> /\ sx'.extra = <<>>
    BY <1>1, <1>2 DEF AtPrompt
  <2> QED
    BY <2>1, NoLineFds, NoLineFdsNext
<1>5. /\ DOMAIN sfd = Fds /\ scripts \in Seq(Fds) /\ Len(scripts) \in Nat /\ DOMAIN scripts = 1 .. Len(scripts)
      /\ Taken = 0 .. 2 \cup ScriptFds /\ ScriptFds \cap (0 .. 2) = {}
      /\ \A i, j \in DOMAIN scripts : scripts[i] = scripts[j] => i = j
  BY <1>4 DEF FdInv
<1>6. ASSUME DOMAIN sfd' = Fds, scripts' \in Seq(Fds), Taken' = 0 .. 2 \cup ScriptFds',
             ScriptFds' \cap (0 .. 2) = {},
             \A i, j \in DOMAIN scripts' : scripts'[i] = scripts'[j] => i = j
      PROVE  ShellInv'
  BY <1>3, <1>4, <1>6 DEF FdInv
<1>7. CASE SourceOpen
  <2> PICK f : f = LowestOf(FreeFds(sfd))
    OBVIOUS
  <2>1. /\ FreeFds(sfd) # {} /\ sfd' = [sfd EXCEPT ![f] = Obj("file", 0)] /\ scripts' = Append(scripts, f)
    BY <1>7 DEF SourceOpen
  <2>2. f \in FreeFds(sfd) /\ f \in Fds
    BY <2>1, FreeFdFacts, LowestIn
  <2>3. DOMAIN sfd' = Fds /\ \A g \in Fds : sfd'[g] # Free <=> g = f \/ sfd[g] # Free
    BY <1>5, <2>1, <2>2 DEF Free, Obj
  <2>4. Taken' = Taken \cup {f} /\ f \notin Taken
    BY <1>5, <2>2, <2>3 DEF Taken, FreeFds
  <2>5. /\ scripts' \in Seq(Fds) /\ DOMAIN scripts' = DOMAIN scripts \cup {Len(scripts) + 1}
        /\ scripts'[Len(scripts) + 1] = f /\ \A i \in DOMAIN scripts : scripts'[i] = scripts[i]
    BY <1>5, <2>1, <2>2, AppendElems
  <2>6. ScriptFds' = ScriptFds \cup {f}
    BY <2>5 DEF ScriptFds
  <2>7. \A i \in DOMAIN scripts : scripts[i] # f
    BY <1>5, <2>4 DEF ScriptFds
  <2>8. \A i, j \in DOMAIN scripts' : scripts'[i] = scripts'[j] => i = j
    BY <1>5, <2>5, <2>7
  <2>9. Taken' = 0 .. 2 \cup ScriptFds' /\ ScriptFds' \cap (0 .. 2) = {}
    BY <1>5, <2>4, <2>6
  <2> QED
    BY <1>6, <2>3, <2>5, <2>8, <2>9
<1>8. CASE SourceEnd
  <2> PICK n : n = Len(scripts)
    OBVIOUS
  <2> PICK f : f = scripts[n]
    OBVIOUS
  <2>1. scripts # <<>> /\ sfd' = Close(sfd, {f}) /\ scripts' = SubSeq(scripts, 1, n - 1)
    BY <1>8 DEF SourceEnd, Last, Front
  <2>2. n \in Nat \ {0} /\ n \in DOMAIN scripts
    BY <1>5, <2>1
  <2>3. /\ scripts' \in Seq(Fds) /\ DOMAIN scripts' = 1 .. n - 1
        /\ \A i \in 1 .. n - 1 : scripts'[i] = scripts[i]
    BY <1>5, <2>1, <2>2
  <2>4. DOMAIN sfd' = Fds /\ \A g \in Fds : sfd'[g] = IF g = f THEN Free ELSE sfd[g]
    BY <1>5, <2>1 DEF Close
  <2>5. Taken' = Taken \ {f}
    BY <1>5, <2>4 DEF Taken
  <2>6. \A i \in DOMAIN scripts : i = n \/ (i \in 1 .. n - 1 /\ scripts[i] # f)
    BY <1>5, <2>2
  <2>7. ScriptFds' = ScriptFds \ {f}
    <3>1. \A i \in 1 .. n - 1 : i \in DOMAIN scripts /\ scripts[i] # f
      BY <1>5, <2>2
    <3>2. ScriptFds' \subseteq ScriptFds \ {f}
      BY <2>3, <3>1 DEF ScriptFds
    <3>3. ScriptFds \ {f} \subseteq ScriptFds'
      BY <2>3, <2>6 DEF ScriptFds
    <3> QED
      BY <3>2, <3>3
  <2>8. f \in ScriptFds
    BY <2>2 DEF ScriptFds
  <2>9. Taken' = 0 .. 2 \cup ScriptFds' /\ ScriptFds' \cap (0 .. 2) = {}
    BY <1>5, <2>5, <2>7, <2>8
  <2>10. \A i, j \in DOMAIN scripts' : scripts'[i] = scripts'[j] => i = j
    BY <1>5, <2>2, <2>3
  <2> QED
    BY <1>6, <2>3, <2>4, <2>9, <2>10
<1> QED
  BY <1>7, <1>8

\* A clock is started, or a child ends.
LEMMA KidSteps ==
    ASSUME ShellInv, cmd_clock \/ \E s \in 1 .. PROCS : KidExit(s) \/ KidQuits(s)
    PROVE  ShellInv'
<1> USE DEF ShellInv
<1>1. UNCHANGED <<sfd, sx, scripts>>
  BY DEF cmd_clock, KidExit, KidQuits, KidEnds
<1>2. FdInv' /\ LineOK(sx')
  BY <1>1, SameFds
<1>t. sx.waits \in Nat /\ Len(sx.pids) \in Nat
  BY DEF LineOK
<1>3. CASE cmd_clock
  <2> PICK k : k = Kid("clock", Tty, Tty)
    OBVIOUS
  <2>1. Slots # {} /\ kids' = [kids EXCEPT ![LowestOf(Slots)] = k] /\ clocks' = clocks + 1
    BY <1>3 DEF cmd_clock
  <2>2. {"name", "st", "in", "out"} \subseteq DOMAIN k /\ k.st = "run"
    BY DEF Kid
  <2>3. /\ DOMAIN kids' = 1 .. PROCS
        /\ \A s \in 1 .. PROCS : /\ {"name", "st", "in", "out"} \subseteq DOMAIN kids'[s]
                                 /\ kids'[s].st \in {"none", "run", "zombie"}
        /\ Cardinality(Alive') = Cardinality(Alive) + 1
    BY <2>1, <2>2, NewKid
  <2>4. clocks \in Nat /\ Cardinality(Alive) = clocks + Len(sx.pids) + sx.waits
    BY DEF KidInv
  <2>5. clocks' \in Nat /\ Cardinality(Alive') = clocks' + Len(sx.pids) + sx.waits
    <3> PICK n : n = Len(sx.pids)
      OBVIOUS
    <3> PICK m : m = sx.waits
      OBVIOUS
    <3>1. n \in Nat /\ m \in Nat
      BY <1>t
    <3>2. Cardinality(Alive') = clocks + n + m + 1 /\ clocks' = clocks + 1 /\ clocks \in Nat
      BY <2>1, <2>3, <2>4
    <3>3. clocks' \in Nat /\ Cardinality(Alive') = clocks' + n + m
      BY ONLY <3>1, <3>2
    <3> QED
      BY <3>3
  <2>6. KidInv'
    BY <1>1, <2>3, <2>5 DEF KidInv
  <2> QED
    BY <1>2, <2>6
<1>4. ASSUME NEW s \in 1 .. PROCS, s \in Running, KidEnds(s)
      PROVE  ShellInv'
  <2>1. /\ kids' = [kids EXCEPT ![s] = [@ EXCEPT !.st = "zombie", !.in = Tty, !.out = Tty]] /\ clocks' = clocks
    BY <1>4 DEF KidEnds
  <2>2. DOMAIN kids' = 1 .. PROCS /\ \A t \in 1 .. PROCS : t # s => kids'[t] = kids[t]
    BY <2>1 DEF KidInv
  <2>3. kids'[s].st = "zombie" /\ {"name", "st", "in", "out"} \subseteq DOMAIN kids'[s]
    BY <1>4, <2>1 DEF KidInv
  <2>4. Alive' = Alive /\ \A t \in 1 .. PROCS : /\ {"name", "st", "in", "out"} \subseteq DOMAIN kids'[t]
                                                /\ kids'[t].st \in {"none", "run", "zombie"}
    BY <1>4, <2>2, <2>3, SameKids
  <2>5. KidInv'
    BY <1>1, <2>1, <2>2, <2>4 DEF KidInv
  <2> QED
    BY <1>2, <2>5
<1> QED
  BY <1>3, <1>4 DEF KidExit, KidQuits

\* At every prompt the shell holds the standard descriptors and its scripts', and has as
\* many children as clocks were started, whatever failed on the lines before: pipes,
\* descriptors or slots running out, files that do not open, programs that end early
\* (exec.rs, main.rs).  Lines, tables and limits are arbitrary.
THEOREM ShellPromptClean == ShellSpec => []PromptClean
<1>1. ShellInit => ShellInv
  <2> SUFFICES ASSUME ShellInit PROVE ShellInv
    OBVIOUS
  <2> USE ShellConstants DEF ShellInit
  <2>1. LineOK(sx) /\ sx.pipes = <<>> /\ sx.extra = <<>> /\ sx.pids = <<>> /\ sx.waits = 0
    BY PromptLine DEF AtPrompt
  <2>2. DOMAIN sfd = Fds /\ \A f \in Fds : sfd[f] = IF f < 3 THEN Tty ELSE Free
    BY DEF Fds
  <2>3. Taken = 0 .. 2
    BY <2>2 DEF Taken, Tty, Free, Obj, Fds
  <2>4. ScriptFds = {} /\ PipeFds = {} /\ ExtraFds = {}
    BY <2>1, NoLineFds DEF ScriptFds
  <2>5. FdInv
    BY <2>2, <2>3, <2>4 DEF FdInv
  <2>6. DOMAIN kids = 1 .. PROCS /\ \A s \in 1 .. PROCS : kids[s] = NoKid
    OBVIOUS
  <2>7. Alive = {}
    BY <2>6 DEF Alive, Running, Dead, NoKid
  <2>8. Cardinality(Alive) = clocks + Len(sx.pids) + sx.waits
    BY <2>1, <2>7, FS_EmptySet
  <2>9. KidInv
    BY <2>6, <2>8 DEF KidInv, NoKid
  <2> QED
    BY <2>1, <2>5, <2>9 DEF ShellInv
<1>2. ShellInv /\ [ShellNext]_shellVars => ShellInv'
  <2> SUFFICES ASSUME ShellInv, [ShellNext]_shellVars PROVE ShellInv'
    OBVIOUS
  <2>1. CASE UNCHANGED shellVars
    <3>1. UNCHANGED <<sfd, kids, sx, scripts, clocks>> /\ sx.waits \in Nat /\ Len(sx.pids) \in Nat
      BY <2>1 DEF shellVars, ShellInv, LineOK
    <3> QED
      BY <3>1, SameFds, CountSame DEF ShellInv
  <2> QED
    BY <2>1, LineSteps, MakePipeStep, StartStageStep, SourceSteps, KidSteps DEF ShellNext, ShellStep
<1>3. ShellInv => PromptClean
  <2> SUFFICES ASSUME ShellInv, sx.pc = "prompt"
               PROVE  /\ Taken = 0 .. 2 \cup ScriptFds
                      /\ Cardinality(Running \cup Dead) = clocks
    BY DEF PromptClean, Taken, ScriptFds
  <2>1. sx.pipes = <<>> /\ sx.extra = <<>> /\ Len(sx.pids) = 0 /\ sx.waits = 0
    BY DEF ShellInv, LineOK, AtPrompt
  <2> QED
    BY <2>1, NoLineFds DEF ShellInv, FdInv, KidInv, Alive
<1> QED
  BY <1>1, <1>2, <1>3, PTL DEF ShellSpec

=============================================================================
