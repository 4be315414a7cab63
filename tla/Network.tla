------------------------------ MODULE Network ------------------------------
(***************************************************************************)
(* net/mod.rs with dhcp.rs, dns.rs, http.rs and tls.rs: one network call   *)
(* at a time under the NET lock, each a sequence of loops that poll until  *)
(* an answer or a timeout.  smoltcp and rustls are external: they are the  *)
(* sockets, and what a poll may bring.                                     *)
(***************************************************************************)
EXTENDS Integers, Sequences

CONSTANTS
    HostNames,          \* names to resolve; "lit" is an IPv4 literal
    Lower,              \* the name in lower case: [HostNames -> HostNames]
    CACHE_CAP,          \* slots of the DNS cache
    PING_COUNT,
    BODY_CAP, SLACK,    \* bytes kept of a response: BODY_CAP + SLACK (2048 in the code)
    LOCAL_PORTS,        \* number of local ports, FIRST_LOCAL_PORT is 0
    Responses           \* what servers answer: [length : content length or NoLength, body : bytes]

NoLength == -1
HEAD == 1               \* a response's head is one byte here; the body follows

ASSUME NetworkConstants ==
    /\ {CACHE_CAP, PING_COUNT, BODY_CAP, LOCAL_PORTS} \subseteq Nat \ {0}
    /\ SLACK \in Nat /\ SLACK >= HEAD
    /\ Responses \subseteq [length : Nat \cup {NoLength}, body : Nat]
    /\ HostNames \cap {"none", "lit"} = {}
    /\ Lower \in [HostNames -> HostNames] /\ \A n \in HostNames : Lower[Lower[n]] = Lower[n]

VARIABLES
    netcfg,     \* lease, and what the interface is set to: [lease, addr, route, servers, has_dns]
    cache,      \* DNS cache: [slots, next]
    query,      \* the one query slot of the DNS socket: NoQuery, or [name, st]
    tcp,        \* the TCP socket: [st, port, rx]
    next_port,
    conns,      \* connections as servers see them: [next, of], see Connect
    echoes,     \* echo replies under way or in the ICMP socket
    ncall,      \* the call in progress
    NET,        \* the lock: "free" or "held"
    nret        \* what the last call returned

netVars == <<netcfg, cache, query, tcp, next_port, conns, echoes, ncall, NET, nret>>

NoCall == [pc |-> "idle"]
NoQuery == [name |-> "none", st |-> "none"]

----------------------------------------------------------------------------
\* dhcp.rs

Unset == "none"
\* The router and the servers are optional in a lease.
apply_configured(ip, router, servers) ==
    netcfg' = [lease |-> "Leased", addr |-> ip, route |-> router, servers |-> servers, has_dns |-> servers]

Deconfigured == [lease |-> "Discovering", addr |-> Unset, route |-> Unset, servers |-> FALSE, has_dns |-> FALSE]
apply_deconfigured == netcfg' = Deconfigured

StaticConfig == [lease |-> "Static", addr |-> "OUR_IP", route |-> "GATEWAY", servers |-> FALSE, has_dns |-> FALSE]

\* on_poll: every poll of every loop may bring a DHCP event, and so may the poll of
\* kmain between calls, which takes the lock; the loop that waits for a lease looks
\* after each.
on_poll ==
    /\ \/ ncall.pc \in {"lease", "dns", "echo", "http", "tls"}
       \/ ncall.pc = "idle" /\ NET = "free"
    /\ ncall.pc = "lease" => netcfg.lease = "Discovering"
    /\ \/ \E full \in BOOLEAN : apply_configured("leased_ip", IF full THEN "router" ELSE Unset, full)
       \/ apply_deconfigured
    /\ UNCHANGED <<cache, query, tcp, next_port, conns, echoes, ncall, NET, nret>>

----------------------------------------------------------------------------
\* dns.rs: the cache is a ring; lookup ignores case, store keeps the lower case.

lookup(name) == \E i \in DOMAIN cache.slots : cache.slots[i] # Unset /\ Lower[cache.slots[i]] = Lower[name]

store(name) == cache' = [slots |-> [cache.slots EXCEPT ![cache.next] = Lower[name]],
                         next  |-> (cache.next + 1) % CACHE_CAP]

----------------------------------------------------------------------------
\* Ends of a call: the guard of NET is dropped.
NetReturn(r) == ncall' = NoCall /\ NET' = "free" /\ nret' = r
Fails(e) == NetReturn([ok |-> FALSE, err |-> e])
abort_tcp == tcp' = [tcp EXCEPT !.st = "Closed", !.rx = <<>>]

\* send_echo: the echo of a round, whose reply may be lost; it fails when the socket's
\* buffer is full.  left are the replies that stay in the socket.
SendEcho(c, seq, left) ==
    \/ /\ ncall' = [c EXCEPT !.pc = "echo", !.seq = seq]
       /\ echoes' \in {left, left \cup {seq}}
       /\ UNCHANGED <<NET, nret>>
    \/ Fails("Failed") /\ echoes' = left

\* The rest of http_get up to its loop: the next local port, and connect, which needs a
\* closed socket.  The server answers with some response.  tls_get may refuse the name
\* or its own certificates, and leaves the socket as it is.
Advance_slip(p) == p
Advance(p) == IF p = LOCAL_PORTS - 1 THEN 0 ELSE p + 1

NoConn == [port |-> -1, resp |-> "none", left |-> 0]

\* Connections have numbers, which come round after LOCAL_PORTS of them: a server of an
\* earlier call that still has something to send has given up by then.
WithConn(id, k) ==
    [next |-> (id + 1) % LOCAL_PORTS,
     of   |-> [i \in 0 .. LOCAL_PORTS - 1 |->
                  IF i = id THEN k ELSE IF conns.of[i].left > 0 THEN conns.of[i] ELSE NoConn]]

Connect(c, resp) ==
    LET bytes == HEAD + resp.body + (IF c.scheme = "https" THEN 1 ELSE 0)
        k == [port |-> next_port, resp |-> resp, left |-> bytes]
    IN  /\ next_port' = Advance(next_port)
        /\ IF tcp.st # "Closed" THEN Fails("Failed") /\ UNCHANGED <<tcp, conns>>
           ELSE /\ tcp' = [st |-> "SynSent", port |-> next_port, rx |-> <<>>]
                /\ conns' = WithConn(c.id, k)
                /\ \/ ncall' = [c EXCEPT !.pc = IF c.scheme = "http" THEN "http" ELSE "tls"]
                      /\ UNCHANGED <<NET, nret>>
                   \/ c.scheme = "https" /\ Fails("Https")

\* After the address is known; the name is not needed any more.
HaveAddress(call) ==
    LET c == [call EXCEPT !.host = "lit"]
    IN  \/ /\ c.op = "ping" /\ SendEcho(c, 0, echoes) /\ UNCHANGED <<tcp, next_port, conns>>
        \/ /\ c.op = "get" /\ (\E resp \in Responses : Connect(c, resp)) /\ UNCHANGED echoes

\* dns_resolve: refused without a server; else the cache, else a query, which needs the slot.
dns_resolve ==
    /\ ncall.pc = "dns_resolve"
    /\ \/ /\ ncall.host # "lit" => netcfg.has_dns /\ lookup(ncall.host)
          /\ HaveAddress(ncall) /\ UNCHANGED <<cache, query>>
       \/ /\ ncall.host # "lit" /\ (~netcfg.has_dns \/ (~lookup(ncall.host) /\ query # NoQuery))
          /\ Fails("Failed") /\ UNCHANGED <<cache, query, tcp, next_port, conns, echoes>>
       \/ /\ ncall.host # "lit" /\ netcfg.has_dns /\ ~lookup(ncall.host) /\ query = NoQuery
          /\ query' = [name |-> ncall.host, st |-> "pending"]
          /\ ncall' = [ncall EXCEPT !.pc = "dns"]
          /\ UNCHANGED <<cache, tcp, next_port, conns, echoes, NET, nret>>
    /\ UNCHANGED netcfg

\* ping_target and http_get up to ensure_lease; every
\* call takes the lock first.
Begin(op, host, scheme, id) ==
    /\ ncall.pc = "idle" /\ NET = "free"
    /\ NET' = "held"
    /\ ncall' = [pc |-> "lease", op |-> op, host |-> host, scheme |-> scheme, id |-> id,
                 seq |-> 0, replies |-> 0, sent |-> FALSE, rx |-> <<>>,
                 tls |-> "hello", out |-> FALSE]
    /\ nret' = [ok |-> FALSE, err |-> "running"]
    /\ UNCHANGED <<netcfg, cache, query, tcp, next_port, conns, echoes>>

\* sys_net_ping and sys_http_get refuse bad arguments before they take the lock.
BadArgs ==
    /\ ncall.pc = "idle"
    /\ nret' = [ok |-> FALSE, err |-> "refused"]
    /\ UNCHANGED <<netcfg, cache, query, tcp, next_port, conns, echoes, ncall, NET>>

\* close_tcp, in get only: an open socket is aborted, and abort closes it at once.
Leased == /\ ncall' = [ncall EXCEPT !.pc = "dns_resolve"]
          /\ IF ncall.op = "get" THEN abort_tcp ELSE UNCHANGED tcp

\* ensure_lease: waits while there is none; when the time is over, the static address.
ensure_lease ==
    /\ ncall.pc = "lease" /\ netcfg.lease # "Discovering"
    /\ Leased
    /\ UNCHANGED <<netcfg, cache, query, next_port, conns, echoes, NET, nret>>

apply_static ==
    /\ ncall.pc = "lease" /\ netcfg.lease = "Discovering"
    /\ netcfg' = StaticConfig /\ Leased
    /\ UNCHANGED <<cache, query, next_port, conns, echoes, NET, nret>>

\* The answer to the query, or its failure, arrives with a poll.
DnsAnswer ==
    /\ query.st = "pending" /\ ncall.pc = "dns"
    /\ \E st \in {"ok", "empty", "failed"} : query' = [query EXCEPT !.st = st]
    /\ UNCHANGED <<netcfg, cache, tcp, next_port, conns, echoes, ncall, NET, nret>>

\* get_query_result frees the slot unless the query is pending.
resolve_result ==
    /\ ncall.pc = "dns" /\ query.st # "pending"
    /\ query' = NoQuery
    /\ \/ query.st = "ok" /\ store(ncall.host) /\ HaveAddress(ncall)
       \/ /\ query.st \in {"empty", "failed"} /\ Fails("Failed")
          /\ UNCHANGED <<cache, tcp, next_port, conns, echoes>>
    /\ UNCHANGED netcfg

DnsTimeout_slip ==
    /\ ncall.pc = "dns" /\ query.st = "pending" /\ Fails("Failed")
    /\ UNCHANGED <<netcfg, cache, query, tcp, next_port, conns, echoes>>

DnsTimeout ==
    /\ ncall.pc = "dns" /\ query.st = "pending"
    /\ query' = NoQuery /\ Fails("Failed")
    /\ UNCHANGED <<netcfg, cache, tcp, next_port, conns, echoes>>

----------------------------------------------------------------------------
\* ping_locked: a reply counts when its number is this round's, others are dropped.

NextEcho(replies, left) ==
    IF ncall.seq + 1 = PING_COUNT
    THEN NetReturn([ok |-> TRUE, op |-> "ping", replies |-> replies]) /\ echoes' = left
    ELSE SendEcho([ncall EXCEPT !.replies = replies], ncall.seq + 1, left)

take_echo_reply ==
    /\ ncall.pc = "echo"
    /\ \/ ncall.seq \in echoes /\ NextEcho(ncall.replies + 1, echoes \ {ncall.seq})
       \/ /\ \E other \in echoes \ {ncall.seq} : echoes' = echoes \ {other}
          /\ UNCHANGED <<ncall, NET, nret>>
    /\ UNCHANGED <<netcfg, cache, query, tcp, next_port, conns>>

EchoTimeout ==
    /\ ncall.pc = "echo" /\ NextEcho(ncall.replies, echoes)
    /\ UNCHANGED <<netcfg, cache, query, tcp, next_port, conns>>

----------------------------------------------------------------------------
\* smoltcp's TCP socket, as far as the loops look at it.

is_open == tcp.st # "Closed"
may_send == tcp.st \in {"Est", "CloseWait"}
can_recv == tcp.rx # <<>>
may_recv(rx) == tcp.st = "Est" \/ rx # <<>>

\* A poll delivers the next segment of a connection whose port is the socket's: the
\* handshake, one byte of the response, its end, or a reset.  Bytes carry the
\* connection they are of.
Asked == IF ncall.pc = "http" THEN ncall.sent ELSE ncall.tls \in {"wait", "traffic"} /\ ~ncall.out
TcpSegment(i) ==
    LET k == conns.of[i]
        Ours == i = ncall.id
    IN  /\ ncall.pc \in {"http", "tls"} /\ k.port = tcp.port /\ is_open
        /\ \/ /\ tcp.st = "SynSent" /\ Ours
              /\ tcp' = [tcp EXCEPT !.st = "Est"] /\ UNCHANGED conns
           \/ /\ tcp.st = "Est" /\ k.left > 0 /\ (Ours => Asked) /\ Len(tcp.rx) < 2
              /\ (ncall.pc = "tls" /\ ncall.tls = "wait" /\ Ours => tcp.rx = <<>>)
              /\ tcp' = [tcp EXCEPT !.rx = Append(@, i)] /\ conns' = [conns EXCEPT !.of[i].left = @ - 1]
           \/ /\ tcp.st = "Est" /\ k.left = 0 /\ Ours
              /\ tcp' = [tcp EXCEPT !.st = "CloseWait"] /\ UNCHANGED conns
           \/ Ours /\ tcp' = [tcp EXCEPT !.st = "Closed"] /\ UNCHANGED conns
        /\ UNCHANGED <<netcfg, cache, query, next_port, echoes, ncall, NET, nret>>

ServerOf(id) == conns.of[id]
Take(s, n) == SubSeq(s, 1, IF n < Len(s) THEN n ELSE Len(s))
Body(rx) == SubSeq(rx, HEAD + 1, Len(rx))
Want(n) == IF n < BODY_CAP THEN n ELSE BODY_CAP
GotBody(b, closed) ==
    NetReturn([ok |-> TRUE, op |-> "get", scheme |-> ncall.scheme, id |-> ncall.id, body |-> b,
            resp |-> ServerOf(ncall.id).resp, closed |-> closed])

\* One turn of http_get's loop after the time check.  A response whose head gives no
\* length ends with the connection; one that gives a length needs that many bytes.
http_step ==
    LET dead == ~is_open
        sent == ncall.sent \/ may_send
        rx   == Take(ncall.rx \o tcp.rx, BODY_CAP + SLACK)
        recv_done == (sent \/ dead) /\ ~may_recv(<<>>)
        head == Len(rx) >= HEAD
        len  == ServerOf(ncall.id).resp.length
    IN  /\ ncall.pc = "http"
        /\ \/ dead /\ ~sent /\ abort_tcp /\ Fails("Failed")
           \/ /\ ~(dead /\ ~sent) /\ ~head /\ recv_done
              /\ abort_tcp /\ Fails("Failed")
           \/ /\ ~(dead /\ ~sent) /\ head /\ len # NoLength /\ Len(Body(rx)) >= Want(len)
              /\ abort_tcp /\ GotBody(Take(Body(rx), Want(len)), recv_done)
           \/ /\ ~(dead /\ ~sent) /\ head /\ len = NoLength /\ recv_done
              /\ abort_tcp /\ GotBody(Take(Body(rx), BODY_CAP), ~dead)
           \/ /\ ~(dead /\ ~sent)
              /\ IF head THEN IF len = NoLength THEN ~recv_done ELSE Len(Body(rx)) < Want(len)
                 ELSE ~recv_done
              /\ ncall' = [ncall EXCEPT !.sent = sent, !.rx = rx]
              /\ tcp' = [tcp EXCEPT !.rx = <<>>] /\ UNCHANGED <<NET, nret>>
        /\ UNCHANGED <<netcfg, cache, query, next_port, conns, echoes>>

\* One turn of tls_get's loop: send what is pending, receive, and, with nothing left to
\* send, one step of rustls.  tls is how far the session is: "hello" before the first
\* message, "wait" for the server's first bytes, "ready" to send the request, "traffic"
\* after it.
tls_step ==
    LET stuck == ncall.out /\ ~is_open
        out   == ncall.out /\ ~may_send
        Go(c) == ncall' = c /\ tcp' = [tcp EXCEPT !.rx = <<>>] /\ UNCHANGED <<NET, nret>>
        len   == ServerOf(ncall.id).resp.length
        rx    == Take(ncall.rx \o tcp.rx, BODY_CAP + SLACK)
        full  == Len(rx) >= HEAD /\ len # NoLength /\ Len(Body(rx)) >= Want(len)
    IN  /\ ncall.pc = "tls"
        /\ \/ stuck /\ abort_tcp /\ Fails("Failed")
           \/ ~stuck /\ out /\ ncall' = ncall /\ UNCHANGED <<tcp, NET, nret>>
           \/ /\ ~stuck /\ ~out
              /\ \/ abort_tcp /\ Fails("Https")                     \* a record rustls refuses
                 \/ ncall.tls = "hello" /\ Go([ncall EXCEPT !.out = TRUE, !.tls = "wait"])
                 \/ ncall.tls = "wait" /\ tcp.rx = <<>> /\ Go([ncall EXCEPT !.out = FALSE])
                 \/ ncall.tls = "wait" /\ tcp.rx # <<>> /\ Go([ncall EXCEPT !.out = TRUE, !.tls = "ready"])
                 \/ ncall.tls = "ready" /\ Go([ncall EXCEPT !.out = TRUE, !.tls = "traffic"])
                 \/ ncall.tls = "traffic" /\ ~full /\ Go([ncall EXCEPT !.out = FALSE, !.rx = rx])
                 \/ ncall.tls = "traffic" /\ full /\ abort_tcp /\ GotBody(Take(Body(rx), Want(len)), FALSE)
                 \/ /\ ncall.tls = "traffic" /\ ~can_recv /\ tcp.st = "CloseWait"
                    /\ abort_tcp                                    \* close_notify: PeerClosed
                    /\ IF Len(rx) >= HEAD
                       THEN GotBody(Take(Body(rx), IF len = NoLength THEN BODY_CAP ELSE Want(len)), TRUE)
                       ELSE Fails("Failed")
        /\ UNCHANGED <<netcfg, cache, query, next_port, conns, echoes>>

GetTimeout_slip ==
    /\ ncall.pc = "http"
    /\ abort_tcp /\ Fails("Timeout")
    /\ UNCHANGED <<netcfg, cache, query, next_port, conns, echoes>>

GetTimeout ==
    /\ ncall.pc \in {"http", "tls"}
    /\ abort_tcp /\ Fails("Timeout")
    /\ UNCHANGED <<netcfg, cache, query, next_port, conns, echoes>>

\* keyboard_interrupt during a loop, which runs with interrupts on: the process becomes
\* a zombie and schedule_next never returns to it, so no guard is dropped.
Killed ==
    /\ ncall.pc \in {"lease", "dns", "echo", "http", "tls"}
    /\ ncall' = NoCall /\ nret' = [ok |-> FALSE, err |-> "killed"]
    /\ UNCHANGED <<netcfg, cache, query, tcp, next_port, conns, echoes, NET>>

----------------------------------------------------------------------------
NetInit ==
    /\ netcfg = Deconfigured
    /\ cache = [slots |-> [i \in 0 .. CACHE_CAP - 1 |-> Unset], next |-> 0]
    /\ query = NoQuery /\ tcp = [st |-> "Closed", port |-> 0, rx |-> <<>>]
    /\ next_port = 0 /\ conns = [next |-> 0, of |-> [i \in 0 .. LOCAL_PORTS - 1 |-> NoConn]]
    /\ echoes = {} /\ ncall = NoCall /\ NET = "free"
    /\ nret = [ok |-> FALSE, err |-> "none"]

Timeout == apply_static \/ DnsTimeout \/ EchoTimeout \/ GetTimeout
LoopStep == ensure_lease \/ dns_resolve \/ resolve_result

NetNext ==
    \/ \E host \in HostNames \cup {"lit"} :
           Begin("ping", host, "none", 0) \/ \E s \in {"http", "https"} : Begin("get", host, s, conns.next)
    \/ BadArgs \/ on_poll \/ DnsAnswer \/ (\E i \in 0 .. LOCAL_PORTS - 1 : TcpSegment(i))
    \/ LoopStep \/ take_echo_reply \/ http_step \/ tls_step
    \/ Timeout \/ Killed

\* The timer ticks while a loop runs, for interrupts are on: its time ends.  A lease or
\* an answer that is there is seen by the next turn of the loop.
NetFair == WF_netVars(Timeout) /\ WF_netVars(LoopStep)

NetSpec == NetInit /\ [][NetNext]_netVars /\ NetFair

----------------------------------------------------------------------------
\* The interface is set to what the lease says, after any order of leases, losses and
\* fallbacks, during a call too: without a lease no address, route or server; with the
\* static one no server.  Whenever a call can begin the DNS socket's only slot is free,
\* and during one only its own lookup takes it; the cache holds no name twice.
NetConfig ==
    /\ netcfg.lease = "Discovering" => netcfg = Deconfigured
    /\ netcfg.lease = "Static" => netcfg = StaticConfig
    /\ netcfg.lease = "Leased" => netcfg.addr = "leased_ip" /\ netcfg.route \in {Unset, "router"}
                                  /\ netcfg.has_dns = netcfg.servers
    /\ query # NoQuery => NET = "held" /\ (ncall # NoCall => ncall.pc = "dns" /\ query.name = ncall.host)
    /\ \A i, j \in DOMAIN cache.slots : cache.slots[i] = cache.slots[j] => i = j \/ cache.slots[i] = Unset

\* A body that get returns is of the server it asked and not of an earlier call's, it
\* is no longer than the cap and the length the head gives; over plain HTTP it is the
\* whole of it.
GetIsRight ==
    nret.ok /\ nret.op = "get" =>
        /\ \A i \in DOMAIN nret.body : nret.body[i] = nret.id
        /\ Len(nret.body) <= BODY_CAP
        /\ nret.resp.length # NoLength => Len(nret.body) <= nret.resp.length
        /\ nret.scheme = "http" /\ nret.resp.length # NoLength => Len(nret.body) = Want(nret.resp.length)
        /\ nret.scheme = "http" /\ nret.resp.length = NoLength /\ nret.closed =>
               Len(nret.body) = Want(nret.resp.body)

\* Every network call returns, whatever arrives or is lost.
CallEnds == (ncall.pc # "idle") ~> (ncall.pc = "idle")

\* The lock is held by a call that will drop it.
NetLockLive == NET = "held" => ncall.pc # "idle"
=============================================================================
