------------------------------- MODULE RateLimit -------------------------------
(***************************************************************************)
(* The per-client request cap of internal/server: requests travel through  *)
(* the reverse proxies, each of which appends the address it saw to        *)
(* X-Forwarded-For, reach the clientIP middleware, and are counted by the  *)
(* limiter under the address that middleware settled on.                   *)
(*                                                                         *)
(* A client sends any X-Forwarded-For it likes.  The header lines and      *)
(* their comma-separated values are one ordered list of hops, as the code  *)
(* flattens them, without the blank ones it skips.  An address stands for  *)
(* what the limiter canonicalises it to: an IPv4 address or an IPv6 /64.   *)
(* What net/http reports of the TCP peer is an address and a port, and the *)
(* limiter leaves the port in place.                                       *)
(*                                                                         *)
(* The limiter, httprate, weighs the last minute's count by what is left   *)
(* of it in the sliding minute; the weight is any between none and all.    *)
(***************************************************************************)
EXTENDS Integers, Sequences

CONSTANTS
  Client,        \* addresses of the clients, one request in flight each
  Proxy,         \* addresses of the reverse proxies
  Port,          \* TCP ports a connection may come from
  Junk,          \* hops that are no IP address
  None,          \* no address, no request
  Proxies,       \* how many proxies stand in front of the API
  TrustedProxyCount, \* how many the API is configured to trust
  Limit,         \* RateLimitPerMinute, when it is set
  MaxForged      \* bound on the hops a client invents

Addr == Client \cup Proxy
Hop == Addr \cup Junk
Endpoint == Addr \X Port

\* What the limiter counts under, and what it counts.
Account == Addr \cup Endpoint
Count == [this : Nat, last : Nat]
Zero == [this |-> 0, last |-> 0]
OneMore(n) == [n EXCEPT !.this = @ + 1]
Rolled(n) == [this |-> 0, last |-> n.this]

\* A request as it stands at some hop: the header, the TCP peer the next server
\* will see, and how many proxies it has passed.
Request == [hops : Seq(Hop), peer : Endpoint, passed : 0..Proxies]

ASSUME AddressAssumption ==
  None \notin Addr /\ None \notin Request /\ Addr \cap Endpoint = {} /\ Junk \cap Addr = {} /\ Client \cap Proxy = {}
ASSUME CountsAssumption ==
  /\ Proxies \in Nat /\ TrustedProxyCount \in Nat
  /\ Limit \in Nat \ {0} /\ MaxForged \in Nat

VARIABLES
  req,        \* each client's request under way, or None
  bucket,     \* the limiter's counts for each account, this minute and the last
  admitted    \* requests of each client let through, this minute and the last

vars == <<req, bucket, admitted>>

Init ==
  /\ req = [c \in Client |-> None]
  /\ bucket = [a \in Account |-> Zero]
  /\ admitted = [c \in Client |-> Zero]

\* Mutant: the client is read from the left end of the list.
ForwardedForMutant(hops) ==
  IF TrustedProxyCount > 0 /\ hops # <<>> /\ hops[1] \in Addr THEN hops[1] ELSE None
\* The hop TrustedProxyCount from the right, the leftmost when there are fewer;
\* None when no proxy is trusted, there is no hop, or it is no address.
ForwardedFor(hops) ==
  LET idx == IF Len(hops) >= TrustedProxyCount THEN Len(hops) - TrustedProxyCount ELSE 0
  IN  IF TrustedProxyCount > 0 /\ hops # <<>> /\ hops[idx + 1] \in Addr
      THEN hops[idx + 1] ELSE None

\* RemoteAddr after the middleware.
ClientIP(q) == IF ForwardedFor(q.hops) # None THEN ForwardedFor(q.hops) ELSE q.peer

Forged == UNION {[1..n -> Hop] : n \in 0..MaxForged}

Send(c) ==
  /\ req[c] = None
  /\ \E hops \in Forged, port \in Port :
       req' = [req EXCEPT ![c] = [hops |-> hops, peer |-> <<c, port>>, passed |-> 0]]
  /\ UNCHANGED <<bucket, admitted>>

\* A proxy appends the address it saw and connects onward from its own address.
Forward(c) ==
  /\ req[c] # None
  /\ req[c].passed < Proxies
  /\ \E p \in Proxy \X Port :
       req' = [req EXCEPT ![c] = [hops |-> Append(req[c].hops, req[c].peer[1]),
                                  peer |-> p, passed |-> req[c].passed + 1]]
  /\ UNCHANGED <<bucket, admitted>>

AtServer(c) == req[c] # None /\ req[c].passed = Proxies

\* The limiter counts the request under its address, and lets it through.
Admit(c) ==
  LET a == ClientIP(req[c]) IN
  /\ AtServer(c)
  /\ bucket[a].this < Limit
  /\ bucket' = [bucket EXCEPT ![a] = OneMore(@)]
  /\ admitted' = [admitted EXCEPT ![c] = OneMore(@)]
  /\ req' = [req EXCEPT ![c] = None]

\* 429, without counting the request.
Refuse(c) ==
  LET n == bucket[ClientIP(req[c])] IN
  /\ AtServer(c)
  /\ n.this + n.last >= Limit
  /\ req' = [req EXCEPT ![c] = None]
  /\ UNCHANGED <<bucket, admitted>>

NewMinute ==
  /\ bucket' = [a \in Account |-> Rolled(bucket[a])]
  /\ admitted' = [c \in Client |-> Rolled(admitted[c])]
  /\ UNCHANGED req

Next == (\E c \in Client : Send(c) \/ Forward(c) \/ Admit(c) \/ Refuse(c)) \/ NewMinute

Spec == Init /\ [][Next]_vars

-----------------------------------------------------------------------------

\* Every variable has its type; the header of a request under way holds what
\* the client invented and one hop for each proxy passed.
TypeOK ==
  /\ req \in [Client -> Request \cup {None}]
  /\ \A c \in Client : req[c] # None => req[c].passed <= Len(req[c].hops)
  /\ bucket \in [Account -> Count]
  /\ admitted \in [Client -> Count]

\* "caps requests per client IP each minute" (server.go:28): with as many proxies
\* as configured, and at least one, no header a client invents lets it past its
\* own cap.
CapHolds == \A c \in Client : admitted[c].this <= Limit

\* And nobody is refused on somebody else's account: a 429 goes only to a client
\* whose own requests of the two minutes reach the cap.
RefusedOnOwnAccount ==
  [][\A c \in Client :
       req[c] # None /\ req'[c] = None /\ admitted' = admitted
         => admitted[c].this + admitted[c].last >= Limit]_vars

=============================================================================
