---------------------------- MODULE RateLimitProofs ----------------------------
(***************************************************************************)
(* Theorems about RateLimit, for any number of clients and proxies, any    *)
(* cap, and headers of any length.                                         *)
(***************************************************************************)
EXTENDS RateLimit, TLAPS

\* The API is configured for the proxies it really stands behind, one at least.
Configured == TrustedProxyCount = Proxies /\ Proxies > 0

\* Whatever a client put into the header, ForwardedFor finds the address that
\* the outermost trusted proxy appended.
LEMMA ForgedHopsIgnored ==
  ASSUME TrustedProxyCount > 0, NEW hops \in Seq(Hop),
         Len(hops) >= TrustedProxyCount,
         hops[Len(hops) - TrustedProxyCount + 1] \in Addr
  PROVE  ForwardedFor(hops) = hops[Len(hops) - TrustedProxyCount + 1]
  BY CountsAssumption DEF ForwardedFor

\* Where a request's client is found: in the peer before the first proxy, after
\* it in the hop that as many places from the right as proxies were passed.
ClientOnRecord ==
  \A c \in Client : req[c] # None =>
    IF req[c].passed = 0 THEN req[c].peer[1] = c
    ELSE req[c].hops[Len(req[c].hops) - req[c].passed + 1] = c

\* The limiter's account of a client is the client's own.
AccountsAgree == \A c \in Client : bucket[c] = admitted[c]

CapInv == TypeOK /\ ClientOnRecord /\ AccountsAgree /\ CapHolds

LEMMA ForgedTyped == ASSUME NEW hops \in Forged PROVE hops \in Seq(Hop)
  <1>1. PICK n \in 0..MaxForged : hops \in [1..n -> Hop]
    BY DEF Forged
  <1> QED
    BY <1>1, CountsAssumption

\* A request that has reached the server is counted under its client.
LEMMA KeyIsClient ==
  ASSUME Configured, TypeOK, ClientOnRecord, NEW c \in Client, AtServer(c)
  PROVE  ClientIP(req[c]) = c
  <1>1. /\ req[c].hops \in Seq(Hop) /\ req[c].passed = Proxies /\ Proxies > 0
        /\ Len(req[c].hops) >= TrustedProxyCount
        /\ req[c].hops[Len(req[c].hops) - TrustedProxyCount + 1] = c
    BY CountsAssumption DEF Configured, TypeOK, Request, ClientOnRecord, AtServer
  <1>2. ForwardedFor(req[c].hops) = c
    BY <1>1, ForgedHopsIgnored DEF Configured, Addr
  <1> QED
    BY <1>2, AddressAssumption DEF ClientIP, Addr

\* Passing a proxy yields a request again.
LEMMA ForwardTyped ==
  ASSUME TypeOK, NEW c \in Client, Forward(c)
  PROVE  req'[c] \in Request
  <1> DEFINE q == req[c]
  <1>1. PICK p \in Proxy \X Port :
          req' = [req EXCEPT ![c] = [hops |-> Append(q.hops, q.peer[1]),
                                     peer |-> p, passed |-> q.passed + 1]]
    BY DEF Forward
  <1>2. q.hops \in Seq(Hop) /\ q.peer \in Endpoint /\ q.passed \in 0..Proxies
        /\ q.passed < Proxies
    BY DEF Forward, TypeOK, Request
  <1>3. p \in Endpoint /\ q.peer[1] \in Hop
    BY <1>2 DEF Endpoint, Addr, Hop
  <1>4. Append(q.hops, q.peer[1]) \in Seq(Hop) /\ q.passed + 1 \in 0..Proxies
    BY <1>2, <1>3, CountsAssumption
  <1> QED
    BY <1>1, <1>3, <1>4 DEF Request, TypeOK

LEMMA CapInit == Init => CapInv
  BY CountsAssumption
  DEF Init, CapInv, TypeOK, ClientOnRecord, AccountsAgree, CapHolds, Zero, Count,
      Account, Addr

LEMMA CapStep == ASSUME Configured PROVE CapInv /\ [Next]_vars => CapInv'
  <1> SUFFICES ASSUME CapInv, [Next]_vars PROVE CapInv'
    OBVIOUS
  <1> USE CountsAssumption, AddressAssumption DEF CapInv
  <1>1. ASSUME NEW c \in Client, Send(c) PROVE CapInv'
    <2>1. PICK hops \in Forged, port \in Port :
            req' = [req EXCEPT ![c] = [hops |-> hops, peer |-> <<c, port>>, passed |-> 0]]
      BY <1>1 DEF Send
    <2>2. hops \in Seq(Hop) /\ <<c, port>> \in Endpoint /\ Len(hops) \in Nat
      BY ForgedTyped DEF Endpoint, Addr
    <2> DEFINE q == [hops |-> hops, peer |-> <<c, port>>, passed |-> 0]
    <2>3. TypeOK'
      <3>1. q \in Request /\ q.passed <= Len(q.hops)
        BY <2>2 DEF Request
      <3>2. req' = [req EXCEPT ![c] = q] /\ UNCHANGED <<bucket, admitted>>
        BY <1>1, <2>1 DEF Send
      <3> HIDE DEF q
      <3> QED
        BY <3>1, <3>2 DEF TypeOK
    <2>4. ClientOnRecord'
      BY <2>1 DEF TypeOK, ClientOnRecord
    <2>5. AccountsAgree' /\ CapHolds'
      BY <1>1 DEF Send, AccountsAgree, CapHolds
    <2> QED
      BY <2>3, <2>4, <2>5
  <1>2. ASSUME NEW c \in Client, Forward(c) PROVE CapInv'
    <2> DEFINE q == req[c]
    <2>1. PICK p \in Proxy \X Port :
            req' = [req EXCEPT ![c] = [hops |-> Append(q.hops, q.peer[1]),
                                       peer |-> p, passed |-> q.passed + 1]]
      BY <1>2 DEF Forward
    <2>2. /\ q.hops \in Seq(Hop) /\ q.peer \in Endpoint /\ q.passed \in 0..Proxies
          /\ q.passed < Proxies /\ q.passed <= Len(q.hops)
      BY <1>2 DEF Forward, TypeOK, Request
    <2>3. p \in Endpoint /\ q.peer[1] \in Hop
      BY <2>2 DEF Endpoint, Addr, Hop
    <2> DEFINE longer == Append(q.hops, q.peer[1])
    <2>4. longer \in Seq(Hop) /\ Len(longer) = Len(q.hops) + 1 /\ Len(q.hops) \in Nat
      BY <2>2, <2>3
    <2> DEFINE onward == [hops |-> longer, peer |-> p, passed |-> q.passed + 1]
    <2>5. TypeOK'
      <3>1. onward \in Request /\ onward.passed <= Len(onward.hops)
        BY <2>2, <2>3, <2>4 DEF Request
      <3>2. req' = [req EXCEPT ![c] = onward] /\ UNCHANGED <<bucket, admitted>>
        BY <1>2, <2>1 DEF Forward
      <3> HIDE DEF onward
      <3> QED
        BY <3>1, <3>2 DEF TypeOK
    <2>6. longer[Len(longer) - (q.passed + 1) + 1] = c
      <3>1. CASE q.passed = 0
        <4>1. q.peer[1] = c
          BY <1>2, <3>1 DEF Forward, ClientOnRecord
        <4> QED
          BY <2>2, <2>3, <2>4, <3>1, <4>1
      <3>2. CASE q.passed > 0
        <4>1. q.hops[Len(q.hops) - q.passed + 1] = c
          BY <1>2, <2>2, <3>2 DEF Forward, ClientOnRecord
        <4>2. Len(q.hops) - q.passed + 1 \in 1..Len(q.hops)
          BY <2>2, <2>4, <3>2
        <4>3. Len(longer) - (q.passed + 1) + 1 = Len(q.hops) - q.passed + 1
          BY <2>2, <2>4
        <4> QED
          BY <2>2, <2>3, <4>1, <4>2, <4>3
      <3> QED
        BY <2>2, <3>1, <3>2
    <2>7. ClientOnRecord'
      <3>1. \A d \in Client \ {c} : req'[d] = req[d]
        BY <2>1 DEF TypeOK
      <3>2. /\ req'[c].hops = longer /\ req'[c].passed = q.passed + 1
            /\ q.passed + 1 # 0
        BY <2>1, <2>2 DEF TypeOK
      <3> HIDE DEF longer
      <3> QED
        BY <2>6, <3>1, <3>2 DEF ClientOnRecord
    <2>8. AccountsAgree' /\ CapHolds'
      BY <1>2 DEF Forward, AccountsAgree, CapHolds
    <2> QED
      BY <2>5, <2>7, <2>8
  <1>3. ASSUME NEW c \in Client, Admit(c) PROVE CapInv'
    <2>1. ClientIP(req[c]) = c /\ c \in Account
      BY <1>3, KeyIsClient DEF Admit, Account, Addr
    <2>2. /\ bucket' = [bucket EXCEPT ![c] = OneMore(@)]
          /\ admitted' = [admitted EXCEPT ![c] = OneMore(@)]
          /\ req' = [req EXCEPT ![c] = None]
          /\ bucket[c].this < Limit
      BY <1>3, <2>1 DEF Admit
    <2>3. bucket[c] \in Count /\ admitted[c] = bucket[c]
      BY <2>1 DEF TypeOK, AccountsAgree
    <2>4. OneMore(bucket[c]) \in Count /\ OneMore(bucket[c]).this <= Limit
      BY <2>2, <2>3 DEF OneMore, Count
    <2>5. TypeOK'
      BY <2>2, <2>3, <2>4 DEF TypeOK
    <2>6. ClientOnRecord'
      BY <2>2 DEF TypeOK, ClientOnRecord
    <2>7. AccountsAgree' /\ CapHolds'
      BY <2>2, <2>3, <2>4, Client \subseteq Account DEF TypeOK, AccountsAgree, CapHolds, Account, Addr
    <2> QED
      BY <2>5, <2>6, <2>7
  <1>4. ASSUME NEW c \in Client, Refuse(c) PROVE CapInv'
    <2>1. req' = [req EXCEPT ![c] = None] /\ UNCHANGED <<bucket, admitted>>
      BY <1>4 DEF Refuse
    <2> QED
      BY <2>1 DEF TypeOK, ClientOnRecord, AccountsAgree, CapHolds
  <1>5. CASE NewMinute
    <2>1. \A n \in Count : Rolled(n) \in Count /\ Rolled(n).this = 0
      BY DEF Rolled, Count
    <2> QED
      BY <1>5, <2>1
      DEF NewMinute, TypeOK, ClientOnRecord, AccountsAgree, CapHolds, Account, Addr
  <1>6. CASE UNCHANGED vars
    BY <1>6 DEF vars, TypeOK, ClientOnRecord, AccountsAgree, CapHolds
  <1> QED
    BY <1>1, <1>2, <1>3, <1>4, <1>5, <1>6 DEF Next

LEMMA CapInvariant == ASSUME Configured PROVE Spec => []CapInv
  BY CapInit, CapStep, PTL DEF Spec

\* With as many proxies as configured, no header lets a client past its cap.
THEOREM CapAlwaysHolds == ASSUME Configured PROVE Spec => []CapHolds
  <1>1. CapInv => CapHolds
    BY DEF CapInv
  <1> QED
    BY <1>1, CapInvariant, PTL

\* And a 429 goes only to a client whose own requests reach the cap.
THEOREM RefusalsAreOwn == ASSUME Configured PROVE Spec => RefusedOnOwnAccount
  <1>1. ASSUME CapInv, [Next]_vars, NEW c \in Client,
               req[c] # None, req'[c] = None, admitted' = admitted
        PROVE  admitted[c].this + admitted[c].last >= Limit
    \* No other step ends this request, and Admit would have counted it.
    <2>1. Admit(c) \/ Refuse(c)
      <3>1. ASSUME NEW d \in Client, Send(d) \/ Forward(d) PROVE FALSE
        <4>1. PICK q : req' = [req EXCEPT ![d] = q] /\ q # None
          <5>1. CASE Send(d)
            <6>1. PICK hops \in Forged, port \in Port :
                    req' = [req EXCEPT ![d] = [hops |-> hops, peer |-> <<d, port>>, passed |-> 0]]
              BY <5>1 DEF Send
            <6>2. [hops |-> hops, peer |-> <<d, port>>, passed |-> 0] \in Request
              BY ForgedTyped, CountsAssumption DEF Request, Endpoint, Addr
            <6> QED
              BY <6>1, <6>2, AddressAssumption
          <5>2. CASE Forward(d)
            <6>1. req'[d] \in Request
              BY <1>1, <5>2, ForwardTyped DEF CapInv
            <6>2. PICK q : req' = [req EXCEPT ![d] = q]
              BY <5>2 DEF Forward
            <6> QED
              BY <1>1, <6>1, <6>2, AddressAssumption DEF CapInv, TypeOK
          <5> QED
            BY <3>1, <5>1, <5>2
        <4> QED
          BY <1>1, <4>1 DEF CapInv, TypeOK
      <3>2. ASSUME NEW d \in Client, Admit(d) \/ Refuse(d) PROVE d = c
        BY <1>1, <3>2 DEF Admit, Refuse, CapInv, TypeOK
      <3>3. ~NewMinute /\ ~UNCHANGED vars
        BY <1>1 DEF NewMinute, vars
      <3> QED
        BY <1>1, <3>1, <3>2, <3>3 DEF Next
    <2>2. AtServer(c)
      BY <2>1 DEF Admit, Refuse
    <2>3. ClientIP(req[c]) = c
      BY <1>1, <2>2, KeyIsClient DEF CapInv
    <2>4. ~Admit(c)
      <3>1. admitted[c] \in Count
        BY <1>1 DEF CapInv, TypeOK
      <3>2. OneMore(admitted[c]) # admitted[c]
        BY <3>1 DEF OneMore, Count
      <3> QED
        BY <1>1, <3>2 DEF Admit, CapInv, TypeOK
    <2> QED
      BY <1>1, <2>1, <2>3, <2>4 DEF Refuse, CapInv, AccountsAgree
  <1>2. CapInv /\ [Next]_vars =>
          [\A c \in Client :
             req[c] # None /\ req'[c] = None /\ admitted' = admitted
               => admitted[c].this + admitted[c].last >= Limit]_vars
    BY <1>1
  <1> QED
    BY <1>2, CapInvariant, PTL DEF Spec, RefusedOnOwnAccount

=============================================================================
