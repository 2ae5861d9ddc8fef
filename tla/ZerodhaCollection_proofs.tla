---------------------- MODULE ZerodhaCollection_proofs ----------------------
(***************************************************************************)
(* Proofs about ZerodhaCollection for any number of concurrent calls, any  *)
(* requests, responses, pool and session.                                  *)
(***************************************************************************)
EXTENDS ZerodhaCollection, FiniteSetTheorems, SequenceTheorems, TLAPS

-----------------------------------------------------------------------------
(* The tables of the connector.                                            *)

\* The names are eight, and different.
LEMMA NameFacts ==
    /\ DOMAIN ByName = 1 .. 8
    /\ \A i \in 1 .. 8 : ByName[i] \in Capability
    /\ \A i, j \in 1 .. 8 : ByName[i] = ByName[j] => i = j
    /\ \A cap \in Capability : \E i \in 1 .. 8 : ByName[i] = cap
<1>1. DOMAIN ByName = 1 .. 8
  BY DEF ByName
<1>2. /\ ByName[1] = "accounts" /\ ByName[2] = "activities" /\ ByName[3] = "balances"
      /\ ByName[4] = "holdings" /\ ByName[5] = "instruments" /\ ByName[6] = "positions"
      /\ ByName[7] = "prices" /\ ByName[8] = "tax_lots"
  BY DEF ByName
<1>3. \A i \in 1 .. 8 : i = 1 \/ i = 2 \/ i = 3 \/ i = 4 \/ i = 5 \/ i = 6 \/ i = 7 \/ i = 8
  OBVIOUS
<1>4. \A i, j \in 1 .. 8 : ByName[i] = ByName[j] => i = j
  BY <1>2, <1>3
<1>. QED
  BY <1>1, <1>4 DEF Capability

\* sorted() orders the capabilities totally.
LEMMA BeforeIsAnOrder ==
    /\ \A a, b : Before(a, b) => a \in Capability /\ b \in Capability /\ a # b
    /\ \A a, b \in Capability : a = b \/ Before(a, b) \/ Before(b, a)
    /\ \A a, b, d : Before(a, b) /\ Before(b, d) => Before(a, d)
<1>1. \A a, b : Before(a, b) <=> \E i, j \in 1 .. 8 : i < j /\ ByName[i] = a /\ ByName[j] = b
  BY NameFacts DEF Before
<1>2. \A a, b : Before(a, b) => a \in Capability /\ b \in Capability /\ a # b
  BY <1>1, NameFacts
<1>3. ASSUME NEW a \in Capability, NEW b \in Capability
      PROVE  a = b \/ Before(a, b) \/ Before(b, a)
  <2>1. PICK i \in 1 .. 8 : ByName[i] = a
    BY NameFacts
  <2>2. PICK j \in 1 .. 8 : ByName[j] = b
    BY NameFacts
  <2>3. i < j \/ i = j \/ j < i
    OBVIOUS
  <2>. QED
    BY <1>1, <2>1, <2>2, <2>3
<1>4. ASSUME NEW a, NEW b, NEW d, Before(a, b), Before(b, d)
      PROVE  Before(a, d)
  <2>1. PICK i \in 1 .. 8, j \in 1 .. 8 : i < j /\ ByName[i] = a /\ ByName[j] = b
    BY <1>1, <1>4
  <2>2. PICK k \in 1 .. 8, l \in 1 .. 8 : k < l /\ ByName[k] = b /\ ByName[l] = d
    BY <1>1, <1>4
  <2>3. j = k
    BY <2>1, <2>2, NameFacts
  <2>4. i < l
    BY <2>1, <2>2, <2>3
  <2>. QED
    BY <1>1, <2>1, <2>2, <2>4
<1>. QED
  BY <1>2, <1>3, <1>4

\* A set of capabilities has a first one.
LEMMA FirstIsLeast ==
    ASSUME NEW caps \in SUBSET Capability, caps # {}
    PROVE  /\ FirstByName(caps) \in caps
           /\ \A other \in caps \ {FirstByName(caps)} : Before(FirstByName(caps), other)
<1> DEFINE I == {i \in 1 .. 8 : ByName[i] \in caps}
<1>1. PICK k : k \in I
  BY NameFacts
<1>2. \E m \in I : \A i \in I : m <= i
  <2>1. CASE 1 \in I
    BY <2>1
  <2>2. CASE 1 \notin I /\ 2 \in I
    BY <2>2
  <2>3. CASE 1 \notin I /\ 2 \notin I /\ 3 \in I
    BY <2>3
  <2>4. CASE 1 \notin I /\ 2 \notin I /\ 3 \notin I /\ 4 \in I
    BY <2>4
  <2>5. CASE I \intersect 1 .. 4 = {} /\ 5 \in I
    BY <2>5
  <2>6. CASE I \intersect 1 .. 5 = {} /\ 6 \in I
    BY <2>6
  <2>7. CASE I \intersect 1 .. 6 = {} /\ 7 \in I
    BY <2>7
  <2>8. CASE I \intersect 1 .. 7 = {}
    BY <1>1, <2>8
  <2>. QED
    BY <2>1, <2>2, <2>3, <2>4, <2>5, <2>6, <2>7, <2>8
<1>3. PICK m \in I : \A i \in I : m <= i
  BY <1>2
<1>4. \A other \in caps \ {ByName[m]} : Before(ByName[m], other)
  <2> SUFFICES ASSUME NEW other \in caps \ {ByName[m]} PROVE Before(ByName[m], other)
    OBVIOUS
  <2>1. PICK j \in 1 .. 8 : ByName[j] = other
    BY NameFacts
  <2>2. j \in I /\ j # m
    BY <2>1
  <2>3. m < j
    BY <1>3, <2>2
  <2>. QED
    BY <1>3, <2>1, <2>3, NameFacts DEF Before
<1>5. \E cap \in caps : \A other \in caps \ {cap} : Before(cap, other)
  BY <1>3, <1>4
<1>. QED
  BY <1>5 DEF FirstByName

\* No endpoint is listed twice, for one capability or for two.
LEMMA EndpointFacts ==
    /\ \A cap : Supported(cap) => Endpoints[cap] \in Seq(Endpoint)
                /\ Endpoints[cap] # <<>> /\ Distinct(Endpoints[cap])
                /\ EndpointsOf(cap) = {Endpoints[cap][i] : i \in DOMAIN Endpoints[cap]}
                /\ EndpointsOf(cap) # {}
    /\ \A a, b : Supported(a) /\ Supported(b) /\ a # b =>
          EndpointsOf(a) \intersect EndpointsOf(b) = {}
<1>1. DOMAIN Endpoints = {"activities", "balances", "holdings", "instruments", "positions"}
  BY DEF Endpoints
<1>2. /\ Endpoints["activities"] = <<"orders", "trades">>
      /\ Endpoints["balances"] = <<"funds">>
      /\ Endpoints["holdings"] = <<"holdings">>
      /\ Endpoints["instruments"] = <<"instruments">>
      /\ Endpoints["positions"] = <<"positions">>
  BY DEF Endpoints
<1>3. /\ EndpointsOf("activities") = {"orders", "trades"}
      /\ EndpointsOf("balances") = {"funds"}
      /\ EndpointsOf("holdings") = {"holdings"}
      /\ EndpointsOf("instruments") = {"instruments"}
      /\ EndpointsOf("positions") = {"positions"}
  BY <1>2 DEF EndpointsOf
<1>4. Endpoint = {"orders", "trades", "funds", "holdings", "instruments", "positions"}
  BY <1>1, <1>3 DEF Endpoint
<1>5. ASSUME NEW cap, Supported(cap)
      PROVE  Endpoints[cap] \in Seq(Endpoint) /\ Endpoints[cap] # <<>> /\ Distinct(Endpoints[cap])
  <2>1. cap \in DOMAIN Endpoints
    BY <1>5 DEF Supported
  <2>2. \A e, f : e \in Endpoint /\ f \in Endpoint /\ e # f =>
            /\ <<e, f>> \in Seq(Endpoint) /\ <<e, f>> # <<>> /\ Distinct(<<e, f>>)
            /\ <<e>> \in Seq(Endpoint) /\ <<e>> # <<>> /\ Distinct(<<e>>)
    BY DEF Distinct
  <2>3. CASE cap = "activities"
    BY <1>2, <1>4, <2>2, <2>3
  <2>4. ASSUME NEW e \in Endpoint, Endpoints[cap] = <<e>>
        PROVE  Endpoints[cap] \in Seq(Endpoint) /\ Endpoints[cap] # <<>> /\ Distinct(Endpoints[cap])
    BY <2>4 DEF Distinct
  <2>5. CASE cap # "activities"
    <3>1. \E e \in Endpoint : Endpoints[cap] = <<e>>
      BY <1>1, <1>2, <1>4, <2>1, <2>5
    <3>. QED
      BY <2>4, <3>1
  <2>. QED
    BY <2>3, <2>5
<1>6. \A a, b : Supported(a) /\ Supported(b) /\ a # b =>
          EndpointsOf(a) \intersect EndpointsOf(b) = {}
  BY <1>1, <1>3 DEF Supported
<1>7. \A cap : Supported(cap) => EndpointsOf(cap) # {}
  BY <1>1, <1>3 DEF Supported
<1>. QED
  BY <1>5, <1>6, <1>7 DEF EndpointsOf

\* The reason codes of AUTHENTICATION failures, which no other failure has.
StopCodes == {"session.expired", "session.missing"}

LEMMA ReasonFacts ==
    /\ \A f \in DOMAIN ReasonCode : ReasonCode[f] \in Issue
    /\ \A f \in DOMAIN ReasonCode : StopsCollection(f) <=> ReasonCode[f] \in StopCodes
    /\ {"missing", "expired", "timeout", "network"} \subseteq DOMAIN ReasonCode
    /\ "capability.unsupported" \in Issue \ StopCodes
    /\ StopCodes \subseteq Issue
    /\ None \notin StopCodes
<1>1. \A f \in DOMAIN ReasonCode : ReasonCode[f] \in Issue
  BY DEF Issue
<1>2. DOMAIN ReasonCode = {"unauthorized", "throttled", "bad_request", "gone", "unavailable",
        "denied", "bad_length", "oversized", "empty", "timeout", "network", "missing", "expired"}
  BY DEF ReasonCode
<1>3. /\ ReasonCode["unauthorized"] = "session.expired"
      /\ ReasonCode["missing"] = "session.missing"
      /\ ReasonCode["expired"] = "session.expired"
      /\ \A f \in DOMAIN ReasonCode \ {"unauthorized", "missing", "expired"} :
            ReasonCode[f] \notin StopCodes
  BY DEF ReasonCode, StopCodes
<1>4. \A f \in DOMAIN ReasonCode : StopsCollection(f) <=> ReasonCode[f] \in StopCodes
  BY <1>3 DEF StopsCollection, StopCodes
<1>5. StopCodes \subseteq Issue
  BY <1>1, <1>2, <1>3 DEF StopCodes
<1>. QED
  BY <1>1, <1>2, <1>4, <1>5, CollectionAssumption DEF Issue, StopCodes

-----------------------------------------------------------------------------
(* The inductive invariant.                                                *)

Looping == {"fetch", "pool", "sent"}
Live == {"next"} \union Looping

Carries(why, code) == \E k \in DOMAIN why : why[k] = code
Waiting(c) == {left[c][i] : i \in DOMAIN left[c]}

\* What is known at each point of the walk.
Phase(c) ==
    /\ stage[c] = "idle" =>
          /\ artifacts[c] = <<>> /\ outcomes[c] = <<>> /\ issues[c] = <<>>
          /\ authentication_issue[c] = None
    /\ stage[c] \in Live => retrieved_at[c] \in Nat /\ retrieved_at[c] <= now
    /\ stage[c] \in Looping => todo[c] # {} /\ Supported(Current(c))
    /\ stage[c] \in {"pool", "sent"} => left[c] # <<>>
    /\ stage[c] = "sent" => sent_at[c] \in Nat /\ retrieved_at[c] <= sent_at[c]

\* The settled capabilities are those no longer on the list, in order.
Agenda(c) ==
    /\ stage[c] \in Live \union {"returned"} =>
          /\ request[c] # {}
          /\ todo[c] \subseteq request[c]
          /\ {outcomes[c][i].capability : i \in DOMAIN outcomes[c]} = request[c] \ todo[c]
    /\ stage[c] = "returned" => todo[c] = {}
    /\ \A i, j \in DOMAIN outcomes[c] : i < j =>
          Before(outcomes[c][i].capability, outcomes[c][j].capability)
    /\ \A i \in DOMAIN outcomes[c] : \A cap \in todo[c] :
          Before(outcomes[c][i].capability, cap)

\* Issues are kept once each, and tell success from everything else.
Reasons(c) ==
    /\ Distinct(issues[c])
    /\ \A i \in DOMAIN outcomes[c] :
          /\ outcomes[c][i].status = "succeeded" <=> outcomes[c][i].issues = <<>>
          /\ Distinct(outcomes[c][i].issues)

\* A code that stops the collection occurs once it is the authentication
\* issue and not before.
Stopped(c) ==
    /\ authentication_issue[c] \in StopCodes \union {None}
    /\ authentication_issue[c] = None \/ stage[c] \in Looping =>
          \A i \in DOMAIN outcomes[c] : \A code \in StopCodes :
              ~Carries(outcomes[c][i].issues, code)
    /\ authentication_issue[c] = None =>
          \A code \in StopCodes : ~Carries(issues[c], code)
    /\ authentication_issue[c] # None =>
          /\ stage[c] \notin {"pool", "sent"}
          /\ stage[c] = "fetch" => left[c] = <<>>
    /\ \A i, j \in DOMAIN outcomes[c] :
          /\ authentication_issue[c] # None
          /\ i < j
          /\ Carries(outcomes[c][i].issues, authentication_issue[c])
          /\ outcomes[c][j].status # "unsupported"
          => /\ outcomes[c][j].status = "failed"
             /\ outcomes[c][j].issues = <<authentication_issue[c]>>

Untouched(c, cap) == Supported(cap) => EndpointsOf(cap) \intersect Fetched(c) = {}

\* An outcome says which of its capability's endpoints were fetched.
Shows(c, o) ==
    /\ Supported(o.capability) =>
          /\ o.status # "unsupported"
          /\ o.status = "succeeded" <=> EndpointsOf(o.capability) \subseteq Fetched(c)
          /\ o.status = "failed" <=> EndpointsOf(o.capability) \intersect Fetched(c) = {}
    /\ ~Supported(o.capability) => o.status = "unsupported"

\* The evidence, also of the capability whose loop is under way.
Evidence(c) ==
    /\ \A i, j \in DOMAIN artifacts[c] :
          artifacts[c][i].endpoint = artifacts[c][j].endpoint => i = j
    /\ \A i \in DOMAIN outcomes[c] : Shows(c, outcomes[c][i])
    /\ stage[c] = "next" => \A cap \in todo[c] : Untouched(c, cap)
    /\ stage[c] \in Looping =>
          /\ \A cap \in todo[c] \ {Current(c)} : Untouched(c, cap)
          /\ Waiting(c) \subseteq EndpointsOf(Current(c)) \ Fetched(c)
          /\ Distinct(left[c])
          /\ issues[c] = <<>> <=> EndpointsOf(Current(c)) \subseteq Fetched(c) \union Waiting(c)

Local(c) == Phase(c) /\ Agenda(c) /\ Reasons(c) /\ Stopped(c) /\ Evidence(c)

IInv == TypeOK /\ \A c \in Collector : Local(c)

-----------------------------------------------------------------------------
(* Steps.                                                                  *)

Kept(d) ==
    /\ stage'[d] = stage[d] /\ request'[d] = request[d]
    /\ retrieved_at'[d] = retrieved_at[d] /\ todo'[d] = todo[d] /\ left'[d] = left[d]
    /\ issues'[d] = issues[d] /\ authentication_issue'[d] = authentication_issue[d]
    /\ artifacts'[d] = artifacts[d] /\ outcomes'[d] = outcomes[d]
    /\ sent_at'[d] = sent_at[d]

\* What a step leaves alone it leaves in order; only the clock may go on.
LEMMA Elsewhere ==
    ASSUME TypeOK, NEW d \in Collector, Local(d),
           now' \in Nat, now <= now', Kept(d)
    PROVE  Local(d)'
<1>1. Current(d)' = Current(d) /\ Fetched(d)' = Fetched(d) /\ Waiting(d)' = Waiting(d)
  BY DEF Kept, Current, Fetched, Waiting
<1>2. Phase(d)'
  <2>1. retrieved_at[d] \in Nat /\ retrieved_at[d] <= now => retrieved_at[d] <= now'
    BY DEF TypeOK
  <2>. QED
    BY <1>1, <2>1 DEF Kept, Local, Phase
<1>3. Agenda(d)' /\ Reasons(d)' /\ Stopped(d)'
  BY DEF Kept, Local, Agenda, Reasons, Stopped
<1>4. Evidence(d)'
  BY <1>1 DEF Kept, Local, Evidence, Untouched, Shows
<1>. QED
  BY <1>2, <1>3, <1>4 DEF Local

LEMMA InitIInv == Init => IInv
<1> SUFFICES ASSUME Init PROVE IInv
  OBVIOUS
<1>1. TypeOK
  BY CollectionAssumption DEF Init, TypeOK
<1>2. ASSUME NEW c \in Collector PROVE Local(c)
  <2>1. Phase(c) /\ Agenda(c)
    BY DEF Init, Phase, Agenda, Live, Looping
  <2>2. Reasons(c) /\ Stopped(c)
    BY DEF Init, Reasons, Stopped, Looping, Carries, Distinct
  <2>3. Evidence(c)
    BY DEF Init, Evidence, Looping
  <2>. QED
    BY <2>1, <2>2, <2>3 DEF Local
<1>. QED
  BY <1>1, <1>2 DEF IInv

LEMMA ClockStep ==
    ASSUME IInv, Tick \/ Revoke \/ UNCHANGED vars
    PROVE  IInv'
<1>1. TypeOK'
  BY DEF IInv, TypeOK, Tick, Revoke, vars, loopVars, resultVars, wireVars
<1>2. now' \in Nat /\ now <= now'
  BY DEF IInv, TypeOK, Tick, Revoke, vars
<1>3. UNCHANGED <<stage, loopVars, resultVars, wireVars>>
  BY DEF Tick, Revoke, vars
<1>4. ASSUME NEW d \in Collector PROVE Local(d)'
  <2>1. Kept(d)
    BY <1>3 DEF Kept, loopVars, resultVars, wireVars
  <2>. QED
    BY <1>2, <2>1, Elsewhere DEF IInv
<1>. QED
  BY <1>1, <1>4 DEF IInv

\* A call begins or is refused.
LEMMA StartStep ==
    ASSUME IInv, NEW c \in Collector, NEW caps \in Requests,
           Refuse(c, caps) \/ Begin(c, caps)
    PROVE  IInv'
<1> USE DEF IInv
<1>1. caps \in SUBSET Capability /\ caps # {}
  BY CollectionAssumption
<1>2. TypeOK'
  <2>1. CASE Refuse(c, caps)
    BY <1>1, <2>1 DEF TypeOK, Refuse, resultVars, wireVars
  <2>2. CASE Begin(c, caps)
    <3>1. retrieved_at' \in [Collector -> Nat \union {None}]
      BY <2>2 DEF TypeOK, Begin
    <3>2. request' \in [Collector -> SUBSET Capability] /\ todo' \in [Collector -> SUBSET Capability]
      BY <1>1, <2>2 DEF TypeOK, Begin
    <3>. QED
      BY <2>2, <3>1, <3>2 DEF TypeOK, Begin, resultVars, wireVars
  <2>. QED
    BY <2>1, <2>2
<1>3. ASSUME NEW d \in Collector, d # c PROVE Local(d)'
  <2>1. Kept(d)
    BY <1>3 DEF Kept, TypeOK, Refuse, Begin, resultVars, wireVars
  <2>2. now' \in Nat /\ now <= now'
    BY DEF TypeOK, Refuse, Begin, resultVars, wireVars
  <2>. QED
    BY <2>1, <2>2, Elsewhere
<1>4. /\ artifacts[c] = <<>> /\ outcomes[c] = <<>> /\ issues[c] = <<>>
      /\ authentication_issue[c] = None /\ now \in Nat
  BY DEF Local, Phase, Refuse, Begin, TypeOK
<1>5. /\ artifacts'[c] = <<>> /\ outcomes'[c] = <<>> /\ issues'[c] = <<>>
      /\ authentication_issue'[c] = None /\ now' = now
  BY <1>4 DEF Refuse, Begin, resultVars
<1>6. \/ stage'[c] = "raised"
      \/ /\ stage'[c] = "next" /\ request'[c] = caps /\ todo'[c] = caps
         /\ retrieved_at'[c] = now
  BY DEF Refuse, Begin, TypeOK
<1>7. Phase(c)'
  BY <1>4, <1>5, <1>6 DEF Phase, Live, Looping
<1>8. Agenda(c)'
  BY <1>1, <1>5, <1>6 DEF Agenda, Live, Looping
<1>9. Reasons(c)' /\ Stopped(c)'
  BY <1>5, <1>6 DEF Reasons, Stopped, Looping, Distinct, Carries
<1>10. Evidence(c)'
  <2>1. Fetched(c)' = {}
    BY <1>5 DEF Fetched
  <2>. QED
    BY <1>5, <1>6, <2>1 DEF Evidence, Looping, Untouched
<1>. QED
  BY <1>2, <1>3, <1>7, <1>8, <1>9, <1>10 DEF Local

LEMMA ReturnStep ==
    ASSUME IInv, NEW c \in Collector, Return(c)
    PROVE  IInv'
<1> USE DEF IInv
<1>1. TypeOK'
  BY DEF TypeOK, Return, loopVars, resultVars, wireVars
<1>2. ASSUME NEW d \in Collector, d # c PROVE Local(d)'
  <2>1. Kept(d)
    BY <1>2 DEF Kept, TypeOK, Return, loopVars, resultVars, wireVars
  <2>2. now' \in Nat /\ now <= now'
    BY DEF TypeOK, Return, loopVars, resultVars, wireVars
  <2>. QED
    BY <2>1, <2>2, Elsewhere
<1>3. /\ stage[c] = "next" /\ stage'[c] = "returned" /\ todo[c] = {}
      /\ UNCHANGED <<now, loopVars, resultVars, wireVars>>
  BY DEF Return, TypeOK
<1>4. Local(c)
  OBVIOUS
<1>5. Phase(c)' /\ Agenda(c)'
  BY <1>3, <1>4 DEF Local, Phase, Agenda, Live, Looping, loopVars, resultVars, wireVars
<1>6. Reasons(c)' /\ Stopped(c)'
  BY <1>3, <1>4 DEF Local, Reasons, Stopped, Looping, loopVars, resultVars
<1>7. Evidence(c)'
  <2>1. Fetched(c)' = Fetched(c)
    BY <1>3 DEF Fetched, resultVars
  <2>. QED
    BY <1>3, <1>4, <2>1 DEF Local, Evidence, Shows, Looping, loopVars, resultVars
<1>. QED
  BY <1>1, <1>2, <1>5, <1>6, <1>7 DEF Local

\* A step along the wire: a request goes out, a response arrives.
LEMMA WireStep ==
    ASSUME IInv, NEW c \in Collector,
           Fetch(c) \/ Send(c) \/ \E class \in Reply : BrokerReply(c, class)
    PROVE  IInv'
<1> USE DEF IInv
<1>1. TypeOK'
  <2>1. CASE Fetch(c)
    BY <2>1 DEF TypeOK, Fetch, loopVars, resultVars, wireVars
  <2>2. CASE Send(c)
    <3>1. sent_at' \in [Collector -> Nat \union {None}]
      BY <2>2 DEF TypeOK, Send
    <3>. QED
      BY <2>2, <3>1 DEF TypeOK, Send, loopVars, resultVars
  <2>3. ASSUME NEW class \in Reply, BrokerReply(c, class) PROVE TypeOK'
    <3>1. reply' \in [Collector -> Replies \union {None}]
      BY <2>3, CollectionAssumption DEF TypeOK, BrokerReply
    <3>. QED
      BY <2>3, <3>1 DEF TypeOK, BrokerReply, loopVars, resultVars
  <2>. QED
    BY <2>1, <2>2, <2>3
<1>2. ASSUME NEW d \in Collector, d # c PROVE Local(d)'
  <2>1. Kept(d)
    BY <1>2 DEF Kept, TypeOK, Fetch, Send, BrokerReply, loopVars, resultVars, wireVars
  <2>2. now' \in Nat /\ now <= now'
    BY DEF TypeOK, Fetch, Send, BrokerReply, loopVars, resultVars, wireVars
  <2>. QED
    BY <2>1, <2>2, Elsewhere
<1>3. /\ UNCHANGED <<now, loopVars, resultVars>>
      /\ stage[c] \in Looping /\ stage'[c] \in {"pool", "sent"} /\ left[c] # <<>>
  BY DEF Fetch, Send, BrokerReply, Local, Phase, TypeOK, Looping
<1>4. Local(c)
  OBVIOUS
<1>5. Phase(c)'
  <2>1. stage'[c] = "sent" => sent_at'[c] \in Nat /\ retrieved_at[c] <= sent_at'[c]
    BY <1>4 DEF Fetch, Send, BrokerReply, Local, Phase, TypeOK, Live, Looping
  <2>2. Current(c)' = Current(c)
    BY <1>3 DEF Current, loopVars
  <2>. QED
    BY <1>3, <1>4, <2>1, <2>2 DEF Local, Phase, Live, Looping, loopVars
<1>6. Agenda(c)' /\ Reasons(c)'
  BY <1>3, <1>4 DEF Local, Agenda, Reasons, Live, Looping, loopVars, resultVars
<1>7. Stopped(c)'
  BY <1>3, <1>4 DEF Local, Stopped, Looping, Fetch, Send, BrokerReply, loopVars, resultVars
<1>8. Evidence(c)'
  <2>1. Current(c)' = Current(c) /\ Fetched(c)' = Fetched(c) /\ Waiting(c)' = Waiting(c)
    BY <1>3 DEF Current, Fetched, Waiting, loopVars, resultVars
  <2>. QED
    BY <1>3, <1>4, <2>1 DEF Local, Evidence, Shows, Untouched, Looping, loopVars, resultVars
<1>. QED
  BY <1>1, <1>2, <1>5, <1>6, <1>7, <1>8 DEF Local

\* An exception leaves collect.
LEMMA AbortStep ==
    ASSUME IInv, NEW c \in Collector,
           ReceiveUntyped(c) \/ TransportAbort(c) \/ Cancel(c)
    PROVE  IInv'
<1> USE DEF IInv
<1>1. TypeOK'
  BY DEF TypeOK, ReceiveUntyped, TransportAbort, Cancel, Abort, loopVars, resultVars
<1>2. ASSUME NEW d \in Collector, d # c PROVE Local(d)'
  <2>1. Kept(d)
    BY <1>2 DEF Kept, TypeOK, ReceiveUntyped, TransportAbort, Cancel, Abort, loopVars, resultVars
  <2>2. now' \in Nat /\ now <= now'
    BY DEF TypeOK, ReceiveUntyped, TransportAbort, Cancel, Abort, loopVars, resultVars
  <2>. QED
    BY <2>1, <2>2, Elsewhere
<1>3. /\ stage'[c] \in {"raised", "cancelled"} /\ stage[c] \in Looping
      /\ UNCHANGED <<now, loopVars, resultVars>>
  BY DEF ReceiveUntyped, TransportAbort, Cancel, Abort, TypeOK, Looping
<1>4. Local(c)
  OBVIOUS
<1>5. Phase(c)' /\ Agenda(c)'
  BY <1>3, <1>4 DEF Local, Phase, Agenda, Live, Looping, loopVars, resultVars
<1>6. Reasons(c)' /\ Stopped(c)'
  BY <1>3, <1>4 DEF Local, Reasons, Stopped, Looping, loopVars, resultVars
<1>7. Evidence(c)'
  <2>1. Fetched(c)' = Fetched(c)
    BY <1>3 DEF Fetched, resultVars
  <2>. QED
    BY <1>3, <1>4, <2>1 DEF Local, Evidence, Shows, Looping, loopVars, resultVars
<1>. QED
  BY <1>1, <1>2, <1>5, <1>6, <1>7 DEF Local

\* The loop over a capability's endpoints begins.
LEMMA OpenStep ==
    ASSUME IInv, NEW c \in Collector, OpenCapability(c)
    PROVE  IInv'
<1> USE DEF IInv
<1> DEFINE cur == Current(c)
<1>1. /\ stage[c] = "next" /\ todo[c] # {} /\ todo[c] \in SUBSET Capability
      /\ Supported(cur) /\ authentication_issue[c] = None
  BY DEF OpenCapability, TypeOK
<1>2. /\ Endpoints[cur] \in Seq(Endpoint) /\ Endpoints[cur] # <<>> /\ Distinct(Endpoints[cur])
      /\ EndpointsOf(cur) = {Endpoints[cur][i] : i \in DOMAIN Endpoints[cur]}
  BY <1>1, EndpointFacts
<1>3. TypeOK'
  BY <1>2 DEF TypeOK, OpenCapability, resultVars, wireVars
<1>4. ASSUME NEW d \in Collector, d # c PROVE Local(d)'
  <2>1. Kept(d)
    BY <1>4 DEF Kept, TypeOK, OpenCapability, resultVars, wireVars
  <2>2. now' \in Nat /\ now <= now'
    BY DEF TypeOK, OpenCapability
  <2>. QED
    BY <2>1, <2>2, Elsewhere
<1>5. /\ stage'[c] = "fetch" /\ left'[c] = Endpoints[cur] /\ issues'[c] = <<>>
      /\ UNCHANGED <<now, request, retrieved_at, todo, authentication_issue, artifacts, outcomes>>
  BY DEF OpenCapability, TypeOK, resultVars
<1>6. Current(c)' = cur /\ Fetched(c)' = Fetched(c) /\ Waiting(c)' = EndpointsOf(cur)
  BY <1>2, <1>5 DEF Current, Fetched, Waiting
<1>7. cur \in todo[c]
  BY <1>1, FirstIsLeast DEF Current
<1>8. Local(c)
  OBVIOUS
<1>9. Phase(c)'
  BY <1>1, <1>5, <1>6, <1>8 DEF Local, Phase, Live, Looping
<1>10. Agenda(c)'
  BY <1>1, <1>5, <1>8 DEF Local, Agenda, Live, Looping
<1>11. Reasons(c)' /\ Stopped(c)'
  BY <1>1, <1>5, <1>8 DEF Local, Reasons, Stopped, Looping, Distinct, Carries
<1>12. Evidence(c)'
  <2>1. EndpointsOf(cur) \intersect Fetched(c) = {}
    BY <1>1, <1>7, <1>8 DEF Local, Evidence, Untouched
  <2>. QED
    BY <1>1, <1>2, <1>5, <1>6, <1>8, <2>1 DEF Local, Evidence, Shows, Untouched, Looping
<1>. QED
  BY <1>3, <1>4, <1>9, <1>10, <1>11, <1>12 DEF Local

\* The outcomes after one more was recorded.
LEMMA SettleFacts ==
    ASSUME TypeOK, NEW c \in Collector, NEW status \in Status, NEW why \in Seq(Issue),
           todo[c] # {}, Settle(c, status, why)
    PROVE  /\ Current(c) \in todo[c] /\ Current(c) \in Capability
           /\ \A cap \in todo[c] \ {Current(c)} : Before(Current(c), cap)
           /\ todo'[c] = todo[c] \ {Current(c)}
           /\ todo' \in [Collector -> SUBSET Capability]
           /\ outcomes' \in [Collector -> Seq(OutcomeRecord)]
           /\ DOMAIN outcomes[c] = 1 .. Len(outcomes[c]) /\ Len(outcomes[c]) \in Nat
           /\ DOMAIN outcomes'[c] = 1 .. Len(outcomes[c]) + 1
           /\ \A i \in 1 .. Len(outcomes[c]) : outcomes'[c][i] = outcomes[c][i]
           /\ outcomes'[c][Len(outcomes[c]) + 1].capability = Current(c)
           /\ outcomes'[c][Len(outcomes[c]) + 1].status = status
           /\ outcomes'[c][Len(outcomes[c]) + 1].issues = why
           /\ \A d \in Collector \ {c} : todo'[d] = todo[d] /\ outcomes'[d] = outcomes[d]
<1>1. todo[c] \in SUBSET Capability /\ outcomes[c] \in Seq(OutcomeRecord)
  BY DEF TypeOK
<1>2. /\ Current(c) \in todo[c] /\ Current(c) \in Capability
      /\ \A cap \in todo[c] \ {Current(c)} : Before(Current(c), cap)
  BY <1>1, FirstIsLeast DEF Current
<1> DEFINE o == Outcome(Current(c), status, why)
<1>3. /\ o \in OutcomeRecord /\ o.capability = Current(c)
      /\ o.status = status /\ o.issues = why
  BY <1>2 DEF Outcome, OutcomeRecord
<1>4. /\ outcomes' = [outcomes EXCEPT ![c] = Append(outcomes[c], o)]
      /\ todo' = [todo EXCEPT ![c] = todo[c] \ {Current(c)}]
  BY DEF Settle
<1> HIDE DEF o
<1>5. /\ Append(outcomes[c], o) \in Seq(OutcomeRecord)
      /\ Len(Append(outcomes[c], o)) = Len(outcomes[c]) + 1
      /\ \A i \in 1 .. Len(outcomes[c]) : Append(outcomes[c], o)[i] = outcomes[c][i]
      /\ Append(outcomes[c], o)[Len(outcomes[c]) + 1] = o
  BY <1>1, <1>3
<1>6. /\ outcomes' \in [Collector -> Seq(OutcomeRecord)]
      /\ outcomes'[c] = Append(outcomes[c], o)
      /\ \A d \in Collector \ {c} : outcomes'[d] = outcomes[d]
  BY <1>4, <1>5 DEF TypeOK
<1>7. /\ todo' \in [Collector -> SUBSET Capability]
      /\ todo'[c] = todo[c] \ {Current(c)}
      /\ \A d \in Collector \ {c} : todo'[d] = todo[d]
  BY <1>1, <1>4 DEF TypeOK
<1>8. DOMAIN outcomes'[c] = 1 .. Len(outcomes[c]) + 1
  BY <1>5, <1>6
<1>. QED
  BY <1>1, <1>2, <1>3, <1>5, <1>6, <1>7, <1>8

\* A new outcome keeps the list of the capabilities in step.
LEMMA SettleAgenda ==
    ASSUME TypeOK, NEW c \in Collector, NEW status \in Status, NEW why \in Seq(Issue),
           todo[c] # {}, Settle(c, status, why), Agenda(c),
           stage[c] \in Live, stage'[c] = "next"
    PROVE  Agenda(c)'
<1> DEFINE n == Len(outcomes[c])
<1>1. /\ Current(c) \in todo[c] /\ Current(c) \in Capability
      /\ \A cap \in todo[c] \ {Current(c)} : Before(Current(c), cap)
      /\ todo'[c] = todo[c] \ {Current(c)}
      /\ DOMAIN outcomes[c] = 1 .. n /\ n \in Nat
      /\ DOMAIN outcomes'[c] = 1 .. n + 1
      /\ \A i \in 1 .. n : outcomes'[c][i] = outcomes[c][i]
      /\ outcomes'[c][n + 1].capability = Current(c)
  BY SettleFacts
<1>2. request' = request
  BY DEF Settle
<1>3. /\ request[c] # {}
      /\ todo[c] \subseteq request[c]
      /\ \A cap : cap \in request[c] \ todo[c] <=> \E i \in 1 .. n : outcomes[c][i].capability = cap
  <2>1. {outcomes[c][i].capability : i \in 1 .. n} = request[c] \ todo[c]
    BY <1>1 DEF Agenda
  <2>. QED
    BY <2>1 DEF Agenda
<1>4. {outcomes'[c][i].capability : i \in DOMAIN outcomes'[c]} = request'[c] \ todo'[c]
  <2>1. \A cap : (\E i \in 1 .. n + 1 : outcomes'[c][i].capability = cap)
                    <=> cap = Current(c) \/ \E i \in 1 .. n : outcomes[c][i].capability = cap
    BY <1>1
  <2>2. \A cap : cap \in request'[c] \ todo'[c]
                    <=> cap = Current(c) \/ cap \in request[c] \ todo[c]
    BY <1>1, <1>2, <1>3
  <2>3. \A cap : (\E i \in 1 .. n + 1 : outcomes'[c][i].capability = cap)
                    <=> cap \in request'[c] \ todo'[c]
    BY <1>3, <2>1, <2>2
  <2>4. {outcomes'[c][i].capability : i \in 1 .. n + 1} = request'[c] \ todo'[c]
    BY <2>3
  <2>. QED
    BY <1>1, <2>4
<1>5. ASSUME NEW i \in 1 .. n + 1, NEW j \in 1 .. n + 1, i < j
      PROVE  Before(outcomes'[c][i].capability, outcomes'[c][j].capability)
  <2>1. i \in 1 .. n
    BY <1>1, <1>5
  <2>2. CASE j \in 1 .. n
    BY <1>1, <1>5, <2>1, <2>2 DEF Agenda
  <2>3. CASE j = n + 1
    BY <1>1, <2>1, <2>3 DEF Agenda
  <2>. QED
    BY <1>1, <2>2, <2>3
<1>6. ASSUME NEW i \in 1 .. n + 1, NEW cap \in todo'[c]
      PROVE  Before(outcomes'[c][i].capability, cap)
  <2>1. CASE i \in 1 .. n
    BY <1>1, <2>1 DEF Agenda
  <2>2. CASE i = n + 1
    BY <1>1, <2>2
  <2>. QED
    BY <1>1, <2>1, <2>2
<1>. QED
  BY <1>1, <1>2, <1>3, <1>4, <1>5, <1>6 DEF Agenda

\* A capability that still waits differs from the settled ones, so that what
\* is fetched for it leaves their evidence alone.
LEMMA SettledApart ==
    ASSUME TypeOK, NEW c \in Collector, Agenda(c), NEW i \in DOMAIN outcomes[c]
    PROVE  outcomes[c][i].capability \notin todo[c]
  BY BeforeIsAnOrder DEF Agenda

\* A capability is settled without a request.
LEMMA SkipStep ==
    ASSUME IInv, NEW c \in Collector, SkipUnsupported(c) \/ SkipUnauthenticated(c)
    PROVE  IInv'
<1> USE DEF IInv
<1> DEFINE n == Len(outcomes[c])
<1>1. Local(c) /\ stage[c] = "next" /\ todo[c] # {}
  BY DEF SkipUnsupported, SkipUnauthenticated
<1>2. PICK status \in Status, why \in Seq(Issue) :
         /\ Settle(c, status, why)
         /\ \/ /\ status = "unsupported" /\ why = <<"capability.unsupported">>
               /\ ~Supported(Current(c))
            \/ /\ status = "failed" /\ why = <<authentication_issue[c]>>
               /\ Supported(Current(c)) /\ authentication_issue[c] \in StopCodes
  <2>1. CASE SkipUnsupported(c)
    <3>1. "unsupported" \in Status /\ <<"capability.unsupported">> \in Seq(Issue)
      BY ReasonFacts DEF Status
    <3>. QED
      BY <2>1, <3>1 DEF SkipUnsupported
  <2>2. CASE SkipUnauthenticated(c)
    <3>1. authentication_issue[c] \in StopCodes
      BY <1>1, <2>2 DEF SkipUnauthenticated, Local, Stopped
    <3>2. "failed" \in Status /\ <<authentication_issue[c]>> \in Seq(Issue)
      BY <3>1, ReasonFacts DEF Status
    <3>. QED
      BY <2>2, <3>1, <3>2 DEF SkipUnauthenticated
  <2>. QED
    BY <2>1, <2>2
<1>3. /\ Current(c) \in todo[c] /\ Current(c) \in Capability
      /\ todo'[c] = todo[c] \ {Current(c)}
      /\ todo' \in [Collector -> SUBSET Capability]
      /\ outcomes' \in [Collector -> Seq(OutcomeRecord)]
      /\ DOMAIN outcomes[c] = 1 .. n /\ n \in Nat
      /\ DOMAIN outcomes'[c] = 1 .. n + 1
      /\ \A i \in 1 .. n : outcomes'[c][i] = outcomes[c][i]
      /\ outcomes'[c][n + 1].capability = Current(c)
      /\ outcomes'[c][n + 1].status = status
      /\ outcomes'[c][n + 1].issues = why
      /\ \A d \in Collector \ {c} : todo'[d] = todo[d] /\ outcomes'[d] = outcomes[d]
  BY <1>1, <1>2, SettleFacts
<1>4. UNCHANGED <<now, token, stage, request, retrieved_at, left, issues,
                  authentication_issue, artifacts, sent_at, reply>>
  BY <1>2 DEF SkipUnsupported, SkipUnauthenticated, Settle, wireVars
<1>5. TypeOK'
  BY <1>3, <1>4 DEF TypeOK
<1>6. ASSUME NEW d \in Collector, d # c PROVE Local(d)'
  <2>1. Kept(d)
    BY <1>3, <1>4, <1>6 DEF Kept
  <2>2. now' \in Nat /\ now <= now'
    BY <1>4 DEF TypeOK
  <2>. QED
    BY <2>1, <2>2, Elsewhere
<1>7. Phase(c)'
  BY <1>1, <1>4 DEF Local, Phase, Live, Looping
<1>8. Agenda(c)'
  BY <1>1, <1>2, <1>4, SettleAgenda DEF Local, Live
<1>9. Reasons(c)'
  <2>1. status # "succeeded" /\ why # <<>> /\ Distinct(why)
    BY <1>2 DEF Distinct
  <2>2. ASSUME NEW i \in 1 .. n + 1
        PROVE  /\ outcomes'[c][i].status = "succeeded" <=> outcomes'[c][i].issues = <<>>
               /\ Distinct(outcomes'[c][i].issues)
    <3>1. CASE i \in 1 .. n
      BY <1>1, <1>3, <3>1 DEF Local, Reasons
    <3>2. CASE i = n + 1
      BY <1>3, <2>1, <3>2
    <3>. QED
      BY <1>3, <3>1, <3>2
  <2>. QED
    BY <1>1, <1>3, <1>4, <2>2 DEF Local, Reasons
<1>10. Stopped(c)'
  <2>1. ASSUME authentication_issue[c] = None
        PROVE  \A i \in 1 .. n + 1 : \A code \in StopCodes : ~Carries(outcomes'[c][i].issues, code)
    <3>1. why = <<"capability.unsupported">>
      BY <1>2, <2>1, ReasonFacts
    <3>2. \A code \in StopCodes : ~Carries(why, code)
      BY <3>1, ReasonFacts DEF Carries
    <3>3. ASSUME NEW i \in 1 .. n + 1, NEW code \in StopCodes
          PROVE  ~Carries(outcomes'[c][i].issues, code)
      <4>1. CASE i \in 1 .. n
        BY <1>1, <1>3, <2>1, <4>1 DEF Local, Stopped
      <4>2. CASE i = n + 1
        BY <1>3, <3>2, <4>2
      <4>. QED
        BY <1>3, <4>1, <4>2
    <3>. QED
      BY <3>3
  <2>2. ASSUME NEW i \in 1 .. n + 1, NEW j \in 1 .. n + 1,
               authentication_issue[c] # None, i < j,
               Carries(outcomes'[c][i].issues, authentication_issue[c]),
               outcomes'[c][j].status # "unsupported"
        PROVE  /\ outcomes'[c][j].status = "failed"
               /\ outcomes'[c][j].issues = <<authentication_issue[c]>>
    <3>1. i \in 1 .. n
      BY <1>3, <2>2
    <3>2. CASE j \in 1 .. n
      BY <1>1, <1>3, <2>2, <3>1, <3>2 DEF Local, Stopped
    <3>3. CASE j = n + 1
      BY <1>2, <1>3, <2>2, <3>3
    <3>. QED
      BY <1>3, <3>2, <3>3
  <2>. QED
    BY <1>1, <1>3, <1>4, <2>1, <2>2 DEF Local, Stopped, Looping
<1>11. Evidence(c)'
  <2>1. Fetched(c)' = Fetched(c)
    BY <1>4 DEF Fetched
  <2>2. ASSUME NEW i \in 1 .. n + 1 PROVE Shows(c, outcomes[c][i])'
    <3>1. CASE i \in 1 .. n
      <4>1. Shows(c, outcomes[c][i]) /\ outcomes'[c][i] = outcomes[c][i]
        BY <1>1, <1>3, <3>1 DEF Local, Evidence
      <4>. QED
        BY <2>1, <4>1 DEF Shows
    <3>2. CASE i = n + 1
      <4>1. Supported(Current(c)) => EndpointsOf(Current(c)) # {}
                                     /\ EndpointsOf(Current(c)) \intersect Fetched(c) = {}
        BY <1>1, <1>3, EndpointFacts DEF Local, Evidence, Untouched
      <4>. QED
        BY <1>2, <1>3, <2>1, <3>2, <4>1 DEF Shows
    <3>. QED
      BY <1>3, <3>1, <3>2
  <2>. QED
    BY <1>1, <1>3, <1>4, <2>1, <2>2 DEF Local, Evidence, Untouched, Looping
<1>. QED
  BY <1>5, <1>6, <1>7, <1>8, <1>9, <1>10, <1>11 DEF Local

\* A capability is settled by what its endpoints gave.
LEMMA CloseStep ==
    ASSUME IInv, NEW c \in Collector, CloseCapability(c)
    PROVE  IInv'
<1> USE DEF IInv
<1> DEFINE n == Len(outcomes[c])
           status == CapabilityStatus(c)
<1>1. /\ Local(c) /\ stage[c] = "fetch" /\ todo[c] # {} /\ left[c] = <<>>
      /\ Supported(Current(c)) /\ issues[c] \in Seq(Issue)
  BY DEF CloseCapability, Local, Phase, Looping, TypeOK
<1>2. /\ Settle(c, status, issues[c])
      /\ status \in Status
      /\ status # "unsupported"
      /\ status = "succeeded" <=> issues[c] = <<>>
      /\ status = "partial" => Successful(c) # {}
      /\ status = "failed" => Successful(c) = {}
  BY DEF CloseCapability, CapabilityStatus, Status
<1> HIDE DEF status
<1>3. /\ Current(c) \in todo[c] /\ Current(c) \in Capability
      /\ todo'[c] = todo[c] \ {Current(c)}
      /\ todo' \in [Collector -> SUBSET Capability]
      /\ outcomes' \in [Collector -> Seq(OutcomeRecord)]
      /\ DOMAIN outcomes[c] = 1 .. n /\ n \in Nat
      /\ DOMAIN outcomes'[c] = 1 .. n + 1
      /\ \A i \in 1 .. n : outcomes'[c][i] = outcomes[c][i]
      /\ outcomes'[c][n + 1].capability = Current(c)
      /\ outcomes'[c][n + 1].status = status
      /\ outcomes'[c][n + 1].issues = issues[c]
      /\ \A d \in Collector \ {c} : todo'[d] = todo[d] /\ outcomes'[d] = outcomes[d]
  BY <1>1, <1>2, SettleFacts
<1>4. /\ UNCHANGED <<now, token, request, retrieved_at, left,
                     authentication_issue, artifacts, sent_at, reply>>
      /\ stage' = [stage EXCEPT ![c] = "next"]
      /\ issues' = [issues EXCEPT ![c] = <<>>]
  BY DEF CloseCapability, Settle, wireVars
<1>5. TypeOK'
  BY <1>3, <1>4 DEF TypeOK
<1>6. ASSUME NEW d \in Collector, d # c PROVE Local(d)'
  <2>1. Kept(d)
    BY <1>3, <1>4, <1>6 DEF Kept, TypeOK
  <2>2. now' \in Nat /\ now <= now'
    BY <1>4 DEF TypeOK
  <2>. QED
    BY <2>1, <2>2, Elsewhere
<1>7. stage'[c] = "next" /\ issues'[c] = <<>>
  BY <1>4 DEF TypeOK
<1>8. Phase(c)'
  BY <1>1, <1>4, <1>7 DEF Local, Phase, Live, Looping
<1>9. Agenda(c)'
  BY <1>1, <1>2, <1>7, SettleAgenda DEF Local, Live, Looping
<1>10. Reasons(c)'
  <2>1. ASSUME NEW i \in 1 .. n + 1
        PROVE  /\ outcomes'[c][i].status = "succeeded" <=> outcomes'[c][i].issues = <<>>
               /\ Distinct(outcomes'[c][i].issues)
    <3>1. CASE i \in 1 .. n
      BY <1>1, <1>3, <3>1 DEF Local, Reasons
    <3>2. CASE i = n + 1
      BY <1>1, <1>2, <1>3, <3>2 DEF Local, Reasons
    <3>. QED
      BY <1>3, <3>1, <3>2
  <2>. QED
    BY <1>3, <1>7, <2>1 DEF Reasons, Distinct
<1>11. Stopped(c)'
  <2>1. \A i \in 1 .. n : \A code \in StopCodes : ~Carries(outcomes[c][i].issues, code)
    BY <1>1, <1>3 DEF Local, Stopped, Looping
  <2>2. ASSUME authentication_issue[c] = None
        PROVE  \A i \in 1 .. n + 1 : \A code \in StopCodes : ~Carries(outcomes'[c][i].issues, code)
    <3>1. \A code \in StopCodes : ~Carries(issues[c], code)
      BY <1>1, <2>2 DEF Local, Stopped
    <3>2. ASSUME NEW i \in 1 .. n + 1, NEW code \in StopCodes
          PROVE  ~Carries(outcomes'[c][i].issues, code)
      <4>1. CASE i \in 1 .. n
        BY <1>3, <2>1, <4>1
      <4>2. CASE i = n + 1
        BY <1>3, <3>1, <4>2
      <4>. QED
        BY <1>3, <4>1, <4>2
    <3>. QED
      BY <3>2
  <2>3. ASSUME NEW i \in 1 .. n + 1, NEW j \in 1 .. n + 1,
               authentication_issue[c] # None, i < j,
               Carries(outcomes'[c][i].issues, authentication_issue[c])
        PROVE  FALSE
    <3>1. i \in 1 .. n
      BY <1>3, <2>3
    <3>2. authentication_issue[c] \in StopCodes
      BY <1>1, <2>3 DEF Local, Stopped
    <3>. QED
      BY <1>3, <2>1, <2>3, <3>1, <3>2
  <2>4. \A code \in StopCodes : ~Carries(issues'[c], code)
    BY <1>7 DEF Carries
  <2>. QED
    BY <1>1, <1>3, <1>4, <1>7, <2>2, <2>3, <2>4 DEF Local, Stopped, Looping
<1>12. Evidence(c)'
  <2>1. Fetched(c)' = Fetched(c)
    BY <1>4 DEF Fetched
  <2>2. Waiting(c) = {}
    BY <1>1 DEF Waiting
  <2>3. issues[c] = <<>> <=> EndpointsOf(Current(c)) \subseteq Fetched(c)
    BY <1>1, <2>2 DEF Local, Evidence, Looping
  <2>4. EndpointsOf(Current(c)) # {}
    BY <1>1, EndpointFacts
  <2>5. ASSUME NEW i \in 1 .. n + 1 PROVE Shows(c, outcomes[c][i])'
    <3>1. CASE i \in 1 .. n
      <4>1. Shows(c, outcomes[c][i]) /\ outcomes'[c][i] = outcomes[c][i]
        BY <1>1, <1>3, <3>1 DEF Local, Evidence
      <4>. QED
        BY <2>1, <4>1 DEF Shows
    <3>2. CASE i = n + 1
      <4>1. status \in {"succeeded", "partial", "failed"}
        BY <1>2 DEF Status
      <4>2. status = "failed" <=> EndpointsOf(Current(c)) \intersect Fetched(c) = {}
        BY <1>2, <2>3, <2>4, <4>1 DEF Successful
      <4>. QED
        BY <1>1, <1>2, <1>3, <2>1, <2>3, <3>2, <4>2 DEF Shows
    <3>. QED
      BY <1>3, <3>1, <3>2
  <2>. QED
    BY <1>1, <1>3, <1>4, <1>7, <2>1, <2>5 DEF Local, Evidence, Untouched, Looping
<1>. QED
  BY <1>5, <1>6, <1>8, <1>9, <1>10, <1>11, <1>12 DEF Local

\* The endpoints left after the first is done with.
LEMMA TailFacts ==
    ASSUME NEW c \in Collector, left[c] \in Seq(Endpoint), left[c] # <<>>, Distinct(left[c])
    PROVE  /\ Head(left[c]) \in Endpoint /\ Head(left[c]) \in Waiting(c)
           /\ Tail(left[c]) \in Seq(Endpoint)
           /\ Distinct(Tail(left[c]))
           /\ {Tail(left[c])[i] : i \in DOMAIN Tail(left[c])} = Waiting(c) \ {Head(left[c])}
<1> DEFINE s == left[c]
<1>1. /\ Len(s) \in Nat \ {0} /\ DOMAIN s = 1 .. Len(s)
      /\ Head(s) = s[1] /\ \A i \in 1 .. Len(s) : s[i] \in Endpoint
  OBVIOUS
<1>2. /\ Tail(s) \in Seq(Endpoint)
      /\ Len(Tail(s)) = Len(s) - 1
      /\ \A i \in 1 .. Len(s) - 1 : Tail(s)[i] = s[i + 1]
  BY HeadTailProperties
<1>3. DOMAIN Tail(s) = 1 .. Len(s) - 1
  BY <1>1, <1>2
<1>4. Distinct(Tail(s))
  <2> SUFFICES ASSUME NEW i \in 1 .. Len(s) - 1, NEW j \in 1 .. Len(s) - 1,
                      Tail(s)[i] = Tail(s)[j]
               PROVE  i = j
    BY <1>3 DEF Distinct
  <2>1. i + 1 \in 1 .. Len(s) /\ j + 1 \in 1 .. Len(s) /\ s[i + 1] = s[j + 1]
    BY <1>1, <1>2
  <2>2. i + 1 = j + 1
    BY <1>1, <2>1 DEF Distinct
  <2>. QED
    BY <2>2
<1>5. ASSUME NEW e
      PROVE  (\E i \in 1 .. Len(s) - 1 : Tail(s)[i] = e)
               <=> (\E i \in 1 .. Len(s) : s[i] = e) /\ e # s[1]
  <2>1. ASSUME NEW i \in 1 .. Len(s) - 1, Tail(s)[i] = e
        PROVE  (\E k \in 1 .. Len(s) : s[k] = e) /\ e # s[1]
    <3>1. i + 1 \in 1 .. Len(s) /\ i + 1 # 1 /\ s[i + 1] = e
      BY <1>1, <1>2, <2>1
    <3>. QED
      BY <1>1, <3>1 DEF Distinct
  <2>2. ASSUME NEW i \in 1 .. Len(s), s[i] = e, e # s[1]
        PROVE  \E k \in 1 .. Len(s) - 1 : Tail(s)[k] = e
    <3>1. i - 1 \in 1 .. Len(s) - 1 /\ Tail(s)[i - 1] = s[i]
      BY <1>1, <1>2, <2>2
    <3>. QED
      BY <2>2, <3>1
  <2>. QED
    BY <2>1, <2>2
<1>6. \A e : e \in Waiting(c) <=> \E i \in 1 .. Len(s) : s[i] = e
  BY <1>1 DEF Waiting
<1>7. \A e : e \in {Tail(s)[i] : i \in DOMAIN Tail(s)} <=> e \in Waiting(c) \ {Head(s)}
  <2>1. \A e : e \in {Tail(s)[i] : i \in DOMAIN Tail(s)}
                 <=> \E i \in 1 .. Len(s) - 1 : Tail(s)[i] = e
    BY <1>3
  <2>2. Head(s) = s[1]
    BY <1>1
  <2>. QED
    BY <1>5, <1>6, <2>1, <2>2
<1>8. Head(s) \in Endpoint /\ Head(s) \in Waiting(c)
  BY <1>1, <1>6
<1>. QED
  BY <1>2, <1>4, <1>7, <1>8

\* The issues after one more was noted.
LEMMA NoteFacts ==
    ASSUME TypeOK, NEW c \in Collector, NEW code \in Issue, NoteIssue(c, code),
           Distinct(issues[c])
    PROVE  /\ issues' \in [Collector -> Seq(Issue)]
           /\ Distinct(issues'[c])
           /\ issues'[c] # <<>>
           /\ Carries(issues'[c], code)
           /\ \A x : Carries(issues'[c], x) => x = code \/ Carries(issues[c], x)
           /\ \A d \in Collector \ {c} : issues'[d] = issues[d]
<1> DEFINE s == issues[c]
<1>1. s \in Seq(Issue) /\ Len(s) \in Nat /\ DOMAIN s = 1 .. Len(s)
  BY DEF TypeOK
<1>2. \A d \in Collector \ {c} : issues'[d] = issues[d]
  BY DEF NoteIssue, TypeOK
<1>3. CASE code \in {s[i] : i \in DOMAIN s}
  <2>1. issues' = [issues EXCEPT ![c] = s]
    BY <1>3 DEF NoteIssue
  <2>2. issues'[c] = s /\ issues' \in [Collector -> Seq(Issue)]
    BY <1>1, <2>1 DEF TypeOK
  <2>3. Carries(s, code) /\ s # <<>>
    BY <1>1, <1>3 DEF Carries
  <2>. QED
    BY <1>2, <2>2, <2>3
<1>4. CASE code \notin {s[i] : i \in DOMAIN s}
  <2>1. issues' = [issues EXCEPT ![c] = Append(s, code)]
    BY <1>4 DEF NoteIssue
  <2>2. /\ Append(s, code) \in Seq(Issue) /\ Append(s, code) # <<>>
        /\ DOMAIN Append(s, code) = 1 .. Len(s) + 1
        /\ \A i \in 1 .. Len(s) : Append(s, code)[i] = s[i]
        /\ Append(s, code)[Len(s) + 1] = code
    BY <1>1
  <2>3. issues'[c] = Append(s, code) /\ issues' \in [Collector -> Seq(Issue)]
    BY <2>1, <2>2 DEF TypeOK
  <2>4. \A i \in 1 .. Len(s) : s[i] # code
    BY <1>1, <1>4
  <2>5. Distinct(Append(s, code))
    <3> SUFFICES ASSUME NEW i \in 1 .. Len(s) + 1, NEW j \in 1 .. Len(s) + 1,
                        Append(s, code)[i] = Append(s, code)[j]
                 PROVE  i = j
      BY <2>2 DEF Distinct
    <3>1. CASE i \in 1 .. Len(s) /\ j \in 1 .. Len(s)
      BY <1>1, <2>2, <3>1 DEF Distinct
    <3>2. CASE i = Len(s) + 1 /\ j \in 1 .. Len(s)
      BY <2>2, <2>4, <3>2
    <3>3. CASE i \in 1 .. Len(s) /\ j = Len(s) + 1
      BY <2>2, <2>4, <3>3
    <3>. QED
      BY <1>1, <3>1, <3>2, <3>3
  <2>6. Carries(Append(s, code), code)
    BY <1>1, <2>2 DEF Carries
  <2>7. ASSUME NEW x, Carries(Append(s, code), x) PROVE x = code \/ Carries(s, x)
    <3>1. PICK k \in 1 .. Len(s) + 1 : Append(s, code)[k] = x
      BY <2>2, <2>7 DEF Carries
    <3>2. k \in 1 .. Len(s) \/ k = Len(s) + 1
      BY <1>1
    <3>. QED
      BY <1>1, <2>2, <3>1, <3>2 DEF Carries
  <2>. QED
    BY <1>2, <2>2, <2>3, <2>5, <2>6, <2>7
<1>. QED
  BY <1>3, <1>4

\* A failure is noted; one that stops the collection empties the loop.
LEMMA FailStep ==
    ASSUME IInv, NEW c \in Collector, NEW failure \in DOMAIN ReasonCode,
           stage[c] \in Looping, left[c] # <<>>, Fail(c, failure)
    PROVE  IInv'
<1> USE DEF IInv
<1> DEFINE code == ReasonCode[failure]
<1>1. /\ code \in Issue /\ code # None
      /\ StopsCollection(failure) <=> code \in StopCodes
  BY ReasonFacts, CollectionAssumption
<1> HIDE DEF code
<1>2. /\ Local(c) /\ left[c] \in Seq(Endpoint) /\ Distinct(left[c]) /\ Distinct(issues[c])
  BY DEF Local, Evidence, Reasons, TypeOK
<1>3. authentication_issue[c] = None
  BY <1>2 DEF Local, Stopped, Looping
<1>4. NoteIssue(c, code)
  BY DEF Fail, code
<1>5. /\ issues' \in [Collector -> Seq(Issue)]
      /\ Distinct(issues'[c])
      /\ issues'[c] # <<>>
      /\ Carries(issues'[c], code)
      /\ \A x : Carries(issues'[c], x) => x = code \/ Carries(issues[c], x)
      /\ \A d \in Collector \ {c} : issues'[d] = issues[d]
  BY <1>1, <1>2, <1>4, NoteFacts
<1>6. /\ UNCHANGED <<now, token, request, retrieved_at, todo, artifacts, outcomes>>
      /\ stage' = [stage EXCEPT ![c] = "fetch"]
      /\ sent_at' = [sent_at EXCEPT ![c] = None]
      /\ reply' = [reply EXCEPT ![c] = None]
  BY DEF Fail, resultVars
<1>7. /\ Head(left[c]) \in Waiting(c)
      /\ Tail(left[c]) \in Seq(Endpoint)
      /\ Distinct(Tail(left[c]))
      /\ {Tail(left[c])[i] : i \in DOMAIN Tail(left[c])} = Waiting(c) \ {Head(left[c])}
  BY <1>2, TailFacts
<1>8. PICK rest \in {<<>>, Tail(left[c])} :
         /\ left' = [left EXCEPT ![c] = rest]
         /\ \/ /\ code \in StopCodes
               /\ rest = <<>>
               /\ authentication_issue' = [authentication_issue EXCEPT ![c] = code]
            \/ /\ code \notin StopCodes
               /\ UNCHANGED authentication_issue
  BY <1>1 DEF Fail, code
<1>9. /\ rest \in Seq(Endpoint) /\ Distinct(rest)
      /\ {rest[i] : i \in DOMAIN rest} \subseteq Waiting(c) \ {Head(left[c])}
  <2>1. CASE rest = <<>>
    BY <2>1 DEF Distinct
  <2>2. CASE rest = Tail(left[c])
    BY <1>7, <2>2
  <2>. QED
    BY <2>1, <2>2
<1>10. TypeOK'
  <2>1. left' \in [Collector -> Seq(Endpoint)]
    BY <1>8, <1>9 DEF TypeOK
  <2>2. authentication_issue' \in [Collector -> Issue \union {None}]
    BY <1>1, <1>8 DEF TypeOK
  <2>3. /\ sent_at' \in [Collector -> Nat \union {None}]
        /\ reply' \in [Collector -> Replies \union {None}]
    BY <1>6 DEF TypeOK
  <2>. QED
    BY <1>5, <1>6, <2>1, <2>2, <2>3 DEF TypeOK
<1>11. ASSUME NEW d \in Collector, d # c PROVE Local(d)'
  <2>1. Kept(d)
    BY <1>5, <1>6, <1>8, <1>11 DEF Kept, TypeOK
  <2>2. now' \in Nat /\ now <= now'
    BY <1>6 DEF TypeOK
  <2>. QED
    BY <2>1, <2>2, Elsewhere
<1>12. /\ stage'[c] = "fetch" /\ left'[c] = rest
       /\ \/ code \in StopCodes /\ rest = <<>> /\ authentication_issue'[c] = code
          \/ code \notin StopCodes /\ authentication_issue'[c] = None
  BY <1>3, <1>6, <1>8 DEF TypeOK
<1>13. Current(c)' = Current(c) /\ Fetched(c)' = Fetched(c)
       /\ Waiting(c)' = {rest[i] : i \in DOMAIN rest}
  BY <1>6, <1>12 DEF Current, Fetched, Waiting
<1>14. Phase(c)'
  BY <1>2, <1>6, <1>12, <1>13 DEF Local, Phase, Live, Looping
<1>15. Agenda(c)'
  BY <1>2, <1>6, <1>12 DEF Local, Agenda, Live, Looping
<1>16. Reasons(c)'
  BY <1>2, <1>5, <1>6 DEF Local, Reasons
<1>17. Stopped(c)'
  <2>1. /\ \A i \in DOMAIN outcomes[c] : \A x \in StopCodes :
              ~Carries(outcomes[c][i].issues, x)
        /\ \A x \in StopCodes : ~Carries(issues[c], x)
    BY <1>2, <1>3 DEF Local, Stopped
  <2>2. authentication_issue'[c] = None => \A x \in StopCodes : ~Carries(issues'[c], x)
    BY <1>1, <1>5, <1>12, <2>1, ReasonFacts
  <2>3. authentication_issue'[c] \in StopCodes \union {None}
    BY <1>12
  <2>4. authentication_issue'[c] # None => left'[c] = <<>>
    BY <1>1, <1>12
  <2>5. ASSUME NEW i \in DOMAIN outcomes'[c], authentication_issue'[c] # None,
               Carries(outcomes'[c][i].issues, authentication_issue'[c])
        PROVE  FALSE
    BY <1>6, <2>1, <2>3, <2>5
  <2>. QED
    BY <1>6, <1>12, <2>1, <2>2, <2>3, <2>4, <2>5 DEF Stopped
<1>18. Evidence(c)'
  <2>1. /\ Waiting(c) \subseteq EndpointsOf(Current(c)) \ Fetched(c)
        /\ \A cap \in todo[c] \ {Current(c)} : Untouched(c, cap)
    BY <1>2 DEF Local, Evidence
  <2>2. ~(EndpointsOf(Current(c)) \subseteq Fetched(c) \union Waiting(c)')
    BY <1>7, <1>9, <1>13, <2>1
  <2>3. Waiting(c)' \subseteq EndpointsOf(Current(c)) \ Fetched(c)
    BY <1>9, <1>13, <2>1
  <2>4. \A cap : Untouched(c, cap)' <=> Untouched(c, cap)
    BY <1>13 DEF Untouched
  <2>5. \A i \in DOMAIN outcomes'[c] : Shows(c, outcomes[c][i])'
    BY <1>2, <1>6, <1>13 DEF Local, Evidence, Shows
  <2>. QED
    BY <1>2, <1>5, <1>6, <1>9, <1>12, <1>13, <2>1, <2>2, <2>3, <2>4, <2>5
       DEF Local, Evidence, Looping
<1>. QED
  BY <1>10, <1>11, <1>14, <1>15, <1>16, <1>17, <1>18 DEF Local

LEMMA FailureStep ==
    ASSUME IInv, NEW c \in Collector,
           \/ FetchRefused(c) \/ ReceiveFailure(c)
           \/ \E failure \in {"timeout", "network"} : TransportFailure(c, failure)
    PROVE  IInv'
<1>1. CASE FetchRefused(c)
  <2>1. NotReady \in DOMAIN ReasonCode
    BY <1>1, ReasonFacts DEF FetchRefused, NotReady
  <2>. QED
    BY <1>1, <2>1, FailStep DEF FetchRefused, Looping
<1>2. ASSUME stage[c] \in {"pool", "sent"} PROVE left[c] # <<>> /\ stage[c] \in Looping
  BY <1>2 DEF IInv, Local, Phase, Looping
<1>3. CASE ReceiveFailure(c)
  BY <1>2, <1>3, FailStep DEF ReceiveFailure
<1>4. ASSUME NEW failure \in {"timeout", "network"}, TransportFailure(c, failure)
      PROVE  IInv'
  BY <1>2, <1>4, FailStep, ReasonFacts DEF TransportFailure
<1>. QED
  BY <1>1, <1>3, <1>4

\* An artifact joins those the capability has.
LEMMA ReceiveStep ==
    ASSUME IInv, NEW c \in Collector, Receive(c)
    PROVE  IInv'
<1> USE DEF IInv
<1> DEFINE n == Len(artifacts[c])
           e == Head(left[c])
<1>1. /\ Local(c) /\ stage[c] = "sent" /\ left[c] # <<>> /\ left[c] \in Seq(Endpoint)
      /\ Distinct(left[c]) /\ retrieved_at[c] \in Nat /\ todo[c] # {}
      /\ todo[c] \in SUBSET Capability /\ Supported(Current(c))
      /\ artifacts[c] \in Seq(ArtifactRecord)
  BY DEF Receive, Local, Phase, Evidence, Live, Looping, TypeOK
<1>2. /\ e \in Endpoint /\ e \in Waiting(c)
      /\ Tail(left[c]) \in Seq(Endpoint)
      /\ Distinct(Tail(left[c]))
      /\ {Tail(left[c])[i] : i \in DOMAIN Tail(left[c])} = Waiting(c) \ {e}
  BY <1>1, TailFacts
<1>3. Artifact(c) \in ArtifactRecord /\ Artifact(c).endpoint = e
  BY <1>1, <1>2 DEF Artifact, ArtifactRecord
<1>4. /\ Append(artifacts[c], Artifact(c)) \in Seq(ArtifactRecord)
      /\ n \in Nat /\ DOMAIN artifacts[c] = 1 .. n
      /\ DOMAIN Append(artifacts[c], Artifact(c)) = 1 .. n + 1
      /\ \A i \in 1 .. n : Append(artifacts[c], Artifact(c))[i] = artifacts[c][i]
      /\ Append(artifacts[c], Artifact(c))[n + 1] = Artifact(c)
  BY <1>1, <1>3
<1>5. /\ UNCHANGED <<now, token, request, retrieved_at, todo, issues,
                     authentication_issue, outcomes>>
      /\ artifacts' = [artifacts EXCEPT ![c] = Append(artifacts[c], Artifact(c))]
      /\ left' = [left EXCEPT ![c] = Tail(left[c])]
      /\ stage' = [stage EXCEPT ![c] = "fetch"]
      /\ sent_at' = [sent_at EXCEPT ![c] = None]
      /\ reply' = [reply EXCEPT ![c] = None]
  BY DEF Receive
<1>6. /\ artifacts' \in [Collector -> Seq(ArtifactRecord)]
      /\ artifacts'[c] = Append(artifacts[c], Artifact(c))
      /\ left' \in [Collector -> Seq(Endpoint)] /\ left'[c] = Tail(left[c])
      /\ stage'[c] = "fetch"
      /\ sent_at' \in [Collector -> Nat \union {None}]
      /\ reply' \in [Collector -> Replies \union {None}]
  BY <1>2, <1>4, <1>5 DEF TypeOK
<1>7. TypeOK'
  BY <1>5, <1>6 DEF TypeOK
<1>8. ASSUME NEW d \in Collector, d # c PROVE Local(d)'
  <2>1. Kept(d)
    BY <1>5, <1>8 DEF Kept, TypeOK
  <2>2. now' \in Nat /\ now <= now'
    BY <1>5 DEF TypeOK
  <2>. QED
    BY <2>1, <2>2, Elsewhere
<1>9. /\ Current(c)' = Current(c)
      /\ Fetched(c)' = Fetched(c) \union {e}
      /\ Waiting(c)' = Waiting(c) \ {e}
  <2>1. Current(c)' = Current(c)
    BY <1>5 DEF Current
  <2>2. Waiting(c)' = Waiting(c) \ {e}
    BY <1>2, <1>6 DEF Waiting
  <2>3. \A x : x \in Fetched(c)' <=> \E i \in 1 .. n + 1 : artifacts'[c][i].endpoint = x
    BY <1>4, <1>6 DEF Fetched
  <2>4. \A x : x \in Fetched(c) <=> \E i \in 1 .. n : artifacts[c][i].endpoint = x
    BY <1>4 DEF Fetched
  <2>5. \A x : x \in Fetched(c)' <=> x = e \/ x \in Fetched(c)
    BY <1>3, <1>4, <1>6, <2>3, <2>4
  <2>. QED
    BY <2>1, <2>2, <2>5
<1>10. Phase(c)'
  BY <1>1, <1>5, <1>6, <1>9 DEF Local, Phase, Live, Looping
<1>11. Agenda(c)' /\ Reasons(c)'
  BY <1>1, <1>5, <1>6 DEF Local, Agenda, Reasons, Live, Looping
<1>12. Stopped(c)'
  BY <1>1, <1>5, <1>6 DEF Local, Stopped, Looping
<1>13. Evidence(c)'
  <2>1. /\ Waiting(c) \subseteq EndpointsOf(Current(c)) \ Fetched(c)
        /\ \A cap \in todo[c] \ {Current(c)} : Untouched(c, cap)
        /\ issues[c] = <<>> <=> EndpointsOf(Current(c)) \subseteq Fetched(c) \union Waiting(c)
        /\ \A i \in 1 .. n : \A j \in 1 .. n :
              artifacts[c][i].endpoint = artifacts[c][j].endpoint => i = j
    BY <1>1, <1>4 DEF Local, Evidence, Looping
  <2>2. e \in EndpointsOf(Current(c)) /\ e \notin Fetched(c)
    BY <1>2, <2>1
  <2>3. \A i \in 1 .. n : artifacts[c][i].endpoint # e
    BY <1>4, <2>2 DEF Fetched
  <2>4. ASSUME NEW i \in 1 .. n + 1, NEW j \in 1 .. n + 1,
               artifacts'[c][i].endpoint = artifacts'[c][j].endpoint
        PROVE  i = j
    <3>1. CASE i \in 1 .. n /\ j \in 1 .. n
      BY <1>4, <1>6, <2>1, <2>4, <3>1
    <3>2. CASE i = n + 1 /\ j \in 1 .. n
      BY <1>3, <1>4, <1>6, <2>3, <2>4, <3>2
    <3>3. CASE i \in 1 .. n /\ j = n + 1
      BY <1>3, <1>4, <1>6, <2>3, <2>4, <3>3
    <3>. QED
      BY <1>4, <3>1, <3>2, <3>3
  <2>5. \A cap : Supported(cap) /\ cap # Current(c) => e \notin EndpointsOf(cap)
    BY <1>1, <2>2, EndpointFacts
  <2>6. \A cap \in todo[c] \ {Current(c)} : Untouched(c, cap)'
    BY <1>9, <2>1, <2>5 DEF Untouched
  <2>7. Current(c) \in todo[c]
    BY <1>1, FirstIsLeast DEF Current
  <2>8. ASSUME NEW i \in DOMAIN outcomes[c] PROVE Shows(c, outcomes[c][i])'
    <3>1. outcomes[c][i].capability # Current(c)
      BY <1>1, <2>7, SettledApart DEF Local
    <3>2. Shows(c, outcomes[c][i])
      BY <1>1 DEF Local, Evidence
    <3>3. Supported(outcomes[c][i].capability) =>
             e \notin EndpointsOf(outcomes[c][i].capability)
      BY <2>5, <3>1
    <3>. QED
      BY <1>5, <1>9, <3>2, <3>3 DEF Shows
  <2>9. Fetched(c)' \union Waiting(c)' = Fetched(c) \union Waiting(c)
    BY <1>2, <1>9
  <2>10. Waiting(c)' \subseteq EndpointsOf(Current(c)) \ Fetched(c)'
    BY <1>9, <2>1
  <2>. QED
    BY <1>2, <1>4, <1>5, <1>6, <1>9, <2>1, <2>4, <2>6, <2>8, <2>9, <2>10 DEF Evidence, Looping
<1>. QED
  BY <1>7, <1>8, <1>10, <1>11, <1>12, <1>13 DEF Local

LEMMA InductiveInvariant == Spec => []IInv
<1>1. IInv /\ [Next]_vars => IInv'
  <2> SUFFICES ASSUME IInv, [Next]_vars PROVE IInv'
    OBVIOUS
  <2>1. ASSUME NEW c \in Collector, Step(c) PROVE IInv'
    BY <2>1, StartStep, SkipStep, OpenStep, CloseStep, ReturnStep, WireStep, ReceiveStep,
       FailureStep, AbortStep DEF Step
  <2>2. ASSUME NEW c \in Collector, NEW class \in Reply, BrokerReply(c, class) PROVE IInv'
    BY <2>2, WireStep
  <2>. QED
    BY <2>1, <2>2, ClockStep DEF Next
<1>. QED
  BY InitIInv, <1>1, PTL DEF Spec

-----------------------------------------------------------------------------
(* Theorems.                                                               *)

\* Every variable keeps its shape: in particular every artifact is stamped.
THEOREM TypeCorrect == Spec => []TypeOK
<1>1. IInv => TypeOK
  BY DEF IInv
<1>. QED
  BY <1>1, InductiveInvariant, PTL

\* The status of every outcome is what the artifacts show, however endpoints
\* fail and calls interleave.
THEOREM EvidenceMatchesHolds == Spec => []EvidenceMatches
<1>1. IInv => EvidenceMatches
  <2> SUFFICES ASSUME IInv, NEW c \in Collector
               PROVE  /\ \A i, j \in DOMAIN artifacts[c] :
                            artifacts[c][i].endpoint = artifacts[c][j].endpoint => i = j
                      /\ \A i \in DOMAIN outcomes[c] :
                            LET o == outcomes[c][i]
                                wanted == IF Supported(o.capability)
                                            THEN EndpointsOf(o.capability) ELSE {}
                                got == wanted \intersect Fetched(c)
                            IN  /\ o.status = "unsupported" <=> wanted = {}
                                /\ o.status = "succeeded" <=> wanted # {} /\ got = wanted
                                /\ o.status = "partial" <=> got \notin {{}, wanted}
    BY DEF EvidenceMatches
  <2>1. Evidence(c)
    BY DEF IInv, Local
  <2>2. ASSUME NEW i \in DOMAIN outcomes[c]
        PROVE  LET o == outcomes[c][i]
                   wanted == IF Supported(o.capability) THEN EndpointsOf(o.capability) ELSE {}
                   got == wanted \intersect Fetched(c)
               IN  /\ o.status = "unsupported" <=> wanted = {}
                   /\ o.status = "succeeded" <=> wanted # {} /\ got = wanted
                   /\ o.status = "partial" <=> got \notin {{}, wanted}
    <3> DEFINE o == outcomes[c][i]
    <3>1. o.status \in Status /\ Shows(c, o)
      <4>1. outcomes[c] \in Seq(OutcomeRecord)
        BY DEF IInv, TypeOK
      <4>2. o \in OutcomeRecord
        BY <4>1
      <4>. QED
        BY <2>1, <4>2 DEF OutcomeRecord, Evidence
    <3>2. Supported(o.capability) => EndpointsOf(o.capability) # {}
      BY EndpointFacts
    <3> HIDE DEF o
    <3>3. CASE Supported(o.capability)
      <4>1. PICK wanted : wanted = EndpointsOf(o.capability)
        OBVIOUS
      <4>2. PICK got : got = wanted \intersect Fetched(c)
        OBVIOUS
      <4>3. /\ o.status # "unsupported" /\ wanted # {}
            /\ o.status = "succeeded" <=> got = wanted
            /\ o.status = "failed" <=> got = {}
        BY <3>1, <3>2, <3>3, <4>1, <4>2 DEF Shows
      <4>4. o.status = "partial" <=> got \notin {{}, wanted}
        BY <3>1, <4>3 DEF Status
      <4>. QED
        BY <3>3, <4>1, <4>2, <4>3, <4>4 DEF o
    <3>4. CASE ~Supported(o.capability)
      BY <3>1, <3>4 DEF Shows, o
    <3>. QED
      BY <3>3, <3>4
  <2>. QED
    BY <2>1, <2>2 DEF Evidence
<1>. QED
  BY <1>1, InductiveInvariant, PTL

\* A returned result settles every requested capability once, in order.
THEOREM ResultCompleteHolds == Spec => []ResultComplete
<1>1. IInv => ResultComplete
  BY DEF IInv, Local, Agenda, ResultComplete, Live
<1>. QED
  BY <1>1, InductiveInvariant, PTL

\* The checks of the result classes never fail.
THEOREM ConstructorsAcceptHolds == Spec => []ConstructorsAccept
<1>1. IInv => ConstructorsAccept
  <2> SUFFICES ASSUME IInv, NEW c \in Collector
               PROVE  /\ stage[c] = "returned" => outcomes[c] # <<>>
                      /\ \A i \in DOMAIN outcomes[c] :
                            /\ outcomes[c][i].status = "succeeded" <=> outcomes[c][i].issues = <<>>
                            /\ Distinct(outcomes[c][i].issues)
    BY DEF ConstructorsAccept
  <2>1. Agenda(c) /\ Reasons(c)
    BY DEF IInv, Local
  <2>2. ASSUME stage[c] = "returned", outcomes[c] = <<>> PROVE FALSE
    <3>1. request[c] = {outcomes[c][i].capability : i \in DOMAIN outcomes[c]}
      BY <2>1, <2>2 DEF Agenda
    <3>. QED
      BY <2>1, <2>2, <3>1 DEF Agenda
  <2>. QED
    BY <2>1, <2>2 DEF Reasons
<1>. QED
  BY <1>1, InductiveInvariant, PTL

\* Nothing is sent after an authentication failure, and every later
\* capability fails for that reason.
THEOREM AuthenticationFailureIsFinalHolds == Spec => []AuthenticationFailureIsFinal
<1>1. IInv => AuthenticationFailureIsFinal
  BY DEF IInv, Local, Stopped, AuthenticationFailureIsFinal, Carries
<1>. QED
  BY <1>1, InductiveInvariant, PTL

\* An artifact's stamp is never later than its request.
THEOREM StampNeverLateHolds == Spec => StampNeverLate
<1> DEFINE A == \A c \in Collector : artifacts'[c] # artifacts[c] =>
                  artifacts'[c][Len(artifacts'[c])].retrieved_at <= sent_at[c]
<1>1. ASSUME IInv, [Next]_vars PROVE A
  <2> SUFFICES ASSUME NEW c \in Collector, artifacts'[c] # artifacts[c]
               PROVE  artifacts'[c][Len(artifacts'[c])].retrieved_at <= sent_at[c]
    OBVIOUS
  <2>1. Receive(c)
    <3>1. PICK d \in Collector : Step(d)
      BY <1>1 DEF Next, Tick, Revoke, BrokerReply, vars, resultVars
    <3>2. Receive(d)
      BY <3>1 DEF Step, Refuse, Begin, SkipUnsupported, SkipUnauthenticated, OpenCapability,
            CloseCapability, Return, FetchRefused, Fetch, Send, ReceiveFailure, ReceiveUntyped,
            TransportFailure, TransportAbort, Cancel, Settle, Fail, Abort, resultVars
    <3>3. d = c
      BY <1>1, <3>2 DEF Receive, IInv, TypeOK
    <3>. QED
      BY <3>2, <3>3
  <2>2. artifacts'[c] = Append(artifacts[c], Artifact(c)) /\ artifacts[c] \in Seq(ArtifactRecord)
    BY <1>1, <2>1 DEF Receive, IInv, TypeOK
  <2>3. artifacts'[c][Len(artifacts'[c])] = Artifact(c)
    BY <2>2
  <2>4. sent_at[c] \in Nat /\ retrieved_at[c] <= sent_at[c]
    BY <1>1, <2>1 DEF Receive, IInv, Local, Phase
  <2>. QED
    BY <2>3, <2>4 DEF Artifact
<1>2. IInv /\ [Next]_vars => [A]_vars
  BY <1>1
<1>. QED
  BY <1>2, InductiveInvariant, PTL DEF Spec, StampNeverLate

-----------------------------------------------------------------------------
(* Termination.                                                            *)

\* A bound on the steps a call has yet to take, with n capabilities on its list
\* and k endpoints of the current one to fetch: ten for a capability, three for
\* an endpoint.
StepsLeft(at, n, k) ==
    CASE at = "idle"  -> 91
      [] at = "next"  -> 10 * n + 10
      [] at = "fetch" -> 10 * n + 3 * k + 3
      [] at = "pool"  -> 10 * n + 3 * k + 2
      [] at = "sent"  -> 10 * n + 3 * k + 1
      [] OTHER -> 0

Work(c) == StepsLeft(stage[c], Cardinality(todo[c]), Len(left[c]))

Points == {"idle", "next", "fetch", "pool", "sent"}
Ends == {"returned", "raised", "cancelled"}

\* The end of a call leaves nothing, every other point something.
LEMMA SomethingLeft ==
    ASSUME NEW n \in Nat, NEW k \in Nat
    PROVE  /\ \A at \in Points : StepsLeft(at, n, k) \in Nat \ {0}
           /\ \A at \in Ends : StepsLeft(at, n, k) = 0
<1>1. \A at \in Points : StepsLeft(at, n, k) \in Nat \ {0}
  BY DEF StepsLeft, Points
<1>2. \A at \in Ends : StepsLeft(at, n, k) = 0
  BY DEF StepsLeft, Ends
<1>. QED
  BY <1>1, <1>2

\* From one point to the next.
LEMMA LessLeft ==
    ASSUME NEW n \in Nat, NEW k \in Nat, NEW j \in Nat
    PROVE  /\ StepsLeft("pool", n, k) < StepsLeft("fetch", n, k)
           /\ StepsLeft("sent", n, k) < StepsLeft("pool", n, k)
           /\ n <= 8 => StepsLeft("next", n, k) < StepsLeft("idle", j, k)
           /\ k <= 2 => StepsLeft("fetch", n, k) < StepsLeft("next", n, j)
           /\ \A at \in Looping : j < k => StepsLeft("fetch", n, j) < StepsLeft(at, n, k)
           /\ \A at \in {"next", "fetch"} :
                 j + 1 = n => StepsLeft("next", j, k) < StepsLeft(at, n, k)
<1>1. StepsLeft("pool", n, k) < StepsLeft("fetch", n, k)
  BY DEF StepsLeft
<1>2. StepsLeft("sent", n, k) < StepsLeft("pool", n, k)
  BY DEF StepsLeft
<1>3. n <= 8 => StepsLeft("next", n, k) < StepsLeft("idle", j, k)
  BY DEF StepsLeft
<1>4. k <= 2 => StepsLeft("fetch", n, k) < StepsLeft("next", n, j)
  BY DEF StepsLeft
<1>5. \A at \in Looping : j < k => StepsLeft("fetch", n, j) < StepsLeft(at, n, k)
  BY DEF StepsLeft, Looping
<1>6. \A at \in {"next", "fetch"} : j + 1 = n => StepsLeft("next", j, k) < StepsLeft(at, n, k)
  BY DEF StepsLeft
<1>. QED
  BY <1>1, <1>2, <1>3, <1>4, <1>5, <1>6

\* There are at most eight capabilities to settle, and one less when one is.
LEMMA AgendaSize ==
    ASSUME NEW S \in SUBSET Capability
    PROVE  /\ Cardinality(S) \in Nat /\ Cardinality(S) <= 8
           /\ S = {} <=> Cardinality(S) = 0
           /\ \A x \in S : Cardinality(S \ {x}) = Cardinality(S) - 1
<1>1. ByName \in [1 .. 8 -> Capability]
  BY NameFacts DEF ByName
<1>2. ByName \in Surjection(1 .. 8, Capability)
  BY <1>1, NameFacts DEF Surjection
<1>3. IsFiniteSet(1 .. 8) /\ Cardinality(1 .. 8) = 8
  <2>1. 1 \in Int /\ 8 \in Int
    OBVIOUS
  <2>2. /\ IsFiniteSet(1 .. 8)
        /\ Cardinality(1 .. 8) = IF 1 > 8 THEN 0 ELSE 8 - 1 + 1
    BY <2>1, FS_Interval, Zenon
  <2>. QED
    BY <2>2
<1>4. IsFiniteSet(Capability) /\ Cardinality(Capability) <= 8
  BY <1>2, <1>3, FS_Surjection
<1>5. IsFiniteSet(S) /\ Cardinality(S) <= Cardinality(Capability)
  BY <1>4, FS_Subset
<1>6. Cardinality(S) \in Nat /\ Cardinality(Capability) \in Nat
  BY <1>4, <1>5, FS_CardinalityType
<1>7. S = {} <=> Cardinality(S) = 0
  BY <1>5, FS_EmptySet
<1>8. \A x \in S : Cardinality(S \ {x}) = Cardinality(S) - 1
  BY <1>5, FS_RemoveElement
<1>. QED
  BY <1>4, <1>5, <1>6, <1>7, <1>8

\* No capability has more than two endpoints.
LEMMA EndpointCount == \A cap : Supported(cap) => Len(Endpoints[cap]) \in 1 .. 2
<1>1. DOMAIN Endpoints = {"activities", "balances", "holdings", "instruments", "positions"}
  BY DEF Endpoints
<1>2. /\ Endpoints["activities"] = <<"orders", "trades">>
      /\ Endpoints["balances"] = <<"funds">>
      /\ Endpoints["holdings"] = <<"holdings">>
      /\ Endpoints["instruments"] = <<"instruments">>
      /\ Endpoints["positions"] = <<"positions">>
  BY DEF Endpoints
<1>3. \A a, b : Len(<<a, b>>) = 2 /\ Len(<<a>>) = 1
  OBVIOUS
<1>. QED
  BY <1>1, <1>2, <1>3 DEF Supported

\* What a call has left, by the point where it stands.
LEMMA WorkAt ==
    ASSUME TypeOK, NEW c \in Collector
    PROVE  \E n, k \in Nat :
              /\ n <= 8 /\ n = Cardinality(todo[c]) /\ k = Len(left[c])
              /\ todo[c] = {} <=> n = 0
              /\ \A x \in todo[c] : Cardinality(todo[c] \ {x}) = n - 1
              /\ left[c] = <<>> <=> k = 0
              /\ left[c] # <<>> => Len(Tail(left[c])) = k - 1
              /\ Work(c) = StepsLeft(stage[c], n, k)
<1>1. todo[c] \in SUBSET Capability /\ left[c] \in Seq(Endpoint)
  BY DEF TypeOK
<1>2. PICK n \in Nat :
          /\ n <= 8 /\ n = Cardinality(todo[c])
          /\ todo[c] = {} <=> n = 0
          /\ \A x \in todo[c] : Cardinality(todo[c] \ {x}) = n - 1
  BY <1>1, AgendaSize
<1>3. PICK k \in Nat :
          /\ k = Len(left[c])
          /\ left[c] = <<>> <=> k = 0
          /\ left[c] # <<>> => Len(Tail(left[c])) = k - 1
  <2>1. Len(left[c]) \in Nat /\ (left[c] = <<>> <=> Len(left[c]) = 0)
    BY <1>1, EmptySeq
  <2>2. left[c] # <<>> => Len(Tail(left[c])) = Len(left[c]) - 1
    BY <1>1, HeadTailProperties
  <2>. QED
    BY <2>1, <2>2
<1>4. Work(c) = StepsLeft(stage[c], n, k)
  BY <1>2, <1>3 DEF Work
<1>. QED
  BY <1>2, <1>3, <1>4

LEMMA WorkIsNatural ==
    ASSUME TypeOK, NEW c \in Collector
    PROVE  Work(c) \in Nat
<1>1. PICK n, k \in Nat : Work(c) = StepsLeft(stage[c], n, k)
  BY WorkAt
<1>2. stage[c] \in Points \union Ends
  BY DEF TypeOK, Points, Ends
<1>3. \A at \in Points \union Ends : StepsLeft(at, n, k) \in Nat
  BY SomethingLeft
<1>. QED
  BY <1>1, <1>2, <1>3, Zenon

\* Settling a capability, opening one, and coming to the end of the list.
LEMMA WalkAdvances ==
    ASSUME IInv, NEW c \in Collector,
           \/ \E caps \in Requests : Refuse(c, caps) \/ Begin(c, caps)
           \/ SkipUnsupported(c) \/ SkipUnauthenticated(c) \/ OpenCapability(c)
           \/ CloseCapability(c) \/ Return(c)
    PROVE  Work(c)' < Work(c)
<1>1. TypeOK /\ (stage[c] \in Looping => todo[c] # {})
  BY DEF IInv, Local, Phase
<1>2. PICK n, k \in Nat :
          /\ n <= 8 /\ n = Cardinality(todo[c]) /\ k = Len(left[c])
          /\ todo[c] = {} <=> n = 0
          /\ \A x \in todo[c] : Cardinality(todo[c] \ {x}) = n - 1
          /\ left[c] = <<>> <=> k = 0
          /\ Work(c) = StepsLeft(stage[c], n, k)
  BY <1>1, WorkAt
<1>3. Work(c)' = StepsLeft(stage'[c], Cardinality(todo'[c]), Len(left'[c]))
  BY DEF Work
<1>4. ASSUME NEW caps \in Requests, Refuse(c, caps) PROVE Work(c)' < Work(c)
  <2>1. stage[c] = "idle" /\ stage'[c] = "raised" /\ todo' = todo /\ left' = left
    BY <1>1, <1>4 DEF Refuse, TypeOK
  <2>2. Work(c) = StepsLeft("idle", n, k) /\ Work(c)' = StepsLeft("raised", n, k)
    BY <1>2, <1>3, <2>1, Zenon
  <2>. QED
    BY <2>2, SomethingLeft DEF Points, Ends
<1>5. ASSUME NEW caps \in Requests, Begin(c, caps) PROVE Work(c)' < Work(c)
  <2>1. stage[c] = "idle" /\ stage'[c] = "next" /\ todo'[c] = caps /\ left' = left
    BY <1>1, <1>5 DEF Begin, TypeOK
  <2>2. caps \in SUBSET Capability
    BY CollectionAssumption
  <2>3. PICK m \in Nat : m <= 8 /\ m = Cardinality(caps)
    BY <2>2, AgendaSize
  <2>4. Work(c) = StepsLeft("idle", n, k) /\ Work(c)' = StepsLeft("next", m, k)
    BY <1>2, <1>3, <2>1, <2>3, Zenon
  <2>. QED
    BY <2>3, <2>4, LessLeft
<1>6. ASSUME NEW x \in todo[c], todo'[c] = todo[c] \ {x}, stage'[c] = "next", left' = left,
             stage[c] = "next" \/ (stage[c] = "fetch" /\ left[c] = <<>>)
      PROVE  Work(c)' < Work(c)
  <2>1. Cardinality(todo'[c]) = n - 1
    BY <1>2, <1>6, Zenon
  <2>2. n # 0
    BY <1>2, <1>6
  <2>3. PICK m \in Nat : m = n - 1
    BY <2>2
  <2>4. Work(c)' = StepsLeft("next", m, k)
    BY <1>2, <1>3, <1>6, <2>1, <2>3, Zenon
  <2>5. \/ Work(c) = StepsLeft("next", n, k)
        \/ Work(c) = StepsLeft("fetch", n, k)
    BY <1>2, <1>6, Zenon
  <2>. QED
    <3>1. m + 1 = n
      BY <2>3
    <3>. QED
      BY <2>4, <2>5, <3>1, LessLeft, Zenon
<1>7. CASE SkipUnsupported(c) \/ SkipUnauthenticated(c)
  <2>1. /\ stage[c] = "next" /\ stage'[c] = "next" /\ todo[c] # {} /\ left' = left
        /\ todo'[c] = todo[c] \ {Current(c)}
    BY <1>1, <1>7 DEF SkipUnsupported, SkipUnauthenticated, Settle, TypeOK
  <2>2. Current(c) \in todo[c]
    BY <1>1, <2>1, FirstIsLeast DEF Current, TypeOK
  <2>. QED
    BY <1>6, <2>1, <2>2, Zenon
<1>8. CASE CloseCapability(c)
  <2>1. /\ stage[c] = "fetch" /\ left[c] = <<>> /\ stage'[c] = "next" /\ left' = left
        /\ todo'[c] = todo[c] \ {Current(c)}
    BY <1>1, <1>8 DEF CloseCapability, Settle, TypeOK
  <2>2. Current(c) \in todo[c]
    BY <1>1, <2>1, FirstIsLeast DEF Current, TypeOK, Looping
  <2>. QED
    BY <1>6, <2>1, <2>2, Zenon
<1>9. CASE OpenCapability(c)
  <2>1. /\ stage[c] = "next" /\ stage'[c] = "fetch" /\ todo' = todo /\ todo[c] # {}
        /\ Supported(Current(c)) /\ left'[c] = Endpoints[Current(c)]
    BY <1>1, <1>9 DEF OpenCapability, TypeOK
  <2>2. PICK j \in Nat : j <= 2 /\ j = Len(left'[c])
    <3>1. PICK j \in 1 .. 2 : j = Len(Endpoints[Current(c)])
      BY <2>1, EndpointCount
    <3>2. j \in Nat /\ j <= 2
      OBVIOUS
    <3>. QED
      BY <2>1, <3>1, <3>2, Zenon
  <2>3. Work(c) = StepsLeft("next", n, k) /\ Work(c)' = StepsLeft("fetch", n, j)
    BY <1>2, <1>3, <2>1, <2>2, Zenon
  <2>. QED
    BY <2>2, <2>3, LessLeft, Zenon
<1>10. CASE Return(c)
  <2>1. stage[c] = "next" /\ stage'[c] = "returned" /\ todo' = todo /\ left' = left
    BY <1>1, <1>10 DEF Return, TypeOK, loopVars
  <2>2. Work(c) = StepsLeft("next", n, k) /\ Work(c)' = StepsLeft("returned", n, k)
    BY <1>2, <1>3, <2>1, Zenon
  <2>. QED
    BY <2>2, SomethingLeft DEF Points, Ends
<1>. QED
  BY <1>4, <1>5, <1>7, <1>8, <1>9, <1>10

\* What fetch does for one endpoint, and how it ends.
LEMMA FetchAdvances ==
    ASSUME IInv, NEW c \in Collector,
           \/ FetchRefused(c) \/ Fetch(c) \/ Send(c)
           \/ Receive(c) \/ ReceiveFailure(c) \/ ReceiveUntyped(c)
           \/ \E failure \in {"timeout", "network"} : TransportFailure(c, failure)
           \/ TransportAbort(c) \/ Cancel(c)
    PROVE  Work(c)' < Work(c)
<1>1. TypeOK /\ Phase(c)
  BY DEF IInv, Local
<1>2. PICK n, k \in Nat :
          /\ n <= 8 /\ n = Cardinality(todo[c]) /\ k = Len(left[c])
          /\ todo[c] = {} <=> n = 0
          /\ left[c] = <<>> <=> k = 0
          /\ left[c] # <<>> => Len(Tail(left[c])) = k - 1
          /\ Work(c) = StepsLeft(stage[c], n, k)
  BY <1>1, WorkAt
<1>3. Work(c)' = StepsLeft(stage'[c], Cardinality(todo'[c]), Len(left'[c]))
  BY DEF Work
<1>4. stage[c] \in Looping /\ todo[c] # {} /\ left[c] # <<>>
  BY <1>1 DEF FetchRefused, Fetch, Send, Receive, ReceiveFailure, ReceiveUntyped,
              TransportFailure, TransportAbort, Cancel, Phase, Looping
<1>5. n \in Nat \ {0} /\ k \in Nat \ {0}
  BY <1>2, <1>4
<1>6. Work(c) # 0 /\ Work(c) \in Nat
  <2>1. Work(c) = StepsLeft(stage[c], n, k) /\ stage[c] \in Points
    BY <1>2, <1>4 DEF Looping, Points
  <2>. QED
    BY <2>1, SomethingLeft
<1>7. CASE Fetch(c) \/ Send(c)
  <2>1. /\ \/ stage[c] = "fetch" /\ stage'[c] = "pool"
           \/ stage[c] = "pool" /\ stage'[c] = "sent"
        /\ todo' = todo /\ left' = left
    BY <1>1, <1>7 DEF Fetch, Send, TypeOK, loopVars
  <2>2. \/ /\ Work(c) = StepsLeft("fetch", n, k)
           /\ Work(c)' = StepsLeft("pool", n, k)
        \/ /\ Work(c) = StepsLeft("pool", n, k)
           /\ Work(c)' = StepsLeft("sent", n, k)
    BY <1>2, <1>3, <2>1, Zenon
  <2>. QED
    BY <2>2, LessLeft, Zenon
<1>8. ASSUME stage'[c] = "fetch", todo'[c] = todo[c], left'[c] = <<>> \/ left'[c] = Tail(left[c])
      PROVE  Work(c)' < Work(c)
  <2>1. PICK j \in Nat : j + 1 <= k /\ j = Len(left'[c])
    <3>1. CASE left'[c] = <<>>
      BY <1>5, <3>1
    <3>2. CASE left'[c] = Tail(left[c])
      <4>1. Len(left'[c]) = k - 1
        BY <1>2, <1>4, <3>2, Zenon
      <4>. QED
        BY <1>5, <4>1
    <3>. QED
      BY <1>8, <3>1, <3>2
  <2>2. Work(c)' = StepsLeft("fetch", n, j)
    BY <1>2, <1>3, <1>8, <2>1, Zenon
  <2>3. j < k
    BY <2>1
  <2>. QED
    BY <1>2, <1>4, <2>1, <2>2, <2>3, LessLeft, Zenon
<1>9. ASSUME NEW failure, Fail(c, failure) PROVE Work(c)' < Work(c)
  <2>1. /\ stage'[c] = "fetch" /\ todo'[c] = todo[c]
        /\ left'[c] = <<>> \/ left'[c] = Tail(left[c])
    BY <1>1, <1>9 DEF Fail, TypeOK
  <2>. QED
    BY <1>8, <2>1
<1>10. CASE Receive(c)
  <2>1. stage'[c] = "fetch" /\ todo'[c] = todo[c] /\ left'[c] = Tail(left[c])
    BY <1>1, <1>10 DEF Receive, TypeOK
  <2>. QED
    BY <1>8, <2>1
<1>11. ASSUME NEW how \in {"raised", "cancelled"}, Abort(c, how) PROVE Work(c)' < Work(c)
  <2>1. stage'[c] = how /\ todo' = todo /\ left' = left
    BY <1>1, <1>11 DEF Abort, TypeOK, loopVars
  <2>2. Work(c)' = StepsLeft(how, n, k)
    BY <1>2, <1>3, <2>1, Zenon
  <2>. QED
    BY <1>6, <2>2, SomethingLeft DEF Ends
<1>. QED
  BY <1>7, <1>9, <1>10, <1>11
  DEF FetchRefused, ReceiveFailure, ReceiveUntyped, TransportFailure, TransportAbort, Cancel

\* Every call of collect takes at most ninety-one steps, whatever the broker
\* answers and the other calls do, and nobody takes a step of another's call.
\* This is what CollectSettles needs beside the fairness of the calls.
THEOREM CollectAdvances ==
    Spec => /\ [](\A c \in Collector : Work(c) \in 0 .. 91)
            /\ [][\A c \in Collector :
                     IF Step(c) THEN Work(c)' < Work(c) ELSE Work(c)' = Work(c)]_vars
<1> DEFINE Bounded == \A c \in Collector : Work(c) \in 0 .. 91
           Advance == \A c \in Collector :
                         IF Step(c) THEN Work(c)' < Work(c) ELSE Work(c)' = Work(c)
<1>1. Init => Bounded
  <2>1. Init => \A c \in Collector : Work(c) = StepsLeft("idle", 0, 0)
    BY FS_EmptySet DEF Init, Work
  <2>. QED
    BY <2>1 DEF StepsLeft
<1>2. ASSUME IInv, NEW c \in Collector, Step(c) PROVE Work(c)' < Work(c)
  BY <1>2, WalkAdvances, FetchAdvances DEF Step
<1>3. ASSUME IInv, NEW c \in Collector, Next, ~Step(c) PROVE Work(c)' = Work(c)
  <2>1. CASE Tick \/ Revoke \/ \E d \in Collector, class \in Reply : BrokerReply(d, class)
    <3>1. UNCHANGED <<stage, todo, left>>
      BY <2>1 DEF Tick, Revoke, BrokerReply, loopVars
    <3>. QED
      BY <3>1 DEF Work
  <2>2. ASSUME NEW d \in Collector \ {c}, Step(d) PROVE Work(c)' = Work(c)
    <3>1. stage'[c] = stage[c] /\ todo'[c] = todo[c] /\ left'[c] = left[c]
      BY <1>3, <2>2
      DEF Step, Refuse, Begin, SkipUnsupported, SkipUnauthenticated, OpenCapability,
          CloseCapability, Return, FetchRefused, Fetch, Send, Receive, ReceiveFailure,
          ReceiveUntyped, TransportFailure, TransportAbort, Cancel, Settle, Fail, Abort,
          IInv, TypeOK, loopVars
    <3>. QED
      BY <3>1 DEF Work
  <2>. QED
    BY <1>3, <2>1, <2>2 DEF Next
<1>4. IInv /\ [Next]_vars => [Advance]_vars
  BY <1>2, <1>3
<1>5. IInv /\ IInv' /\ Bounded /\ [Next]_vars => Bounded'
  <2>1. TypeOK' => (\A c \in Collector : Work(c) \in Nat)'
    <3>1. TypeOK => \A c \in Collector : Work(c) \in Nat
      BY WorkIsNatural
    <3>. QED
      BY <3>1, PTL
  <2>2. UNCHANGED vars => \A c \in Collector : Work(c)' = Work(c)
    BY DEF vars, loopVars, Work
  <2>3. IInv' => TypeOK'
    BY DEF IInv
  <2>. QED
    BY <1>2, <1>3, <2>1, <2>2, <2>3
<1>. QED
  BY <1>1, <1>4, <1>5, InductiveInvariant, PTL DEF Spec

=============================================================================
