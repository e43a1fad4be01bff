-------------------------- MODULE LocalAgentsProofs --------------------------
(***************************************************************************)
(* Theorems about LocalAgents: for any number of agents, protocols,        *)
(* requests, administrators' edits and faults.                             *)
(***************************************************************************)
EXTENDS LocalAgents, SequenceTheorems, TLAPS

-----------------------------------------------------------------------------
(* The certificates                                                        *)

CertificateStatus == {"active", "rotated", "revoked", "expired"}

\* The certificates of all agents stay what they are, but for their status.
SameCertificates ==
    /\ certificate' \in Seq(Certificate) /\ Len(certificate') = Len(certificate)
    /\ \A b : CertificatesOf(b)' = CertificatesOf(b)

\* There is one more certificate, which is active and of agent a.
OneMoreCertificate(a) ==
    /\ certificate' \in Seq(Certificate) /\ Len(certificate') = Len(certificate) + 1
    /\ \A b : CertificatesOf(b)' =
                 IF b = a THEN CertificatesOf(b) \cup {Len(certificate')} ELSE CertificatesOf(b)

LEMMA StatusFacts ==
    ASSUME certificate \in Seq(Certificate), NEW S, NEW new \in CertificateStatus
    PROVE  /\ WithStatus(S, new) \in Seq(Certificate)
           /\ Len(WithStatus(S, new)) = Len(certificate)
           /\ \A s \in 1 .. Len(certificate) :
                /\ WithStatus(S, new)[s].agent = certificate[s].agent
                /\ WithStatus(S, new)[s].status = IF s \in S THEN new ELSE certificate[s].status
<1>1. Len(certificate) \in Nat /\ DOMAIN certificate = 1 .. Len(certificate)
      /\ \A s \in 1 .. Len(certificate) : certificate[s] \in Certificate
    BY LenProperties
<1>2. ASSUME NEW s \in 1 .. Len(certificate)
      PROVE  /\ [certificate[s] EXCEPT !.status = new] \in Certificate
             /\ [certificate[s] EXCEPT !.status = new].agent = certificate[s].agent
             /\ [certificate[s] EXCEPT !.status = new].status = new
    BY <1>1, <1>2 DEF Certificate, CertificateStatus
<1>3. WithStatus(S, new) \in [1 .. Len(certificate) -> Certificate]
    BY <1>1, <1>2 DEF WithStatus
<1>4. \A s \in 1 .. Len(certificate) :
                /\ WithStatus(S, new)[s].agent = certificate[s].agent
                /\ WithStatus(S, new)[s].status = IF s \in S THEN new ELSE certificate[s].status
    BY <1>1, <1>2 DEF WithStatus
<1>5. WithStatus(S, new) \in Seq(Certificate) /\ Len(WithStatus(S, new)) = Len(certificate)
    <2>1. WithStatus(S, new) \in Seq(Certificate)
        BY <1>1, <1>3, SeqDef
    <2>2. DOMAIN WithStatus(S, new) = 1 .. Len(certificate)
        BY <1>1 DEF WithStatus
    <2> QED BY <1>1, <2>1, <2>2, LenProperties
<1> QED BY <1>4, <1>5

LEMMA StatusKeepsCertificates ==
    ASSUME certificate \in Seq(Certificate), NEW S, NEW new \in CertificateStatus,
           certificate' = WithStatus(S, new)
    PROVE  /\ SameCertificates
           /\ \A s \in 1 .. Len(certificate) :
                certificate'[s].status = IF s \in S THEN new ELSE certificate[s].status
<1>1. /\ certificate' \in Seq(Certificate) /\ Len(certificate') = Len(certificate)
      /\ \A s \in 1 .. Len(certificate) :
           /\ certificate'[s].agent = certificate[s].agent
           /\ certificate'[s].status = IF s \in S THEN new ELSE certificate[s].status
    BY StatusFacts
<1>2. DOMAIN certificate' = DOMAIN certificate /\ DOMAIN certificate = 1 .. Len(certificate)
    BY <1>1, LenProperties
<1>3. \A b : CertificatesOf(b)' = CertificatesOf(b)
    BY <1>1, <1>2 DEF CertificatesOf
<1> QED BY <1>1, <1>3 DEF SameCertificates

\* A certificate is appended, possibly after the others have changed status.
LEMMA AppendCertificate ==
    ASSUME certificate \in Seq(Certificate), NEW a \in Agent,
           NEW old \in Seq(Certificate), Len(old) = Len(certificate),
           \A s \in 1 .. Len(certificate) : old[s].agent = certificate[s].agent,
           certificate' = Append(old, [agent |-> a, status |-> "active"])
    PROVE  /\ OneMoreCertificate(a) /\ Len(certificate) \in Nat
           /\ certificate'[Len(certificate')] = [agent |-> a, status |-> "active"]
           /\ \A s \in 1 .. Len(certificate) : certificate'[s] = old[s]
<1>1. [agent |-> a, status |-> "active"] \in Certificate
    BY DEF Certificate
<1>2. /\ certificate' \in Seq(Certificate) /\ Len(certificate') = Len(certificate) + 1
      /\ \A s \in 1 .. Len(certificate) : certificate'[s] = old[s]
      /\ certificate'[Len(certificate')] = [agent |-> a, status |-> "active"]
    BY <1>1, AppendProperties
<1>3. /\ DOMAIN certificate = 1 .. Len(certificate) /\ Len(certificate) \in Nat
      /\ DOMAIN certificate' = 1 .. Len(certificate) + 1
    BY <1>2, LenProperties
<1>4. ASSUME NEW b
      PROVE  CertificatesOf(b)' = IF b = a THEN CertificatesOf(b) \cup {Len(certificate')} ELSE CertificatesOf(b)
    BY <1>2, <1>3 DEF CertificatesOf
<1> QED BY <1>2, <1>3, <1>4 DEF OneMoreCertificate

-----------------------------------------------------------------------------
(* The type invariant, in parts that an action changes or leaves alone.    *)

CertificatesOK ==
    /\ certificate \in Seq(Certificate)
    /\ serial \in [Agent -> 0 .. Len(certificate)]
    /\ saved \in [Agent -> 0 .. Len(certificate)] /\ client \in [Agent -> 0 .. Len(certificate)]
    /\ \A a \in Agent :
        /\ serial[a] = 0 <=> CertificatesOf(a) = {}
        /\ {saved[a], client[a], serial[a]} \ {0} \subseteq CertificatesOf(a)

TokensOK ==
    /\ token \in [Agent -> {"none", "pending", "used", "revoked", "expired"}]
    /\ status \in [Agent -> Status]
    /\ \A a \in Agent :
        /\ status[a] = "none" <=> token[a] = "none"
        /\ token[a] # "used" => CertificatesOf(a) = {} /\ status[a] \in {"none", "pending", "revoked"}

\* What AgentsTypeOK does not say: a request is signed with a certificate of its
\* agent.  A handler can act on an agent only because of that.
RequestsOK ==
    /\ requests \in [Agent -> Seq(Request)]
    /\ \A a \in Agent :
        /\ Len(requests[a]) =< MaxRequests
        /\ \A t \in DOMAIN requests[a] : requests[a][t].serial \in CertificatesOf(a)

\* The requests that an agent has sent.
Sent(a) == Time \cap DOMAIN requests[a]

LinksOK ==
    /\ handlers \in SUBSET Handler
    /\ slots \in [Agent -> SUBSET Time] /\ builds \in [Agent -> SUBSET Time]
    /\ awaited \in [Agent -> 0 .. MaxRequests]
    /\ accepted \in [Agent -> [Time -> Nat]]
    /\ \A a \in Agent :
        /\ \A t \in Time : accepted[a][t] > 0 => t \in Sent(a)
        /\ \A t \in slots[a] \cup builds[a] : t \in Sent(a) /\ requests[a][t].op = "claim"
        /\ awaited[a] # 0 => awaited[a] \in Sent(a)
        /\ client[a] = 0 => builds[a] = {} /\ awaited[a] = 0
    /\ \A h \in handlers : accepted[h.agent][h.time] > 0

RestOK ==
    /\ registering \in [Agent -> Nat] /\ drain \in [Agent -> Drains]
    /\ protocol \in [Agent -> Nat] /\ lastRequest \in [Agent -> 0 .. MaxRequests]
    /\ cutoff \in [Agent -> 0 .. MaxRequests]
    /\ edits \in Nat /\ faults \in Nat

AgentsOK == CertificatesOK /\ TokensOK /\ RequestsOK /\ LinksOK /\ RestOK

LEMMA PartsAreTypes ==
    ASSUME AgentsOK PROVE AgentsTypeOK
<1>1. ASSUME NEW a \in Agent
      PROVE  {t \in Time : accepted[a][t] > 0} \cup slots[a] \cup builds[a] \cup ({awaited[a]} \ {0})
                \subseteq DOMAIN requests[a]
    BY DEF AgentsOK, LinksOK, Sent
<1>2. \A h \in handlers : accepted[h.agent][h.time] > 0
    BY DEF AgentsOK, LinksOK
<1>3. \A a \in Agent :
        /\ \A t \in slots[a] \cup builds[a] : requests[a][t].op = "claim"
        /\ client[a] = 0 => builds[a] = {} /\ awaited[a] = 0
    BY DEF AgentsOK, LinksOK
<1>4. \A a \in Agent :
        /\ status[a] = "none" <=> token[a] = "none"
        /\ token[a] # "used" => CertificatesOf(a) = {} /\ status[a] \in {"none", "pending", "revoked"}
        /\ serial[a] = 0 <=> CertificatesOf(a) = {}
        /\ {saved[a], client[a], serial[a]} \ {0} \subseteq CertificatesOf(a)
        /\ Len(requests[a]) =< MaxRequests
    BY DEF AgentsOK, CertificatesOK, TokensOK, RequestsOK
<1>5. /\ token \in [Agent -> {"none", "pending", "used", "revoked", "expired"}]
      /\ registering \in [Agent -> Nat]
      /\ status \in [Agent -> Status] /\ drain \in [Agent -> Drains]
      /\ protocol \in [Agent -> Nat] /\ lastRequest \in [Agent -> 0 .. MaxRequests]
      /\ certificate \in Seq(Certificate)
      /\ serial \in [Agent -> 0 .. Len(certificate)]
      /\ requests \in [Agent -> Seq(Request)]
      /\ handlers \in SUBSET Handler
      /\ saved \in [Agent -> 0 .. Len(certificate)] /\ client \in [Agent -> 0 .. Len(certificate)]
      /\ slots \in [Agent -> SUBSET Time] /\ builds \in [Agent -> SUBSET Time]
      /\ awaited \in [Agent -> 0 .. MaxRequests] /\ cutoff \in [Agent -> 0 .. MaxRequests]
      /\ accepted \in [Agent -> [Time -> Nat]]
      /\ edits \in Nat /\ faults \in Nat
    BY DEF AgentsOK, CertificatesOK, TokensOK, RequestsOK, LinksOK, RestOK
<1> QED BY <1>1, <1>2, <1>3, <1>4, <1>5 DEF AgentsTypeOK

LEMMA CertificatesStay ==
    ASSUME AgentsOK, UNCHANGED certificate PROVE SameCertificates
BY DEF AgentsOK, CertificatesOK, SameCertificates, CertificatesOf

LEMMA PartsStay ==
    ASSUME AgentsOK
    PROVE  /\ SameCertificates /\ UNCHANGED <<serial, saved, client>> => CertificatesOK'
           /\ SameCertificates /\ UNCHANGED <<token, status>> => TokensOK'
           /\ SameCertificates /\ UNCHANGED requests => RequestsOK'
           /\ UNCHANGED <<handlers, slots, builds, awaited, accepted, requests, client>> => LinksOK'
           /\ UNCHANGED <<registering, drain, protocol, lastRequest, cutoff, edits, faults>> => RestOK'
<1>1. SameCertificates /\ UNCHANGED <<serial, saved, client>> => CertificatesOK'
    BY DEF AgentsOK, CertificatesOK, SameCertificates
<1>2. SameCertificates /\ UNCHANGED <<token, status>> => TokensOK'
    BY DEF AgentsOK, TokensOK, SameCertificates
<1>3. SameCertificates /\ UNCHANGED requests => RequestsOK'
    BY DEF AgentsOK, RequestsOK, SameCertificates
<1>4. UNCHANGED <<handlers, slots, builds, awaited, accepted, requests, client>> => LinksOK'
    BY DEF AgentsOK, LinksOK, Sent
<1>5. UNCHANGED <<registering, drain, protocol, lastRequest, cutoff, edits, faults>> => RestOK'
    BY DEF AgentsOK, RestOK
<1> QED BY <1>1, <1>2, <1>3, <1>4, <1>5

\* A new certificate of an agent whose token is used afterwards.
LEMMA NewCertificate ==
    ASSUME AgentsOK, NEW a \in Agent, OneMoreCertificate(a),
           serial' = [serial EXCEPT ![a] = Len(certificate')],
           saved' \in {saved, [saved EXCEPT ![a] = Len(certificate')]},
           client' \in {client, [client EXCEPT ![a] = Len(certificate')]}
    PROVE  CertificatesOK' /\ (UNCHANGED requests => RequestsOK')
<1>1. /\ certificate' \in Seq(Certificate) /\ Len(certificate') = Len(certificate) + 1
      /\ \A b \in Agent : CertificatesOf(b)' =
             IF b = a THEN CertificatesOf(b) \cup {Len(certificate')} ELSE CertificatesOf(b)
      /\ Len(certificate) \in Nat
    BY LenProperties DEF OneMoreCertificate, AgentsOK, CertificatesOK
<1>2. ASSUME UNCHANGED requests PROVE RequestsOK'
    <2>1. \A b \in Agent : CertificatesOf(b) \subseteq CertificatesOf(b)'
        BY <1>1
    <2> QED BY <1>2, <2>1 DEF AgentsOK, RequestsOK
<1>a. /\ saved' = saved \/ saved' = [saved EXCEPT ![a] = Len(certificate')]
      /\ client' = client \/ client' = [client EXCEPT ![a] = Len(certificate')]
    OBVIOUS
<1>b. /\ serial \in [Agent -> 0 .. Len(certificate)]
      /\ saved \in [Agent -> 0 .. Len(certificate)] /\ client \in [Agent -> 0 .. Len(certificate)]
    BY DEF AgentsOK, CertificatesOK
<1>3. /\ serial' \in [Agent -> 0 .. Len(certificate')]
      /\ saved' \in [Agent -> 0 .. Len(certificate')] /\ client' \in [Agent -> 0 .. Len(certificate')]
    <2>1. 0 .. Len(certificate) \subseteq 0 .. Len(certificate') /\ Len(certificate') \in 0 .. Len(certificate')
        BY <1>1
    <2>2. serial' \in [Agent -> 0 .. Len(certificate')]
        BY <2>1, <1>b
    <2>3. saved' \in [Agent -> 0 .. Len(certificate')]
        BY <2>1, <1>a, <1>b
    <2>4. client' \in [Agent -> 0 .. Len(certificate')]
        BY <2>1, <1>a, <1>b
    <2> QED BY <2>2, <2>3, <2>4
<1>4. ASSUME NEW b \in Agent
      PROVE  /\ serial'[b] = 0 <=> CertificatesOf(b)' = {}
             /\ {saved'[b], client'[b], serial'[b]} \ {0} \subseteq CertificatesOf(b)'
    <2>1. /\ serial[b] = 0 <=> CertificatesOf(b) = {}
          /\ {saved[b], client[b], serial[b]} \ {0} \subseteq CertificatesOf(b)
          /\ serial[b] \in Nat /\ saved[b] \in Nat /\ client[b] \in Nat
        BY <1>1 DEF AgentsOK, CertificatesOK
    <2>2. /\ serial'[b] = IF b = a THEN Len(certificate') ELSE serial[b]
          /\ saved'[b] = saved[b] \/ (b = a /\ saved'[b] = Len(certificate'))
          /\ client'[b] = client[b] \/ (b = a /\ client'[b] = Len(certificate'))
        BY <1>a, <1>b
    <2>3. CASE b = a
        <3>1. CertificatesOf(b)' = CertificatesOf(b) \cup {Len(certificate')} /\ Len(certificate') # 0
            BY <1>1, <2>3
        <3> QED BY <2>1, <2>2, <2>3, <3>1
    <2>4. CASE b # a
        <3>1. CertificatesOf(b)' = CertificatesOf(b)
            BY <1>1, <2>4
        <3> QED BY <2>1, <2>2, <2>4, <3>1
    <2> QED BY <2>3, <2>4
<1> QED BY <1>1, <1>2, <1>3, <1>4 DEF CertificatesOK

\* A request that was sent belongs to a registered agent.
LEMMA SentByRegistered ==
    ASSUME AgentsOK, NEW a \in Agent, NEW t \in Sent(a)
    PROVE  /\ requests[a][t] \in Request /\ requests[a][t].serial \in CertificatesOf(a)
           /\ requests[a][t].serial \in DOMAIN certificate
           /\ token[a] = "used" /\ status[a] # "none"
<1>1. requests[a] \in Seq(Request) /\ t \in DOMAIN requests[a]
      /\ requests[a][t].serial \in CertificatesOf(a)
    BY DEF AgentsOK, RequestsOK, Sent
<1>2. requests[a][t] \in Request
    BY <1>1, LenProperties
<1>3. token[a] = "used" /\ status[a] # "none"
    BY <1>1 DEF AgentsOK, TokensOK
<1> QED BY <1>1, <1>2, <1>3 DEF CertificatesOf

LEMMA HandlerFacts ==
    ASSUME AgentsOK, NEW h \in handlers
    PROVE  /\ h.agent \in Agent /\ h.time \in Time /\ h.time \in Sent(h.agent)
           /\ token[h.agent] = "used" /\ status[h.agent] # "none"
<1>1. h.agent \in Agent /\ h.time \in Time /\ accepted[h.agent][h.time] > 0
    BY DEF AgentsOK, LinksOK, Handler
<1>2. h.time \in Sent(h.agent)
    BY <1>1 DEF AgentsOK, LinksOK
<1> QED BY <1>1, <1>2, SentByRegistered

\* A request is sent; a build may have ended.
LEMMA PostKeepsParts ==
    ASSUME AgentsOK, NEW a \in Agent, NEW op \in Op, NEW of \in Nat, Post(a, op, of),
           UNCHANGED <<certificate, handlers, slots, client, accepted>>,
           builds' \in [Agent -> SUBSET Time], \A b \in Agent : builds'[b] \subseteq builds[b]
    PROVE  RequestsOK' /\ LinksOK'
<1> DEFINE new == [op |-> op, serial |-> client[a], of |-> of]
<1>1. requests[a] \in Seq(Request) /\ Len(requests[a]) \in Nat /\ Len(requests[a]) < MaxRequests
      /\ DOMAIN requests[a] = 1 .. Len(requests[a])
    BY LenProperties DEF AgentsOK, RequestsOK, Post
<1>2. client[a] \in Nat /\ client[a] \in CertificatesOf(a) /\ client[a] # 0
    BY LenProperties DEF AgentsOK, CertificatesOK, Post
<1>3. new \in Request /\ new.serial = client[a]
    BY <1>2 DEF Request
<1>4. requests' = [requests EXCEPT ![a] = Append(requests[a], new)]
    BY DEF Post, AgentsOK, RequestsOK
<1> HIDE DEF new
<1>5. /\ Append(requests[a], new) \in Seq(Request) /\ Len(Append(requests[a], new)) = Len(requests[a]) + 1
      /\ \A i \in 1 .. Len(requests[a]) : Append(requests[a], new)[i] = requests[a][i]
      /\ Append(requests[a], new)[Len(requests[a]) + 1] = new
      /\ DOMAIN Append(requests[a], new) = 1 .. Len(requests[a]) + 1
    BY <1>1, <1>3, AppendProperties, LenProperties
<1>6. /\ requests' \in [Agent -> Seq(Request)] /\ requests'[a] = Append(requests[a], new)
      /\ \A b \in Agent : b # a => requests'[b] = requests[b]
    BY <1>4, <1>5 DEF AgentsOK, RequestsOK
<1>7. RequestsOK'
    <2>1. \A b : CertificatesOf(b)' = CertificatesOf(b)
        BY CertificatesStay DEF SameCertificates
    <2>2. Len(requests'[a]) =< MaxRequests /\ \A t \in DOMAIN requests'[a] : requests'[a][t].serial \in CertificatesOf(a)
        <3>1. \A t \in 1 .. Len(requests[a]) : requests[a][t].serial \in CertificatesOf(a)
            BY <1>1 DEF AgentsOK, RequestsOK
        <3>2. MaxRequests \in Nat
            BY BoundsAssumption
        <3> QED BY <1>1, <1>2, <1>3, <1>5, <1>6, <3>1, <3>2
    <2> QED BY <1>6, <2>1, <2>2 DEF AgentsOK, RequestsOK
<1>8. \A b \in Agent : \A t \in Sent(b) : t \in Sent(b)' /\ requests'[b][t] = requests[b][t]
    BY <1>1, <1>5, <1>6 DEF Sent
<1>9. awaited' = [awaited EXCEPT ![a] = Len(requests[a]) + 1] /\ Len(requests[a]) + 1 \in Sent(a)'
      /\ Len(requests[a]) + 1 \in 0 .. MaxRequests
    BY <1>1, <1>5, <1>6, BoundsAssumption DEF Post, Sent, Time
<1>10. LinksOK'
    <2>1. awaited' \in [Agent -> 0 .. MaxRequests]
        BY <1>9 DEF AgentsOK, LinksOK
    <2>2. ASSUME NEW b \in Agent
          PROVE  /\ \A t \in Time : accepted'[b][t] > 0 => t \in Sent(b)'
                 /\ \A t \in slots'[b] \cup builds'[b] : t \in Sent(b)' /\ requests'[b][t].op = "claim"
                 /\ awaited'[b] # 0 => awaited'[b] \in Sent(b)'
                 /\ client'[b] = 0 => builds'[b] = {} /\ awaited'[b] = 0
        <3>1. /\ \A t \in Time : accepted[b][t] > 0 => t \in Sent(b)
              /\ \A t \in slots[b] \cup builds[b] : t \in Time /\ t \in Sent(b) /\ requests[b][t].op = "claim"
              /\ awaited[b] # 0 => awaited[b] \in Sent(b) /\ awaited[b] \in Time
              /\ client[b] = 0 => builds[b] = {} /\ awaited[b] = 0
            BY DEF AgentsOK, LinksOK, Sent
        <3>2. awaited'[b] = IF b = a THEN Len(requests[a]) + 1 ELSE awaited[b]
            BY <1>9 DEF AgentsOK, LinksOK
        <3>3. PICK m : m = Len(requests[a]) + 1
            OBVIOUS
        <3>4. awaited'[b] # 0 => awaited'[b] \in Sent(b)'
            <4>1. CASE b = a
                <5>1. m \in Sent(a)'
                    BY <1>9, <3>3
                <5> QED BY <3>2, <3>3, <4>1, <5>1
            <4>2. CASE b # a
                <5>1. awaited'[b] = awaited[b] /\ requests'[b] = requests[b]
                    BY <1>6, <3>2, <4>2
                <5> QED BY <3>1, <5>1 DEF Sent
            <4> QED BY <4>1, <4>2
        <3> QED BY <1>2, <1>8, <3>1, <3>2, <3>4
    <2>3. \A h \in handlers' : accepted'[h.agent][h.time] > 0
        BY DEF AgentsOK, LinksOK
    <2>4. /\ handlers' \in SUBSET Handler /\ slots' \in [Agent -> SUBSET Time]
          /\ accepted' \in [Agent -> [Time -> Nat]]
        BY DEF AgentsOK, LinksOK
    <2> QED BY <2>1, <2>2, <2>3, <2>4 DEF LinksOK
<1> QED BY <1>7, <1>10

\* A handler ends: the claims it may add to the slots and builds are its own.
LEMMA HandlerKeepsLinks ==
    ASSUME AgentsOK, NEW h \in handlers, Answer(h), UNCHANGED <<requests, accepted>>,
           slots' \in [Agent -> SUBSET Time], builds' \in [Agent -> SUBSET Time],
           \A b \in Agent : \A t \in slots'[b] \cup builds'[b] :
                t \in slots[b] \cup builds[b] \/ (b = h.agent /\ t = h.time /\ RequestAt(h).op = "claim"),
           \A b \in Agent : client'[b] = 0 => client[b] = 0,
           \A b \in Agent : builds'[b] \subseteq builds[b] \/ client'[b] # 0
    PROVE  LinksOK'
<1>1. h.agent \in Agent /\ h.time \in Time /\ h.time \in Sent(h.agent)
    BY HandlerFacts
<1>2. PICK a \in Agent : a = h.agent
    BY <1>1
<1>3. handlers' = handlers \ {h} /\ (awaited' = awaited \/ awaited' = [awaited EXCEPT ![a] = 0])
    BY <1>2 DEF Answer
<1>4. awaited' \in [Agent -> 0 .. MaxRequests] /\ \A b \in Agent : awaited'[b] \in {0, awaited[b]}
    <2>1. awaited \in [Agent -> 0 .. MaxRequests] /\ 0 \in 0 .. MaxRequests
        BY BoundsAssumption DEF AgentsOK, LinksOK
    <2> QED BY <1>3, <2>1
<1>5. ASSUME NEW b \in Agent
      PROVE  /\ \A t \in Time : accepted'[b][t] > 0 => t \in Sent(b)'
             /\ \A t \in slots'[b] \cup builds'[b] : t \in Sent(b)' /\ requests'[b][t].op = "claim"
             /\ awaited'[b] # 0 => awaited'[b] \in Sent(b)'
             /\ client'[b] = 0 => builds'[b] = {} /\ awaited'[b] = 0
    <2>1. /\ \A t \in Time : accepted[b][t] > 0 => t \in Sent(b)
          /\ \A t \in slots[b] \cup builds[b] : t \in Sent(b) /\ requests[b][t].op = "claim"
          /\ awaited[b] # 0 => awaited[b] \in Sent(b)
          /\ client[b] = 0 => builds[b] = {} /\ awaited[b] = 0
        BY DEF AgentsOK, LinksOK
    <2>2. Sent(b)' = Sent(b)
        BY DEF Sent
    <2>3. \A t \in slots'[b] \cup builds'[b] : t \in Sent(b)' /\ requests'[b][t].op = "claim"
        BY <1>1, <1>2, <2>1, <2>2 DEF RequestAt
    <2>4. awaited'[b] # 0 => awaited'[b] \in Sent(b)'
        BY <1>4, <2>1 DEF Sent
    <2> QED BY <1>4, <2>1, <2>2, <2>3, <2>4
<1>6. handlers' \in SUBSET Handler /\ accepted' \in [Agent -> [Time -> Nat]]
      /\ \A g \in handlers' : accepted'[g.agent][g.time] > 0
    BY <1>3 DEF AgentsOK, LinksOK
<1> QED BY <1>4, <1>5, <1>6 DEF LinksOK

-----------------------------------------------------------------------------
(* Every action keeps the parts.                                           *)

\* The rows of a registration.
LEMMA IssueKeepsParts ==
    ASSUME AgentsOK, NEW a \in Agent, NEW p \in Protocol, NEW answered \in BOOLEAN,
           token[a] = "pending", IssueFirst(a, p, answered), UNCHANGED <<client, requests>>
    PROVE  /\ CertificatesOK' /\ TokensOK' /\ RequestsOK' /\ protocol' \in [Agent -> Nat]
           /\ certificate' = Append(certificate, [agent |-> a, status |-> "active"])
           /\ serial' = [serial EXCEPT ![a] = Len(certificate')]
<1>1. OneMoreCertificate(a)
    BY AppendCertificate DEF AgentsOK, CertificatesOK, IssueFirst
<1>2. CertificatesOK' /\ RequestsOK'
    BY <1>1, NewCertificate DEF IssueFirst
<1>3. TokensOK'
    <2>1. StatusForProtocol(p) \in {"online", "upgrade_required"}
        BY DEF StatusForProtocol
    <2>2. /\ status' = [status EXCEPT ![a] = StatusForProtocol(p)]
          /\ token' = [token EXCEPT ![a] = "used"]
          /\ \A b \in Agent : b # a => CertificatesOf(b)' = CertificatesOf(b)
        BY <1>1 DEF IssueFirst, OneMoreCertificate
    <2> QED BY <2>1, <2>2 DEF AgentsOK, TokensOK, Status
<1>4. protocol' \in [Agent -> Nat]
    BY ProtocolAssumption DEF IssueFirst, AgentsOK, RestOK
<1> QED BY <1>2, <1>3, <1>4 DEF IssueFirst

LEMMA NextKeepsParts ==
    ASSUME AgentsOK, [Next]_vars PROVE AgentsOK'
<1> USE DEF AgentsOK
<1>t. TokensOK /\ LinksOK /\ RestOK /\ CertificatesOK /\ RequestsOK
    OBVIOUS
<1>f. ASSUME faults' \in {faults, faults + 1} PROVE faults' \in Nat
    BY <1>f DEF RestOK
<1>1. ASSUME NEW a \in Agent, CreateLocalAgentRegistration(a) PROVE AgentsOK'
    <2>1. TokensOK'
        <3>1. \A b : CertificatesOf(b)' = CertificatesOf(b)
            BY <1>1, CertificatesStay DEF CreateLocalAgentRegistration, SameCertificates
        <3>2. /\ status[a] = "none" /\ status' = [status EXCEPT ![a] = "pending"]
              /\ token' = [token EXCEPT ![a] = "pending"]
            BY <1>1 DEF CreateLocalAgentRegistration
        <3> QED BY <3>1, <3>2 DEF TokensOK, Status
    <2> QED BY <1>1, <2>1, PartsStay, CertificatesStay DEF CreateLocalAgentRegistration, process
<1>2. ASSUME NEW a \in Agent, RegisterReads(a) PROVE AgentsOK'
    <2>1. RestOK'
        BY <1>2 DEF RegisterReads, RestOK, tables
    <2> QED BY <1>2, <2>1, PartsStay, CertificatesStay DEF RegisterReads, tables, process
<1>3. ASSUME NEW a \in Agent, TokenExpires(a) PROVE AgentsOK'
    <2>1. TokensOK'
        <3>1. \A b : CertificatesOf(b)' = CertificatesOf(b)
            BY <1>3, CertificatesStay DEF TokenExpires, SameCertificates
        <3>2. token[a] = "pending" /\ token' = [token EXCEPT ![a] = "expired"] /\ UNCHANGED status
            BY <1>3 DEF TokenExpires
        <3> QED BY <3>1, <3>2 DEF TokensOK
    <2> QED BY <1>3, <2>1, PartsStay, CertificatesStay DEF TokenExpires, process
<1>4. ASSUME NEW a \in Agent, NEW p \in Protocol, NEW answered \in BOOLEAN, RegisterLocalAgent(a, p, answered)
      PROVE  AgentsOK'
    <2>1. LinksOK'
        BY <1>4, PartsStay DEF RegisterLocalAgent
    <2>2. registering' \in [Agent -> Nat]
        BY <1>4 DEF RegisterLocalAgent, RestOK
    <2>3. CASE token[a] = "pending" /\ status[a] # "revoked"
        <3>1. CertificatesOK' /\ TokensOK' /\ RequestsOK' /\ protocol' \in [Agent -> Nat]
            BY <1>4, <2>3, IssueKeepsParts DEF RegisterLocalAgent
        <3>2. RestOK'
            BY <1>4, <2>2, <3>1 DEF RegisterLocalAgent, RestOK
        <3> QED BY <2>1, <3>1, <3>2
    <2>4. CASE ~(token[a] = "pending" /\ status[a] # "revoked")
        <3>1. RestOK'
            BY <1>4, <2>2, <2>4 DEF RegisterLocalAgent, RestOK
        <3> QED BY <1>4, <2>1, <2>4, <3>1, PartsStay, CertificatesStay DEF RegisterLocalAgent
    <2> QED BY <2>3, <2>4
<1>5. ASSUME NEW a \in Agent, Start(a) PROVE AgentsOK'
    <2>1. CertificatesOK'
        <3>1. \A b : CertificatesOf(b)' = CertificatesOf(b)
            BY <1>5, CertificatesStay DEF Start, tables, SameCertificates
        <3> QED BY <1>5, <3>1 DEF Start, tables, CertificatesOK
    <2>2. LinksOK'
        BY <1>5 DEF Start, tables, LinksOK, Sent, CertificatesOK
    <2> QED BY <1>5, <2>1, <2>2, PartsStay, CertificatesStay DEF Start, tables
<1>6. ASSUME NEW a \in Agent, Crash(a) PROVE AgentsOK'
    <2>1. CertificatesOK'
        <3>1. \A b : CertificatesOf(b)' = CertificatesOf(b)
            BY <1>6, CertificatesStay DEF Crash, tables, SameCertificates
        <3> QED BY <1>6, <3>1, LenProperties DEF Crash, tables, CertificatesOK
    <2>2. LinksOK'
        BY <1>6, BoundsAssumption DEF Crash, tables, LinksOK, Sent
    <2>3. RestOK'
        BY <1>6 DEF Crash, tables, RestOK
    <2> QED BY <1>6, <2>1, <2>2, <2>3, PartsStay, CertificatesStay DEF Crash, tables
<1>7. ASSUME NEW a \in Agent, GiveUp(a) PROVE AgentsOK'
    <2>1. LinksOK'
        BY <1>7, BoundsAssumption DEF GiveUp, tables, LinksOK, Sent
    <2> QED BY <1>7, <2>1, PartsStay, CertificatesStay DEF GiveUp, tables
<1>8. ASSUME NEW a \in Agent, NEW op \in Op, Send(a, op) PROVE AgentsOK'
    <2>1. RequestsOK' /\ LinksOK'
        <3>1. 0 \in Nat /\ builds \in [Agent -> SUBSET Time]
            BY DEF LinksOK
        <3> QED BY <1>8, <3>1, PostKeepsParts DEF Send, tables
    <2> QED BY <1>8, <2>1, PartsStay, CertificatesStay DEF Send, tables
<1>9. ASSUME NEW a \in Agent, NEW t \in Time, EndBuild(a, t) PROVE AgentsOK'
    <2>1. builds' \in [Agent -> SUBSET Time] /\ \A b \in Agent : builds'[b] \subseteq builds[b]
        BY <1>9 DEF EndBuild, LinksOK
    <2>2. RequestsOK' /\ LinksOK'
        <3>1. CASE Post(a, "end", t)
            <4>1. "end" \in Op /\ t \in Nat
                BY DEF Op, Time
            <4> QED BY <1>9, <2>1, <3>1, <4>1, PostKeepsParts DEF EndBuild, tables
        <3>2. CASE UNCHANGED <<requests, awaited>>
            <4>1. RequestsOK'
                BY <1>9, <3>2, PartsStay, CertificatesStay DEF EndBuild, tables
            <4> QED BY <1>9, <2>1, <3>2, <4>1 DEF EndBuild, tables, LinksOK, Sent
        <3> QED BY <1>9, <3>1, <3>2 DEF EndBuild
    <2> QED BY <1>9, <2>2, PartsStay, CertificatesStay DEF EndBuild, tables
<1>10. ASSUME NEW a \in Agent, NEW t \in Time, AuthenticateLocalAgent(a, t) PROVE AgentsOK'
    <2>0. /\ lastRequest' = [lastRequest EXCEPT ![a] = t]
          /\ handlers' = handlers \cup {[agent |-> a, time |-> t, mayClaim |-> MayClaim(a)]}
          /\ accepted' = [accepted EXCEPT ![a][t] = @ + 1] /\ t \in Sent(a)
        BY <1>10 DEF AuthenticateLocalAgent, Accept, Sent
    <2>1. MayClaim(a) \in BOOLEAN
        BY DEF MayClaim
    <2>2. accepted' \in [Agent -> [Time -> Nat]]
          /\ \A b \in Agent, u \in Time : accepted'[b][u] = IF b = a /\ u = t THEN accepted[b][u] + 1 ELSE accepted[b][u]
        BY <2>0 DEF LinksOK
    <2>3. LinksOK'
        <3>1. UNCHANGED <<slots, builds, awaited, client, requests>>
            BY <1>10 DEF AuthenticateLocalAgent, Accept, process
        <3>2. \A b \in Agent : Sent(b)' = Sent(b)
            BY <3>1 DEF Sent
        <3>3. handlers' \in SUBSET Handler /\ \A h \in handlers' : accepted'[h.agent][h.time] > 0
            BY <2>0, <2>1, <2>2 DEF LinksOK, Handler
        <3> QED BY <2>0, <2>2, <3>1, <3>2, <3>3 DEF LinksOK
    <2>4. RestOK'
        BY <1>10, <2>0 DEF AuthenticateLocalAgent, Accept, RestOK, Time
    <2> QED BY <1>10, <2>3, <2>4, PartsStay, CertificatesStay DEF AuthenticateLocalAgent, Accept, process
<1>11. ASSUME NEW a \in Agent, NEW t \in Time, LeaseLapses(a, t) PROVE AgentsOK'
    <2>1. LinksOK'
        BY <1>11 DEF LeaseLapses, process, LinksOK, Sent
    <2>2. RestOK'
        BY <1>11, <1>f DEF LeaseLapses, RestOK
    <2> QED BY <1>11, <2>1, <2>2, PartsStay, CertificatesStay DEF LeaseLapses, process
<1>12. ASSUME NEW a \in Agent, NEW d \in Drains, DrainLocalAgent(a, d) PROVE AgentsOK'
    <2>1. RestOK'
        <3>1. Len(requests[a]) \in 0 .. MaxRequests /\ MaxRequests \in 0 .. MaxRequests
            BY LenProperties, BoundsAssumption DEF RequestsOK
        <3> QED BY <1>12, <3>1 DEF DrainLocalAgent, SetDrain, RestOK
    <2> QED BY <1>12, <2>1, PartsStay, CertificatesStay DEF DrainLocalAgent, process
<1>13. ASSUME NEW a \in Agent, RevokeLocalAgent(a) PROVE AgentsOK'
    <2>1. SameCertificates
        BY <1>13, StatusKeepsCertificates DEF RevokeLocalAgent, CertificatesOK, CertificateStatus
    <2>2. TokensOK'
        BY <1>13, <2>1 DEF RevokeLocalAgent, TokensOK, SameCertificates, Status
    <2>3. RestOK'
        <3>1. Len(requests[a]) \in 0 .. MaxRequests
            BY LenProperties, BoundsAssumption DEF RequestsOK
        <3> QED BY <1>13, <3>1 DEF RevokeLocalAgent, SetDrain, RestOK, Drains
    <2> QED BY <1>13, <2>1, <2>2, <2>3, PartsStay DEF RevokeLocalAgent, process
<1>14. ASSUME NEW a \in Agent, MarkOffline(a) PROVE AgentsOK'
    <2>1. TokensOK'
        <3>1. \A b : CertificatesOf(b)' = CertificatesOf(b)
            BY <1>14, CertificatesStay DEF MarkOffline, SameCertificates
        <3> QED BY <1>14, <3>1 DEF MarkOffline, TokensOK, Status
    <2> QED BY <1>14, <2>1, PartsStay, CertificatesStay DEF MarkOffline, process
<1>15. ASSUME NEW a \in Agent, CompleteDrain(a) PROVE AgentsOK'
    <2>1. RestOK'
        BY <1>15 DEF CompleteDrain, RestOK, Drains
    <2> QED BY <1>15, <2>1, PartsStay, CertificatesStay DEF CompleteDrain, process
<1>16. ASSUME NEW s \in DOMAIN certificate, ExpireCertificate(s) PROVE AgentsOK'
    <2>1. SameCertificates
        BY <1>16, StatusKeepsCertificates DEF ExpireCertificate, CertificatesOK, CertificateStatus
    <2>2. RestOK'
        BY <1>16 DEF ExpireCertificate, RestOK
    <2> QED BY <1>16, <2>1, <2>2, PartsStay DEF ExpireCertificate, process
<1>17. ASSUME NEW h \in handlers, Handle(h) PROVE AgentsOK'
    <2>1. PICK a \in Agent : a = h.agent
        BY HandlerFacts
    <2>2. token[a] = "used" /\ status[a] # "none" /\ h.time \in Sent(a) /\ h.time \in Time
        BY <2>1, HandlerFacts
    <2>3. ASSUME NEW p \in Protocol, HeartbeatLocalAgent(h, p) PROVE AgentsOK'
        <3>1. LinksOK'
            BY <2>3, HandlerKeepsLinks, <1>t DEF HeartbeatLocalAgent, LinksOK
        <3>2. StatusForProtocol(p) \in {"online", "upgrade_required"}
            BY DEF StatusForProtocol
        <3>3. TokensOK' /\ RestOK'
            <4>1. \A b : CertificatesOf(b)' = CertificatesOf(b)
                BY <2>3, CertificatesStay DEF HeartbeatLocalAgent, SameCertificates
            <4>2. TokensOK'
                BY <2>1, <2>2, <2>3, <3>2, <4>1 DEF HeartbeatLocalAgent, TokensOK, Status
            <4>3. RestOK'
                BY <2>1, <2>3, ProtocolAssumption DEF HeartbeatLocalAgent, RestOK
            <4> QED BY <4>2, <4>3
        <3> QED BY <2>3, <3>1, <3>3, PartsStay, CertificatesStay DEF HeartbeatLocalAgent
    <2>4. ASSUME RotateLocalAgentCertificate(h) PROVE AgentsOK'
        <3>1. OneMoreCertificate(a)
            <4> DEFINE old == WithStatus(ActiveCertificates(a), "rotated")
            <4>1. /\ old \in Seq(Certificate) /\ Len(old) = Len(certificate)
                  /\ \A s \in 1 .. Len(certificate) : old[s].agent = certificate[s].agent
                BY StatusFacts DEF CertificatesOK, CertificateStatus
            <4>2. certificate' = Append(old, [agent |-> a, status |-> "active"])
                BY <2>1, <2>4 DEF RotateLocalAgentCertificate
            <4> HIDE DEF old
            <4> QED BY <4>1, <4>2, AppendCertificate DEF CertificatesOK
        <3>2. CertificatesOK' /\ RequestsOK'
            BY <2>1, <2>4, <3>1, NewCertificate DEF RotateLocalAgentCertificate
        <3>3. TokensOK'
            BY <2>2, <2>4, <3>1 DEF RotateLocalAgentCertificate, OneMoreCertificate, TokensOK
        <3>4. \A b \in Agent : client'[b] = 0 => client[b] = 0
            BY <2>1, <2>4, <3>1, LenProperties
            DEF RotateLocalAgentCertificate, OneMoreCertificate, CertificatesOK
        <3>5. LinksOK'
            BY <2>4, <3>4, HandlerKeepsLinks, <1>t DEF RotateLocalAgentCertificate, LinksOK
        <3> QED BY <2>4, <3>2, <3>3, <3>5, PartsStay DEF RotateLocalAgentCertificate
    <2>5. ASSUME NEW granted \in BOOLEAN, ClaimLocalAgentBuildTask(h, granted) PROVE AgentsOK'
        <3>0. /\ RequestAt(h).op = "claim" /\ Answer(h) /\ UNCHANGED <<requests, accepted, client>>
              /\ slots' = slots \/ slots' = [slots EXCEPT ![a] = @ \cup {h.time}]
              /\ builds' = builds \/ (InTime(h) /\ builds' = [builds EXCEPT ![a] = @ \cup {h.time}])
            BY <2>1, <2>5 DEF ClaimLocalAgentBuildTask, Grant
        <3>1. /\ slots' \in [Agent -> SUBSET Time] /\ builds' \in [Agent -> SUBSET Time]
              /\ \A b \in Agent : \A t \in slots'[b] \cup builds'[b] :
                    t \in slots[b] \cup builds[b] \/ (b = a /\ t = h.time)
            <4>1. slots \in [Agent -> SUBSET Time] /\ builds \in [Agent -> SUBSET Time]
                BY DEF LinksOK
            <4>2. /\ slots' \in [Agent -> SUBSET Time]
                  /\ \A b \in Agent : slots'[b] \subseteq slots[b] \cup (IF b = a THEN {h.time} ELSE {})
                BY <2>2, <3>0, <4>1
            <4>3. /\ builds' \in [Agent -> SUBSET Time]
                  /\ \A b \in Agent : builds'[b] \subseteq builds[b] \cup (IF b = a THEN {h.time} ELSE {})
                BY <2>2, <3>0, <4>1
            <4> QED BY <4>2, <4>3
        <3>2. ASSUME NEW b \in Agent PROVE builds'[b] \subseteq builds[b] \/ client'[b] # 0
            <4>1. CASE UNCHANGED builds
                BY <4>1
            <4>2. CASE InTime(h) /\ builds' = [builds EXCEPT ![a] = @ \cup {h.time}]
                <5>1. awaited[a] # 0
                    BY <2>1, <2>2, <4>2 DEF InTime, Time
                <5>2. client'[a] # 0
                    BY <3>0, <5>1 DEF LinksOK
                <5> QED BY <4>2, <5>2 DEF LinksOK
            <4> QED BY <3>0, <4>1, <4>2
        <3>3. LinksOK'
            BY <2>1, <3>0, <3>1, <3>2, HandlerKeepsLinks
        <3> QED BY <2>5, <3>3, PartsStay, CertificatesStay DEF ClaimLocalAgentBuildTask, Grant
    <2>6. ASSUME EndLocalAgentBuildTask(h) PROVE AgentsOK'
        <3>1. slots' \in [Agent -> SUBSET Time] /\ \A b \in Agent : slots'[b] \subseteq slots[b]
            BY <2>1, <2>6 DEF EndLocalAgentBuildTask, LinksOK
        <3>2. LinksOK'
            BY <2>6, <3>1, HandlerKeepsLinks, <1>t DEF EndLocalAgentBuildTask, LinksOK
        <3> QED BY <2>6, <3>2, PartsStay, CertificatesStay DEF EndLocalAgentBuildTask
    <2>7. ASSUME AbortHandler(h) PROVE AgentsOK'
        <3>1. LinksOK'
            BY <2>7 DEF AbortHandler, tables, process, LinksOK, Sent
        <3> QED BY <2>7, <3>1, PartsStay, CertificatesStay DEF AbortHandler, tables, process
    <2> QED BY <1>17, <2>3, <2>4, <2>5, <2>6, <2>7 DEF Handle
<1>18. CASE UNCHANGED vars
    BY <1>18, PartsStay, CertificatesStay DEF vars, tables, process
<1> QED BY <1>1, <1>2, <1>3, <1>4, <1>5, <1>6, <1>7, <1>8, <1>9, <1>10, <1>11, <1>12, <1>13, <1>14,
           <1>15, <1>16, <1>17, <1>18 DEF Next

LEMMA PartsCorrect == Spec => []AgentsOK
<1>1. Init => AgentsOK
    <2>1. ASSUME Init PROVE CertificatesOK /\ TokensOK /\ RequestsOK
        BY <2>1, BoundsAssumption, EmptySeq
        DEF Init, CertificatesOK, TokensOK, RequestsOK, CertificatesOf, Status
    <2>2. ASSUME Init PROVE LinksOK /\ RestOK
        BY <2>2, BoundsAssumption DEF Init, LinksOK, RestOK, Drains
    <2> QED BY <2>1, <2>2 DEF AgentsOK
<1> QED BY <1>1, NextKeepsParts, PTL DEF Spec

\* Rows, requests and processes agree on what exists: AgentsTypeOK always holds.
THEOREM AgentsTypeCorrect == Spec => []AgentsTypeOK
BY PartsCorrect, PartsAreTypes, PTL

-----------------------------------------------------------------------------
(* Requests are accepted once.                                             *)

\* What was accepted is not newer than the last request on the agent's row.
OnceBehindLast ==
    \A a \in Agent, t \in Time :
        accepted[a][t] =< 1 /\ (accepted[a][t] > 0 => t =< lastRequest[a])

\* However often and in whatever order requests arrive, each is acted on once.
THEOREM RequestsAcceptedOnce == Spec => []AcceptedOnce
<1>1. Init => OnceBehindLast
    BY DEF Init, OnceBehindLast
<1>2. ASSUME AgentsOK, OnceBehindLast, [Next]_vars PROVE OnceBehindLast'
    <2>1. ASSUME NEW a \in Agent, NEW t \in Time, AuthenticateLocalAgent(a, t) PROVE OnceBehindLast'
        <3>1. /\ lastRequest' = [lastRequest EXCEPT ![a] = t] /\ t > lastRequest[a]
              /\ accepted' = [accepted EXCEPT ![a][t] = @ + 1]
            BY <2>1 DEF AuthenticateLocalAgent, Accept
        <3>2. lastRequest \in [Agent -> 0 .. MaxRequests] /\ accepted \in [Agent -> [Time -> Nat]]
            BY <1>2 DEF AgentsOK, RestOK, LinksOK
        <3>3. accepted[a][t] = 0
            <4>1. accepted[a][t] \in Nat /\ lastRequest[a] \in Int /\ t \in Int
                BY <3>2, BoundsAssumption DEF Time
            <4>2. accepted[a][t] > 0 => t =< lastRequest[a]
                BY <1>2 DEF OnceBehindLast
            <4> QED BY <3>1, <4>1, <4>2
        <3>4. ASSUME NEW b \in Agent, NEW u \in Time
              PROVE  accepted'[b][u] =< 1 /\ (accepted'[b][u] > 0 => u =< lastRequest'[b])
            <4>1. accepted'[b][u] = IF b = a /\ u = t THEN accepted[b][u] + 1 ELSE accepted[b][u]
                BY <3>1, <3>2
            <4>2. lastRequest'[b] = IF b = a THEN t ELSE lastRequest[b]
                BY <3>1, <3>2
            <4>3. accepted[b][u] =< 1 /\ (accepted[b][u] > 0 => u =< lastRequest[b])
                  /\ lastRequest[b] \in Int /\ u \in Int /\ t \in Int
                BY <1>2, <3>2 DEF OnceBehindLast, Time
            <4> QED BY <3>1, <3>3, <4>1, <4>2, <4>3
        <3> QED BY <3>4 DEF OnceBehindLast
    <2>2. CASE UNCHANGED <<lastRequest, accepted>>
        BY <1>2, <2>2 DEF OnceBehindLast
    <2> QED BY <1>2, <2>1, <2>2
        DEF Next, Handle, vars, tables, CreateLocalAgentRegistration, RegisterReads, TokenExpires,
            RegisterLocalAgent, Start, Crash, GiveUp, Send, EndBuild, LeaseLapses, DrainLocalAgent,
            RevokeLocalAgent, MarkOffline, CompleteDrain, HeartbeatLocalAgent,
            RotateLocalAgentCertificate, ClaimLocalAgentBuildTask, Grant, EndLocalAgentBuildTask,
            AbortHandler, ExpireCertificate
<1>3. AgentsOK /\ OnceBehindLast => AcceptedOnce
    BY DEF OnceBehindLast, AcceptedOnce
<1> QED BY <1>1, <1>2, <1>3, PartsCorrect, PTL DEF Spec

-----------------------------------------------------------------------------
(* One active certificate.                                                 *)

\* The active certificates of an agent, given those of the state before.
LEMMA ActiveAfter ==
    ASSUME certificate \in Seq(Certificate), SameCertificates,
           \A s \in 1 .. Len(certificate) :
                certificate'[s].status = "active" => certificate[s].status = "active",
           UNCHANGED serial, OneActiveCertificate
    PROVE  OneActiveCertificate'
<1>1. DOMAIN certificate = 1 .. Len(certificate)
    BY LenProperties
<1>2. \A a \in Agent : ActiveCertificates(a)' \subseteq ActiveCertificates(a)
    BY <1>1 DEF SameCertificates, ActiveCertificates, CertificatesOf
<1> QED BY <1>2 DEF OneActiveCertificate

LEMMA ActiveAfterOneMore ==
    ASSUME AgentsOK, NEW a \in Agent, NEW old \in Seq(Certificate), Len(old) = Len(certificate),
           \A s \in 1 .. Len(certificate) : old[s].agent = certificate[s].agent
                /\ (old[s].status = "active" => certificate[s].status = "active"),
           \A s \in ActiveCertificates(a) : old[s].status # "active",
           certificate' = Append(old, [agent |-> a, status |-> "active"]),
           serial' = [serial EXCEPT ![a] = Len(certificate')],
           OneActiveCertificate
    PROVE  OneActiveCertificate'
<1>1. /\ Len(certificate') = Len(certificate) + 1 /\ Len(certificate) \in Nat
      /\ certificate'[Len(certificate')] = [agent |-> a, status |-> "active"]
      /\ \A s \in 1 .. Len(certificate) : certificate'[s] = old[s]
      /\ certificate' \in Seq(Certificate)
    BY AppendCertificate DEF AgentsOK, CertificatesOK, OneMoreCertificate
<1>2. DOMAIN certificate = 1 .. Len(certificate) /\ DOMAIN certificate' = 1 .. Len(certificate) + 1
    BY <1>1, LenProperties DEF AgentsOK, CertificatesOK
<1>3. ASSUME NEW b \in Agent, NEW s \in ActiveCertificates(b)' PROVE s = serial'[b]
    <2>1. s \in DOMAIN certificate' /\ certificate'[s].agent = b /\ certificate'[s].status = "active"
        BY <1>3 DEF ActiveCertificates, CertificatesOf
    <2>2. CASE s = Len(certificate')
        BY <1>1, <2>1, <2>2 DEF AgentsOK, CertificatesOK
    <2>3. CASE s \in 1 .. Len(certificate)
        <3>1. certificate[s].agent = b /\ certificate[s].status = "active" /\ old[s].status = "active"
            BY <1>1, <2>1, <2>3
        <3>2. s \in ActiveCertificates(b)
            BY <1>2, <2>3, <3>1 DEF ActiveCertificates, CertificatesOf
        <3>3. b # a
            BY <3>1, <3>2
        <3> QED BY <3>2, <3>3 DEF OneActiveCertificate, AgentsOK, CertificatesOK
    <2> QED BY <1>1, <1>2, <2>1, <2>2, <2>3
<1> QED BY <1>3 DEF OneActiveCertificate

\* A one-time token and any number of overlapping rotations leave an agent one
\* active certificate at most, the one its row names.
THEOREM CertificatesStayUnique == Spec => []OneActiveCertificate
<1>1. Init => OneActiveCertificate
    BY EmptySeq DEF Init, OneActiveCertificate, ActiveCertificates, CertificatesOf
<1>2. ASSUME AgentsOK, OneActiveCertificate, [Next]_vars PROVE OneActiveCertificate'
    <2>0. certificate \in Seq(Certificate)
        BY <1>2 DEF AgentsOK, CertificatesOK
    <2>1. ASSUME NEW a \in Agent, NEW p \in Protocol, NEW answered \in BOOLEAN,
                 RegisterLocalAgent(a, p, answered)
          PROVE  OneActiveCertificate'
        <3>1. CASE token[a] = "pending" /\ IssueFirst(a, p, answered)
            <4>1. ActiveCertificates(a) = {}
                BY <1>2, <3>1 DEF AgentsOK, TokensOK, ActiveCertificates
            <4> QED BY <1>2, <2>0, <3>1, <4>1, ActiveAfterOneMore DEF IssueFirst
        <3>2. CASE UNCHANGED <<certificate, serial>>
            BY <1>2, <2>0, <3>2, ActiveAfter, CertificatesStay
        <3> QED BY <2>1, <3>1, <3>2 DEF RegisterLocalAgent
    <2>2. ASSUME NEW h \in handlers, RotateLocalAgentCertificate(h) PROVE OneActiveCertificate'
        <3>1. PICK a \in Agent : a = h.agent
            BY <1>2, HandlerFacts
        <3> DEFINE old == WithStatus(ActiveCertificates(a), "rotated")
        <3>2. /\ old \in Seq(Certificate) /\ Len(old) = Len(certificate)
              /\ \A s \in 1 .. Len(certificate) : old[s].agent = certificate[s].agent
                    /\ old[s].status = IF s \in ActiveCertificates(a) THEN "rotated" ELSE certificate[s].status
            BY <2>0, StatusFacts DEF CertificateStatus
        <3>3. /\ certificate' = Append(old, [agent |-> a, status |-> "active"])
              /\ serial' = [serial EXCEPT ![a] = Len(certificate')]
            BY <2>2, <3>1 DEF RotateLocalAgentCertificate
        <3>4. ActiveCertificates(a) \subseteq 1 .. Len(certificate)
            BY <2>0, LenProperties DEF ActiveCertificates, CertificatesOf
        <3> HIDE DEF old
        <3> QED BY <1>2, <3>2, <3>3, <3>4, ActiveAfterOneMore
    <2>3. ASSUME NEW S, NEW new \in {"revoked", "expired"}, certificate' = WithStatus(S, new), UNCHANGED serial
          PROVE  OneActiveCertificate'
        BY <1>2, <2>0, <2>3, StatusKeepsCertificates, ActiveAfter DEF CertificateStatus
    <2>4. ASSUME NEW a \in Agent, RevokeLocalAgent(a) PROVE OneActiveCertificate'
        BY <2>3, <2>4 DEF RevokeLocalAgent
    <2>5. ASSUME NEW s \in DOMAIN certificate, ExpireCertificate(s) PROVE OneActiveCertificate'
        BY <2>3, <2>5 DEF ExpireCertificate
    <2>6. CASE UNCHANGED <<certificate, serial>>
        BY <1>2, <2>0, <2>6, ActiveAfter, CertificatesStay
    <2> QED BY <1>2, <2>1, <2>2, <2>4, <2>5, <2>6
        DEF Next, Handle, vars, tables, CreateLocalAgentRegistration, RegisterReads, TokenExpires,
            Start, Crash, GiveUp, Send, EndBuild, LeaseLapses, DrainLocalAgent, AuthenticateLocalAgent,
            Accept, MarkOffline, CompleteDrain, HeartbeatLocalAgent, ClaimLocalAgentBuildTask, Grant,
            EndLocalAgentBuildTask, AbortHandler
<1> QED BY <1>1, <1>2, PartsCorrect, PTL DEF Spec

-----------------------------------------------------------------------------
(* Drains and revocations are respected.                                   *)

\* A handler that may claim has a request from before the drain, too.
ClaimsBeforeCutoff ==
    /\ \A a \in Agent :
        /\ drain[a] = "accepting" => cutoff[a] = MaxRequests
        /\ \A t \in slots[a] : t =< cutoff[a]
    /\ \A h \in handlers : h.mayClaim => h.time =< cutoff[h.agent]

\* The cutoff of an agent is moved behind all that it sent, or to the end.
LEMMA SetDrainKeepsCutoff ==
    ASSUME AgentsOK, ClaimsBeforeCutoff, NEW a \in Agent, NEW d \in Drains, SetDrain(a, d),
           UNCHANGED <<slots, handlers>>
    PROVE  ClaimsBeforeCutoff'
<1>1. /\ drain' = [drain EXCEPT ![a] = d]
      /\ cutoff' = [cutoff EXCEPT ![a] = IF d = "accepting" THEN MaxRequests
                                         ELSE IF drain[a] = "accepting" THEN Len(requests[a]) ELSE @]
    BY DEF SetDrain
<1>2. /\ \A b \in Agent : b # a => drain'[b] = drain[b] /\ cutoff'[b] = cutoff[b]
      /\ drain'[a] = d
      /\ cutoff'[a] = IF d = "accepting" THEN MaxRequests
                      ELSE IF drain[a] = "accepting" THEN Len(requests[a]) ELSE cutoff[a]
    BY <1>1 DEF AgentsOK, RestOK
<1>3. \A t \in Sent(a) : t =< MaxRequests /\ t =< Len(requests[a])
    BY LenProperties, BoundsAssumption DEF AgentsOK, RequestsOK, Sent, Time
<1>4. slots[a] \subseteq Sent(a) /\ \A h \in handlers : h.agent \in Agent /\ h.time \in Sent(h.agent)
    BY HandlerFacts DEF AgentsOK, LinksOK
<1>5. \A t \in slots[a] : t =< cutoff'[a]
    BY <1>2, <1>3, <1>4 DEF ClaimsBeforeCutoff
<1>6. \A h \in handlers : h.mayClaim => h.time =< cutoff'[h.agent]
    BY <1>2, <1>3, <1>4 DEF ClaimsBeforeCutoff
<1>7. \A b \in Agent : drain'[b] = "accepting" => cutoff'[b] = MaxRequests
    BY <1>2 DEF ClaimsBeforeCutoff
<1>8. \A b \in Agent : \A t \in slots[b] : t =< cutoff'[b]
    BY <1>2, <1>5 DEF ClaimsBeforeCutoff
<1> QED BY <1>6, <1>7, <1>8 DEF ClaimsBeforeCutoff

\* No task is granted to a request sent after the drain that is in force.
THEOREM DrainsRespected == Spec => []DrainIsRespected
<1>1. Init => ClaimsBeforeCutoff
    BY DEF Init, ClaimsBeforeCutoff
<1>2. ASSUME AgentsOK, ClaimsBeforeCutoff, [Next]_vars PROVE ClaimsBeforeCutoff'
    <2>1. ASSUME NEW a \in Agent, NEW t \in Time, AuthenticateLocalAgent(a, t) PROVE ClaimsBeforeCutoff'
        <3> DEFINE new == [agent |-> a, time |-> t, mayClaim |-> MayClaim(a)]
        <3>1. handlers' = handlers \cup {new} /\ UNCHANGED <<drain, cutoff, slots>>
            BY <2>1 DEF AuthenticateLocalAgent, Accept
        <3>2. new.agent = a /\ new.time = t /\ new.mayClaim = MayClaim(a)
            OBVIOUS
        <3> HIDE DEF new
        <3>3. MayClaim(a) => t =< cutoff[a]
            BY <1>2, BoundsAssumption DEF MayClaim, ClaimsBeforeCutoff, Time
        <3> QED BY <1>2, <3>1, <3>2, <3>3 DEF ClaimsBeforeCutoff
    <2>2. ASSUME NEW a \in Agent, NEW d \in Drains, DrainLocalAgent(a, d) PROVE ClaimsBeforeCutoff'
        BY <1>2, <2>2, SetDrainKeepsCutoff DEF DrainLocalAgent
    <2>3. ASSUME NEW a \in Agent, RevokeLocalAgent(a) PROVE ClaimsBeforeCutoff'
        BY <1>2, <2>3, SetDrainKeepsCutoff DEF RevokeLocalAgent, Drains
    <2>4. ASSUME NEW a \in Agent, CompleteDrain(a) PROVE ClaimsBeforeCutoff'
        BY <1>2, <2>4 DEF CompleteDrain, ClaimsBeforeCutoff, AgentsOK, RestOK
    <2>5. ASSUME NEW h \in handlers, NEW granted \in BOOLEAN, ClaimLocalAgentBuildTask(h, granted)
          PROVE  ClaimsBeforeCutoff'
        <3>1. PICK a \in Agent : a = h.agent
            BY <1>2, HandlerFacts
        <3>2. handlers' = handlers \ {h} /\ UNCHANGED <<drain, cutoff>>
              /\ (UNCHANGED slots \/ (h.mayClaim /\ slots' = [slots EXCEPT ![a] = @ \cup {h.time}]))
            BY <2>5, <3>1 DEF ClaimLocalAgentBuildTask, Grant, Answer
        <3>3. \A b \in Agent : \A t \in slots'[b] : t =< cutoff[b]
            BY <1>2, <3>1, <3>2 DEF ClaimsBeforeCutoff, AgentsOK, LinksOK
        <3> QED BY <1>2, <3>2, <3>3 DEF ClaimsBeforeCutoff
    <2>6. ASSUME handlers' \subseteq handlers, UNCHANGED <<drain, cutoff>>,
                 \A b \in Agent : slots'[b] \subseteq slots[b]
          PROVE  ClaimsBeforeCutoff'
        BY <1>2, <2>6 DEF ClaimsBeforeCutoff
    <2>7. ASSUME NEW h \in handlers, EndLocalAgentBuildTask(h) PROVE ClaimsBeforeCutoff'
        BY <1>2, <2>6, <2>7 DEF EndLocalAgentBuildTask, Answer, AgentsOK, LinksOK
    <2>8. ASSUME NEW a \in Agent, NEW t \in Time, LeaseLapses(a, t) PROVE ClaimsBeforeCutoff'
        BY <1>2, <2>6, <2>8 DEF LeaseLapses, AgentsOK, LinksOK
    <2>9. CASE handlers' \subseteq handlers /\ UNCHANGED <<drain, cutoff, slots>>
        BY <2>6, <2>9
    <2> QED BY <1>2, <2>1, <2>2, <2>3, <2>4, <2>5, <2>7, <2>8, <2>9
        DEF Next, Handle, vars, tables, CreateLocalAgentRegistration, RegisterReads, TokenExpires,
            RegisterLocalAgent, Start, Crash, GiveUp, Send, EndBuild, MarkOffline,
            HeartbeatLocalAgent, RotateLocalAgentCertificate, Answer, AbortHandler, ExpireCertificate
<1>3. ClaimsBeforeCutoff => DrainIsRespected
    BY DEF ClaimsBeforeCutoff, DrainIsRespected
<1> QED BY <1>1, <1>2, <1>3, PartsCorrect, PTL DEF Spec

LEMMA RevokedStays ==
    ASSUME AgentsOK, [Next]_vars, NEW b \in Agent, status[b] = "revoked"
    PROVE  status'[b] = "revoked" /\ accepted'[b] = accepted[b]
<1>1. status'[b] = "revoked"
    <2>1. CASE \E a \in Agent : status[a] # "revoked" /\ \E new : status' = [status EXCEPT ![a] = new]
        BY <2>1 DEF AgentsOK, TokensOK
    <2>2. ASSUME NEW h \in handlers, NEW p, HeartbeatLocalAgent(h, p) PROVE status'[b] = "revoked"
        <3>1. h.agent \in Agent
            BY HandlerFacts
        <3> QED BY <2>1, <2>2, <3>1 DEF HeartbeatLocalAgent
    <2>3. ASSUME NEW a \in Agent, NEW p, NEW answered, RegisterLocalAgent(a, p, answered)
          PROVE  status'[b] = "revoked"
        BY <2>1, <2>3 DEF RegisterLocalAgent, IssueFirst
    <2>4. CASE UNCHANGED status
        BY <2>4
    <2> QED BY <2>1, <2>2, <2>3, <2>4
        DEF Next, Handle, vars, tables, CreateLocalAgentRegistration, RegisterReads, TokenExpires,
            Start, Crash, GiveUp, Send, EndBuild, LeaseLapses, DrainLocalAgent, AuthenticateLocalAgent,
            Accept, RevokeLocalAgent, MarkOffline, CompleteDrain, RotateLocalAgentCertificate,
            ClaimLocalAgentBuildTask, Grant, EndLocalAgentBuildTask, AbortHandler, ExpireCertificate
<1>2. accepted'[b] = accepted[b]
    <2>1. ASSUME NEW a \in Agent, NEW t \in Time, AuthenticateLocalAgent(a, t) PROVE accepted'[b] = accepted[b]
        BY <2>1 DEF AuthenticateLocalAgent, Accept, AgentsOK, LinksOK
    <2>2. CASE UNCHANGED accepted
        BY <2>2
    <2> QED BY <2>1, <2>2
        DEF Next, Handle, vars, CreateLocalAgentRegistration, RegisterReads, TokenExpires,
            RegisterLocalAgent, Start, Crash, GiveUp, Send, EndBuild, LeaseLapses, DrainLocalAgent,
            RevokeLocalAgent, MarkOffline, CompleteDrain, HeartbeatLocalAgent,
            RotateLocalAgentCertificate, ClaimLocalAgentBuildTask, Grant, EndLocalAgentBuildTask,
            AbortHandler, ExpireCertificate
<1> QED BY <1>1, <1>2

\* A revoked agent stays revoked, and none of its requests is accepted again,
\* whatever calls were under way when it was revoked.
THEOREM RevocationIsFinal == Spec => RevokedIsFinal
<1>1. AgentsOK /\ [Next]_vars =>
        [\A a \in Agent : status[a] = "revoked" =>
            status'[a] = "revoked" /\ accepted'[a] = accepted[a]]_vars
    BY RevokedStays
<1> QED BY <1>1, PartsCorrect, PTL DEF Spec, RevokedIsFinal

-----------------------------------------------------------------------------
(***************************************************************************)
(* Builds can report.  The process sends a rotation only while no build    *)
(* runs, and a build begins only with the answer to the request the        *)
(* process sent last; so every rotation it ever requested is older than    *)
(* the claims of its builds.  And no certificate is rotated unrequested.   *)
(***************************************************************************)

Rotation(a, r) == r \in DOMAIN requests[a] /\ requests[a][r].op = "rotate"

BuildsAreNewest ==
    \A a \in Agent :
        /\ awaited[a] \in {0, Len(requests[a])}
        /\ \A t \in builds[a] : \A r : Rotation(a, r) => r < t

RotatedOnRequest ==
    \A a \in Agent : \A s \in CertificatesOf(a) :
        certificate[s].status = "rotated" => \E r : Rotation(a, r)

\* A request that is sent becomes the last of its agent.
LEMMA PostAppends ==
    ASSUME AgentsOK, NEW a \in Agent, NEW op, NEW of, Post(a, op, of)
    PROVE  /\ Len(requests[a]) \in Nat /\ awaited' = [awaited EXCEPT ![a] = Len(requests[a]) + 1]
           /\ Len(requests'[a]) = Len(requests[a]) + 1
           /\ \A r : Rotation(a, r)' <=> Rotation(a, r) \/ (r = Len(requests[a]) + 1 /\ op = "rotate")
           /\ \A b \in Agent \ {a} : requests'[b] = requests[b]
<1> DEFINE new == [op |-> op, serial |-> client[a], of |-> of]
<1>1. requests[a] \in Seq(Request) /\ requests \in [Agent -> Seq(Request)]
      /\ Len(requests[a]) \in Nat /\ DOMAIN requests[a] = 1 .. Len(requests[a])
    BY LenProperties DEF AgentsOK, RequestsOK
<1>2. requests' = [requests EXCEPT ![a] = Append(requests[a], new)]
    BY <1>1 DEF Post
<1>3. new.op = op
    OBVIOUS
<1> HIDE DEF new
<1>4. requests'[a] = Append(requests[a], new) /\ \A b \in Agent \ {a} : requests'[b] = requests[b]
    BY <1>1, <1>2
<1>5. /\ Len(requests'[a]) = Len(requests[a]) + 1
      /\ DOMAIN requests'[a] = 1 .. Len(requests[a]) + 1
      /\ \A i \in 1 .. Len(requests[a]) : requests'[a][i] = requests[a][i]
      /\ requests'[a][Len(requests[a]) + 1] = new
    BY <1>1, <1>4
<1>6. awaited' = [awaited EXCEPT ![a] = Len(requests[a]) + 1]
    BY <1>5 DEF Post
<1>7. ASSUME NEW r
      PROVE  Rotation(a, r)' <=> Rotation(a, r) \/ (r = Len(requests[a]) + 1 /\ op = "rotate")
    BY <1>1, <1>3, <1>5 DEF Rotation
<1> QED BY <1>1, <1>4, <1>5, <1>6, <1>7

\* A rotation is never sent beside a build.
LEMMA PostKeepsNewest ==
    ASSUME AgentsOK, BuildsAreNewest, NEW a \in Agent, NEW op, NEW of, Post(a, op, of),
           builds' \in [Agent -> SUBSET Time], \A b \in Agent : builds'[b] \subseteq builds[b],
           op = "rotate" => builds'[a] = {}
    PROVE  BuildsAreNewest'
<1>0. /\ awaited' = [awaited EXCEPT ![a] = Len(requests[a]) + 1]
      /\ Len(requests'[a]) = Len(requests[a]) + 1
      /\ \A r : Rotation(a, r)' <=> Rotation(a, r) \/ (r = Len(requests[a]) + 1 /\ op = "rotate")
      /\ \A b \in Agent \ {a} : requests'[b] = requests[b]
      /\ awaited \in [Agent -> 0 .. MaxRequests]
    BY PostAppends DEF AgentsOK, LinksOK
<1>1. ASSUME NEW b \in Agent \ {a}
      PROVE  /\ awaited'[b] \in {0, Len(requests'[b])}
             /\ \A t \in builds'[b] : \A r : Rotation(b, r)' => r < t
    BY <1>0, <1>1 DEF BuildsAreNewest, Rotation
<1>2. awaited'[a] \in {0, Len(requests'[a])}
    BY <1>0
<1>3. ASSUME NEW t \in builds'[a], NEW r, Rotation(a, r)' PROVE r < t
    <2>1. Rotation(a, r) /\ t \in builds[a]
        BY <1>0, <1>3
    <2> QED BY <2>1 DEF BuildsAreNewest
<1> QED BY <1>1, <1>2, <1>3 DEF BuildsAreNewest

LEMMA NewestInvariant == Spec => []BuildsAreNewest
<1>1. Init => BuildsAreNewest
    BY DEF Init, BuildsAreNewest
<1>2. ASSUME AgentsOK, BuildsAreNewest, [Next]_vars PROVE BuildsAreNewest'
    <2>0. awaited \in [Agent -> 0 .. MaxRequests] /\ builds \in [Agent -> SUBSET Time]
        BY <1>2 DEF AgentsOK, LinksOK
    <2>1. ASSUME UNCHANGED requests, \A b \in Agent : awaited'[b] \in {0, awaited[b]},
                 \A b \in Agent : builds'[b] \subseteq builds[b]
          PROVE  BuildsAreNewest'
        BY <1>2, <2>1 DEF BuildsAreNewest, Rotation
    <2>2. ASSUME NEW a \in Agent, NEW op, Send(a, op) PROVE BuildsAreNewest'
        BY <1>2, <2>0, <2>2, PostKeepsNewest DEF Send
    <2>3. ASSUME NEW a \in Agent, NEW t \in Time, EndBuild(a, t) PROVE BuildsAreNewest'
        <3>1. /\ builds' \in [Agent -> SUBSET Time] /\ \A b \in Agent : builds'[b] \subseteq builds[b]
              /\ Post(a, "end", t) \/ UNCHANGED <<requests, awaited>>
            BY <2>0, <2>3 DEF EndBuild
        <3> QED BY <1>2, <2>1, <3>1, PostKeepsNewest
    <2>4. ASSUME NEW a \in Agent, Crash(a) PROVE BuildsAreNewest'
        BY <2>0, <2>1, <2>4 DEF Crash
    <2>5. ASSUME NEW a \in Agent, GiveUp(a) PROVE BuildsAreNewest'
        BY <2>0, <2>1, <2>5 DEF GiveUp
    <2>6. ASSUME NEW h \in handlers, Answer(h) PROVE \A b \in Agent : awaited'[b] \in {0, awaited[b]}
        BY <2>0, <2>6 DEF Answer
    <2>7. ASSUME NEW h \in handlers, NEW granted \in BOOLEAN, ClaimLocalAgentBuildTask(h, granted)
          PROVE  BuildsAreNewest'
        <3>1. PICK a \in Agent : a = h.agent /\ h.time \in Sent(a)
            BY <1>2, HandlerFacts
        <3>2. /\ requests[a][h.time].op = "claim" /\ UNCHANGED requests /\ Answer(h)
              /\ builds' = IF granted /\ InTime(h) THEN [builds EXCEPT ![a] = @ \cup {h.time}] ELSE builds
            BY <2>7, <3>1 DEF ClaimLocalAgentBuildTask, Grant, RequestAt
        <3>3. CASE granted /\ InTime(h)
            <4>1. h.time = Len(requests[a]) /\ Len(requests[a]) \in Nat
                  /\ DOMAIN requests[a] = 1 .. Len(requests[a])
                BY <1>2, <3>1, <3>3, LenProperties, BoundsAssumption
                DEF InTime, BuildsAreNewest, AgentsOK, RequestsOK, Sent, Time
            <4>2. \A r : Rotation(a, r) => r < h.time
                BY <3>2, <4>1 DEF Rotation
            <4>3. \A b \in Agent : \A t \in builds'[b] : \A r : Rotation(b, r) => r < t
                BY <1>2, <2>0, <3>2, <3>3, <4>2 DEF BuildsAreNewest
            <4> QED BY <1>2, <2>6, <3>2, <4>3 DEF BuildsAreNewest, Rotation
        <3>4. CASE ~(granted /\ InTime(h))
            BY <2>1, <2>6, <3>2, <3>4
        <3> QED BY <3>3, <3>4
    <2>8. ASSUME NEW h \in handlers, Answer(h), UNCHANGED <<requests, builds>> PROVE BuildsAreNewest'
        BY <2>1, <2>6, <2>8
    <2>9. CASE UNCHANGED <<requests, builds, awaited>>
        BY <2>1, <2>9
    <2> QED BY <1>2, <2>2, <2>3, <2>4, <2>5, <2>7, <2>8, <2>9
        DEF Next, Handle, vars, process, CreateLocalAgentRegistration, RegisterReads, TokenExpires,
            RegisterLocalAgent, Start, LeaseLapses, DrainLocalAgent, AuthenticateLocalAgent, Accept,
            RevokeLocalAgent, MarkOffline, CompleteDrain, HeartbeatLocalAgent,
            RotateLocalAgentCertificate, EndLocalAgentBuildTask, AbortHandler, ExpireCertificate
<1> QED BY <1>1, <1>2, PartsCorrect, PTL DEF Spec

LEMMA RotatedInvariant == Spec => []RotatedOnRequest
<1>1. Init => RotatedOnRequest
    BY EmptySeq DEF Init, RotatedOnRequest, CertificatesOf
<1>2. ASSUME AgentsOK, RotatedOnRequest, [Next]_vars PROVE RotatedOnRequest'
    <2>0. certificate \in Seq(Certificate) /\ DOMAIN certificate = 1 .. Len(certificate)
        BY <1>2, LenProperties DEF AgentsOK, CertificatesOK
    <2>1. ASSUME UNCHANGED certificate, \A a \in Agent : \A r : Rotation(a, r) => Rotation(a, r)'
          PROVE  RotatedOnRequest'
        BY <1>2, <2>1 DEF RotatedOnRequest, CertificatesOf
    <2>2. ASSUME NEW a \in Agent, NEW op, NEW of, Post(a, op, of), UNCHANGED certificate
          PROVE  RotatedOnRequest'
        BY <1>2, <2>1, <2>2, PostAppends DEF Rotation
    <2>3. ASSUME NEW S, NEW new \in {"revoked", "expired"}, certificate' = WithStatus(S, new),
                 UNCHANGED requests
          PROVE  RotatedOnRequest'
        <3>1. /\ SameCertificates
              /\ \A s \in 1 .. Len(certificate) :
                    certificate'[s].status = IF s \in S THEN new ELSE certificate[s].status
            BY <2>0, <2>3, StatusKeepsCertificates DEF CertificateStatus
        <3>2. \A a \in Agent : \A s \in CertificatesOf(a)' : s \in CertificatesOf(a) /\ s \in 1 .. Len(certificate)
            BY <2>0, <3>1 DEF SameCertificates, CertificatesOf
        <3> QED BY <1>2, <2>3, <3>1, <3>2 DEF RotatedOnRequest, Rotation
    <2>4. ASSUME NEW a \in Agent, NEW old \in Seq(Certificate), Len(old) = Len(certificate),
                 \A s \in 1 .. Len(certificate) : old[s].agent = certificate[s].agent,
                 \A s \in 1 .. Len(certificate) :
                    old[s].status = "rotated" =>
                        \/ certificate[s].status = "rotated"
                        \/ certificate[s].agent = a /\ \E r : Rotation(a, r),
                 certificate' = Append(old, [agent |-> a, status |-> "active"]), UNCHANGED requests
          PROVE  RotatedOnRequest'
        <3>1. /\ OneMoreCertificate(a) /\ Len(certificate) \in Nat
              /\ certificate'[Len(certificate')] = [agent |-> a, status |-> "active"]
              /\ \A s \in 1 .. Len(certificate) : certificate'[s] = old[s]
            BY <2>0, <2>4, AppendCertificate
        <3>2. ASSUME NEW b \in Agent, NEW s \in CertificatesOf(b)', certificate'[s].status = "rotated"
              PROVE  \E r : Rotation(b, r)
            <4>1. s # Len(certificate')
                BY <3>1, <3>2
            <4>2. s \in CertificatesOf(b)
                BY <3>1, <3>2, <4>1 DEF OneMoreCertificate
            <4>3. s \in 1 .. Len(certificate) /\ certificate[s].agent = b
                BY <2>0, <4>2 DEF CertificatesOf
            <4> QED BY <1>2, <2>4, <3>1, <3>2, <4>2, <4>3 DEF RotatedOnRequest
        <3> QED BY <2>4, <3>2 DEF RotatedOnRequest, Rotation
    <2>5. ASSUME NEW a \in Agent, NEW p, NEW answered, RegisterLocalAgent(a, p, answered)
          PROVE  RotatedOnRequest'
        <3>1. CASE certificate' = Append(certificate, [agent |-> a, status |-> "active"])
            BY <2>0, <2>4, <2>5, <3>1 DEF RegisterLocalAgent
        <3>2. CASE UNCHANGED certificate
            BY <2>1, <2>5, <3>2 DEF RegisterLocalAgent, Rotation
        <3> QED BY <2>5, <3>1, <3>2 DEF RegisterLocalAgent, IssueFirst
    <2>6. ASSUME NEW h \in handlers, RotateLocalAgentCertificate(h) PROVE RotatedOnRequest'
        <3>1. PICK a \in Agent : a = h.agent /\ h.time \in Sent(a)
            BY <1>2, HandlerFacts
        <3> DEFINE old == WithStatus(ActiveCertificates(a), "rotated")
        <3>2. /\ old \in Seq(Certificate) /\ Len(old) = Len(certificate)
              /\ \A s \in 1 .. Len(certificate) : old[s].agent = certificate[s].agent
                    /\ old[s].status = IF s \in ActiveCertificates(a) THEN "rotated" ELSE certificate[s].status
            BY <2>0, StatusFacts DEF CertificateStatus
        <3>3. certificate' = Append(old, [agent |-> a, status |-> "active"]) /\ UNCHANGED requests
            BY <2>6, <3>1 DEF RotateLocalAgentCertificate
        <3>4. \E r : Rotation(a, r)
            BY <2>6, <3>1 DEF RotateLocalAgentCertificate, RequestAt, Rotation, Sent
        <3>5. \A s \in ActiveCertificates(a) : certificate[s].agent = a
            BY DEF ActiveCertificates, CertificatesOf
        <3> HIDE DEF old
        <3> QED BY <2>4, <3>2, <3>3, <3>4, <3>5
    <2>7. ASSUME NEW a \in Agent, RevokeLocalAgent(a) PROVE RotatedOnRequest'
        BY <2>3, <2>7 DEF RevokeLocalAgent
    <2>8. ASSUME NEW s \in DOMAIN certificate, ExpireCertificate(s) PROVE RotatedOnRequest'
        BY <2>3, <2>8 DEF ExpireCertificate
    <2>9. CASE UNCHANGED <<certificate, requests>>
        BY <2>1, <2>9 DEF Rotation
    <2>10. ASSUME NEW a \in Agent, NEW op, Send(a, op) PROVE RotatedOnRequest'
        BY <2>2, <2>10 DEF Send, tables
    <2>11. ASSUME NEW a \in Agent, NEW t, EndBuild(a, t) PROVE RotatedOnRequest'
        BY <2>2, <2>9, <2>11 DEF EndBuild, tables
    <2> QED BY <1>2, <2>5, <2>6, <2>7, <2>8, <2>9, <2>10, <2>11
        DEF Next, Handle, vars, tables, CreateLocalAgentRegistration, RegisterReads, TokenExpires,
            Start, Crash, GiveUp, LeaseLapses, DrainLocalAgent, AuthenticateLocalAgent,
            Accept, MarkOffline, CompleteDrain, HeartbeatLocalAgent, ClaimLocalAgentBuildTask, Grant,
            EndLocalAgentBuildTask, AbortHandler
<1> QED BY <1>1, <1>2, PartsCorrect, PTL DEF Spec

\* The certificate a running build was claimed with is found rotated only if a
\* rotation was requested before the claim.
THEOREM BuildsKeepReporting == Spec => []BuildsCanReport
<1>1. AgentsOK /\ BuildsAreNewest /\ RotatedOnRequest => BuildsCanReport
    <2> SUFFICES ASSUME AgentsOK, BuildsAreNewest, RotatedOnRequest,
                        NEW a \in Agent, NEW t \in builds[a],
                        certificate[requests[a][t].serial].status = "rotated"
                 PROVE  \E r \in 1 .. t - 1 : requests[a][r].op = "rotate"
        BY DEF BuildsCanReport
    <2>1. t \in Sent(a) /\ t \in Nat
        BY BoundsAssumption DEF AgentsOK, LinksOK, Sent, Time
    <2>2. PICK r : Rotation(a, r)
        BY <2>1, SentByRegistered DEF RotatedOnRequest
    <2>3. r < t /\ r \in Nat \ {0} /\ requests[a][r].op = "rotate"
        BY <2>2, LenProperties DEF BuildsAreNewest, Rotation, AgentsOK, RequestsOK
    <2> QED BY <2>1, <2>3
<1> QED BY <1>1, NewestInvariant, RotatedInvariant, PartsCorrect, PTL
=============================================================================
