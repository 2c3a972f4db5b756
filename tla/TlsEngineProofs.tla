---------------------------- MODULE TlsEngineProofs ----------------------------
(***************************************************************************)
(* That the TLS engine serves each host in turn, sends no ClientHello that *)
(* was not agreed to, reports results whose parts belong together and      *)
(* shares what was fetched, for any targets, hosts, options and peers.      *)
(*                                                                         *)
(* A step of a target changes its own task, result and probe, and of what  *)
(* is shared only what its lock covers; so one lemma (StepPreserves) says  *)
(* what such a step has to respect, and each action is shown to.           *)
(***************************************************************************)
EXTENDS TlsEngine, FiniteSetTheorems, TLAPS

(* The dialogue that had to come before a handshake came, and said yes.    *)
Agreed(p) ==
  /\ {"dns", "tcp"} \subseteq p.timed
  /\ ("starttls" \in p.timed) <=> (p.starttls # "none")
  /\ p.starttls \in {"smtp", "imap"} => p.advertised

(* A probe, wherever it is: a connection is open between its making and    *)
(* its end, nothing is sent before the dialogue is over, and the offer of  *)
(* STARTTLS was seen when its turn has passed.                             *)
Early == {"idle", "resolve", "connect", "negotiate", "hello"}
Connected == {"negotiate", "hello", "pump", "flush", "capture"}

Legal(p) ==
  /\ p \in Probes
  /\ p.open => p.at \in Connected
  /\ p.at \in Early => p.sent = 0 /\ p.received = 0
  /\ p.at = "pump" => p.sent + p.received <= MaxBytes + 1
  /\ p.at = "resolve" => p.timed = {}
  /\ p.at = "connect" => p.timed = {"dns"}
  /\ p.at = "negotiate" =>
       /\ p.timed = {"dns", "tcp"} /\ p.starttls # "none"
       /\ p.turn \in 1 .. Len(Dialogue(p.starttls))
       /\ p.starttls \in {"smtp", "imap"} /\ p.turn = 3 => p.advertised
  /\ (p.at \in Connected \ {"negotiate"} \/ p.sent > 0) => Agreed(p)

Before == {"queued", "backoff", "warmup", "sampling", "retrying"}
FetchingRegistry == {"fetching_registry", "refetching_registry"}
FetchingGuidelines == {"fetching_guidelines", "refetching_guidelines"}
During == {"checking"} \cup FetchingRegistry \cup FetchingGuidelines
Evidence == {"chain", "revocation", "ct", "san"}

(* What the result of a target may say, given what its task is doing.      *)
Outcome(k, r) ==
  /\ k.at \in {"waiting"} \cup Before => r.audits = {} /\ r.profile = "none"
  /\ k.at \in {"waiting", "queued", "backoff", "warmup"} => r.samples = 0
  /\ k.at \in {"sampling", "retrying"} => r.samples <= k.index
  /\ k.at \in During \cup {"returned"} =>
       /\ r.measured <=> r.status = "ok"
       /\ r.measured => r.samples > 0
       /\ r.audits \cap Evidence # {} => r.certificate
       /\ ("profiles" \in r.audits) <=> (r.profile # "none")
  /\ k.at \in During => (k.todo \cap Evidence # {} => r.certificate)
  /\ k.at \in FetchingRegistry => "ct" \in k.todo
  /\ k.at \in FetchingGuidelines => "profiles" \in k.todo
  /\ k.at = "failed" => r = [NoResult EXCEPT !.status = "tcp_error"]

(* Only a target that handshakes has a probe, and while it warms up there  *)
(* is a handshake left.                                                    *)
Tidy(k, p) ==
  /\ Legal(p)
  /\ k.at \notin {"warmup", "sampling"} => p = NoProbe
  /\ k.at = "warmup" => k.left > 0

Holding == Before \cup During
ReturnedTargets == {t \in Targets : task[t].at = "returned"}

(* Serial hosts: who is past its lock holds it, and the failures that a    *)
(* target waits out are there.                                             *)
Locks ==
  opts.serial =>
    \A t \in opts.targets :
      /\ task[t].at \in Holding => hostLock[Host(t)] = t
      /\ task[t].at = "backoff" => failedHosts[Host(t)] > 0

IInv ==
  /\ opts \in Scenarios
  /\ TypeOK
  /\ \A t \in Targets : Tidy(task[t], probe[t]) /\ Outcome(task[t], result[t])
  /\ \A t \in Targets \ opts.targets : task[t].at = "waiting"
  /\ Locks
  /\ guidelines.fetched => (guidelines.known <=> ~ guidelines.error)
  /\ checkCounter = Cardinality(ReturnedTargets)
-------------------------------------------------------------------------------
(* The dialogues: up to three turns, and where a peer has to offer          *)
(* STARTTLS it does so in the second of three.                             *)
LEMMA DialogueFacts ==
  ASSUME NEW protocol \in StartTLSProtocols
  PROVE  /\ Len(Dialogue(protocol)) \in 0 .. 3
         /\ Dialogue(protocol) = << >> <=> protocol = "none"
         /\ Dialogue(protocol) # << >> => Len(Dialogue(protocol)) \in 1 .. 3
         /\ protocol \in {"smtp", "imap"} =>
              Len(Dialogue(protocol)) = 3 /\ Dialogue(protocol)[2].advert
         /\ \A i \in 1 .. Len(Dialogue(protocol)) :
              LET turn == Dialogue(protocol)[i]
              IN /\ turn.refusal # "none" => turn.refusal \in HandshakeStatuses
                 /\ turn.eof # "raises" => turn.eof \in HandshakeStatuses
                 /\ turn.advert \in BOOLEAN
<1>. DEFINE d == Dialogue(protocol)
            Ordinary(turn) ==
              /\ turn.refusal # "none" => turn.refusal \in HandshakeStatuses
              /\ turn.eof # "raises" => turn.eof \in HandshakeStatuses
              /\ turn.advert \in BOOLEAN
<1>0. \A refusal \in {"none", "starttls_failed", "starttls_unsupported"}, many \in BOOLEAN, advert \in BOOLEAN :
        /\ Ordinary(Turn(refusal, many, advert))
        /\ Turn(refusal, many, advert).advert = advert
  BY DEF Turn, HandshakeStatuses
<1>. HIDE DEF Ordinary
<1>. SUFFICES /\ Len(d) \in 0 .. 3
              /\ d = << >> <=> protocol = "none"
              /\ d # << >> => Len(d) \in 1 .. 3
              /\ protocol \in {"smtp", "imap"} => Len(d) = 3 /\ d[2].advert
              /\ \A i \in 1 .. Len(d) : Ordinary(d[i])
  BY DEF Ordinary
<1>1. CASE protocol = "none"
  BY <1>1 DEF Dialogue
<1>2. CASE protocol = "smtp"
  <2>1. d = NegotiateSmtp
    BY <1>2 DEF Dialogue
  <2>2. PICK t1, t2, t3 : NegotiateSmtp = <<t1, t2, t3>> /\ t1 = Turn("starttls_failed", TRUE, FALSE) /\ t2 = Turn("none", TRUE, TRUE) /\ t3 = Turn("starttls_failed", FALSE, FALSE)
    BY DEF NegotiateSmtp
  <2>3. Ordinary(t1) /\ Ordinary(t2) /\ Ordinary(t3) /\ t2.advert
    BY <1>0, <2>2
  <2>4. d = <<t1, t2, t3>>
    BY <2>1, <2>2
  <2>5. Len(d) = 3 /\ d[1] = t1 /\ d[2] = t2 /\ d[3] = t3
    BY <2>4
  <2>6. \A i \in 1 .. Len(d) : i = 1 \/ i = 2 \/ i = 3
    BY <2>5
  <2>7. d # << >>
    BY <2>5
  <2>. HIDE DEF d
  <2>8. \A i \in 1 .. Len(d) : Ordinary(d[i])
    BY <2>3, <2>5, <2>6
  <2>9. QED
    BY <1>2, <2>3, <2>5, <2>7, <2>8
<1>3. CASE protocol = "imap"
  <2>1. d = NegotiateImap
    BY <1>3 DEF Dialogue
  <2>2. PICK t1, t2, t3 : NegotiateImap = <<t1, t2, t3>> /\ t1 = Turn("starttls_failed", FALSE, FALSE) /\ t2 = Turn("none", TRUE, TRUE) /\ t3 = Turn("starttls_failed", TRUE, FALSE)
    BY DEF NegotiateImap
  <2>3. Ordinary(t1) /\ Ordinary(t2) /\ Ordinary(t3) /\ t2.advert
    BY <1>0, <2>2
  <2>4. d = <<t1, t2, t3>>
    BY <2>1, <2>2
  <2>5. Len(d) = 3 /\ d[1] = t1 /\ d[2] = t2 /\ d[3] = t3
    BY <2>4
  <2>6. \A i \in 1 .. Len(d) : i = 1 \/ i = 2 \/ i = 3
    BY <2>5
  <2>7. d # << >>
    BY <2>5
  <2>. HIDE DEF d
  <2>8. \A i \in 1 .. Len(d) : Ordinary(d[i])
    BY <2>3, <2>5, <2>6
  <2>9. QED
    BY <1>3, <2>3, <2>5, <2>7, <2>8
<1>4. CASE protocol = "pop3"
  <2>1. d = NegotiatePop3
    BY <1>4 DEF Dialogue
  <2>2. PICK t1, t2 : NegotiatePop3 = <<t1, t2>> /\ t1 = Turn("starttls_failed", FALSE, FALSE) /\ t2 = Turn("starttls_unsupported", FALSE, FALSE)
    BY DEF NegotiatePop3
  <2>3. Ordinary(t1) /\ Ordinary(t2)
    BY <1>0, <2>2
  <2>4. d = <<t1, t2>>
    BY <2>1, <2>2
  <2>5. Len(d) = 2 /\ d[1] = t1 /\ d[2] = t2
    BY <2>4
  <2>6. \A i \in 1 .. Len(d) : i = 1 \/ i = 2
    BY <2>5
  <2>7. d # << >>
    BY <2>5
  <2>. HIDE DEF d
  <2>8. \A i \in 1 .. Len(d) : Ordinary(d[i])
    BY <2>3, <2>5, <2>6
  <2>9. QED
    BY <1>4, <2>3, <2>5, <2>7, <2>8
<1>5. CASE protocol = "ftp"
  <2>1. d = NegotiateFtp
    BY <1>5 DEF Dialogue
  <2>2. PICK t1, t2 : NegotiateFtp = <<t1, t2>> /\ t1 = Turn("starttls_failed", TRUE, FALSE) /\ t2 = Turn("starttls_unsupported", FALSE, FALSE)
    BY DEF NegotiateFtp
  <2>3. Ordinary(t1) /\ Ordinary(t2)
    BY <1>0, <2>2
  <2>4. d = <<t1, t2>>
    BY <2>1, <2>2
  <2>5. Len(d) = 2 /\ d[1] = t1 /\ d[2] = t2
    BY <2>4
  <2>6. \A i \in 1 .. Len(d) : i = 1 \/ i = 2
    BY <2>5
  <2>7. d # << >>
    BY <2>5
  <2>. HIDE DEF d
  <2>8. \A i \in 1 .. Len(d) : Ordinary(d[i])
    BY <2>3, <2>5, <2>6
  <2>9. QED
    BY <1>5, <2>3, <2>5, <2>7, <2>8
<1>6. CASE protocol = "ldap"
  <2>1. d = NegotiateLdap
    BY <1>6 DEF Dialogue
  <2>2. PICK t1 : NegotiateLdap = <<t1>>
                  /\ t1 = [refusal |-> "starttls_unsupported", many |-> FALSE,
                           advert |-> FALSE, eof |-> "starttls_failed"]
    BY DEF NegotiateLdap
  <2>3. Ordinary(t1)
    BY <2>2 DEF Ordinary, HandshakeStatuses
  <2>4. Len(d) = 1 /\ d[1] = t1 /\ d # << >>
    BY <2>1, <2>2
  <2>. HIDE DEF d
  <2>5. QED
    BY <1>6, <2>3, <2>4
<1>7. QED
  BY <1>1, <1>2, <1>3, <1>4, <1>5, <1>6 DEF StartTLSProtocols

LEMMA NoProbeIsLegal == Legal(NoProbe)
<1>1. 0 \in 0 .. MaxBytes + 2 /\ 0 \in 0 .. 3
  BY ByteCapAssumption
<1>2. "ok" \in HandshakeStatuses /\ "none" \in StartTLSProtocols
  BY DEF HandshakeStatuses, StartTLSProtocols
<1>3. NoProbe \in Probes
  BY <1>1, <1>2 DEF NoProbe, Probes
<1>4. QED
  BY <1>3 DEF Legal, NoProbe, Early, Connected

LEMMA BeginningIsLegal ==
  ASSUME NEW protocol \in StartTLSProtocols
  PROVE  Legal([NoProbe EXCEPT !.at = "resolve", !.starttls = protocol])
<1>1. 0 \in 0 .. MaxBytes + 2
  BY ByteCapAssumption
<1>2. [NoProbe EXCEPT !.at = "resolve", !.starttls = protocol] \in Probes
  BY <1>1, NoProbeIsLegal DEF Legal, NoProbe, Probes
<1>3. QED
  BY <1>2 DEF Legal, NoProbe, Early, Connected

LEMMA ReturnedIsLegal ==
  ASSUME NEW p, Legal(p), NEW status \in HandshakeStatuses, NEW timed \in SUBSET Phases,
         "starttls" \in timed => p.at = "negotiate", {"dns", "tcp"} \cap timed # {} => p.sent = 0
  PROVE  Legal(Returned(p, status, timed))
<1>. DEFINE q == Returned(p, status, timed)
<1>1. p \in Probes /\ (p.at = "negotiate" => p.sent = 0)
  BY DEF Legal, Early
<1>2. /\ q \in Probes /\ q.at = "returned" /\ q.open = FALSE /\ q.sent = p.sent
      /\ q.timed = p.timed \cup timed /\ q.starttls = p.starttls /\ q.advertised = p.advertised
  BY <1>1 DEF Returned, Probes
<1>3. q.sent > 0 => Agreed(q)
  <2>1. SUFFICES ASSUME q.sent > 0
                 PROVE  Agreed(q)
    OBVIOUS
  <2>2. p.sent > 0 /\ Agreed(p) /\ "starttls" \notin timed
    BY <1>1, <1>2, <2>1 DEF Legal
  <2>3. QED
    BY <1>2, <2>2 DEF Agreed
<1>4. QED
  BY <1>2, <1>3 DEF Legal, Early, Connected

LEMMA RaisedIsLegal ==
  ASSUME NEW p, Legal(p)
  PROVE  Legal(RaisedFrom(p))
<1>1. p \in Probes
  BY DEF Legal
<1>2. /\ RaisedFrom(p) \in Probes /\ RaisedFrom(p).at = "raised"
      /\ RaisedFrom(p).open = FALSE /\ RaisedFrom(p).sent = p.sent
      /\ RaisedFrom(p).timed = p.timed /\ RaisedFrom(p).starttls = p.starttls
      /\ RaisedFrom(p).advertised = p.advertised
  BY <1>1 DEF RaisedFrom, Probes
<1>3. p.sent > 0 => Agreed(p)
  BY DEF Legal
<1>4. QED
  BY <1>2, <1>3 DEF Legal, Early, Connected, Agreed
(* What a turn leads to: the next turn, or the handshake once the last     *)
(* turn is over and what had to be offered was.                            *)
LEMMA TurnTakenIsLegal ==
  ASSUME NEW p, Legal(p), p.at = "negotiate", NEW mentions \in Mentions(p)
  PROVE  Legal(TurnTaken([p EXCEPT !.advertised = @ \/ mentions]))
<1>. DEFINE d == Dialogue(p.starttls)
            q == [p EXCEPT !.advertised = @ \/ mentions]
<1>1. /\ p \in Probes /\ p.starttls \in StartTLSProtocols /\ p.turn \in 1 .. Len(d)
      /\ p.timed = {"dns", "tcp"} /\ p.starttls # "none"
      /\ p.sent = 0 /\ p.received = 0 /\ p.advertised \in BOOLEAN
      /\ p.starttls \in {"smtp", "imap"} /\ p.turn = 3 => p.advertised
  BY DEF Legal, Early, Probes
<1>2. /\ Len(d) \in 1 .. 3
      /\ p.starttls \in {"smtp", "imap"} => Len(d) = 3 /\ d[2].advert
      /\ d[p.turn].advert \in BOOLEAN
  BY <1>1, DialogueFacts
<1>3. mentions \in BOOLEAN
  BY <1>2 DEF Mentions, CurrentTurn
<1>4. /\ q \in Probes /\ q.at = "negotiate" /\ q.turn = p.turn /\ q.starttls = p.starttls
      /\ q.timed = p.timed /\ q.sent = 0 /\ q.received = 0 /\ q.open = p.open
      /\ q.advertised \in BOOLEAN /\ (p.advertised => q.advertised)
  BY <1>1, <1>3 DEF Probes
<1>5. Legal(q)
  BY <1>1, <1>4 DEF Legal, Early, Connected
<1>. HIDE DEF q
<1>6. CASE CurrentTurn(q).advert /\ ~ q.advertised
  <2>1. TurnTaken(q) = Returned(q, "starttls_unsupported", {"starttls"})
    BY <1>6 DEF TurnTaken, EndNegotiation
  <2>2. "starttls_unsupported" \in HandshakeStatuses /\ {"starttls"} \in SUBSET Phases
    BY DEF HandshakeStatuses, Phases
  <2>3. Legal(Returned(q, "starttls_unsupported", {"starttls"}))
    BY <1>4, <1>5, <2>2, ReturnedIsLegal
  <2>4. QED
    BY <2>1, <2>3 DEF q
<1>7. CASE ~ (CurrentTurn(q).advert /\ ~ q.advertised) /\ q.turn = Len(d)
  <2>. DEFINE u == Upgraded(q)
  <2>1. TurnTaken(q) = u
    BY <1>4, <1>7 DEF TurnTaken
  <2>2. /\ u \in Probes /\ u.at = "hello" /\ u.timed = {"dns", "tcp", "starttls"}
        /\ u.sent = 0 /\ u.received = 0 /\ u.starttls = p.starttls /\ u.open = q.open
        /\ u.advertised = q.advertised
    <3>1. q.timed \cup {"starttls"} = {"dns", "tcp", "starttls"}
      BY <1>1, <1>4
    <3>2. {"dns", "tcp", "starttls"} \in SUBSET Phases
      BY DEF Phases
    <3>3. QED
      BY <1>4, <3>1, <3>2 DEF Upgraded, Probes
  <2>3. p.starttls \in {"smtp", "imap"} => q.advertised
    BY <1>1, <1>2, <1>4, <1>7
  <2>4. Agreed(u)
    BY <1>1, <2>2, <2>3 DEF Agreed
  <2>5. Legal(u)
    BY <2>2, <2>4 DEF Legal, Connected
  <2>6. QED
    BY <2>1, <2>5 DEF q
<1>8. CASE ~ (CurrentTurn(q).advert /\ ~ q.advertised) /\ q.turn # Len(d)
  <2>. DEFINE u == [q EXCEPT !.turn = @ + 1]
  <2>1. TurnTaken(q) = u
    BY <1>4, <1>8 DEF TurnTaken
  <2>2. p.turn + 1 \in 1 .. Len(d) /\ p.turn + 1 \in 0 .. 3
    <3>1. PICK n \in 1 .. 3 : n = Len(d)
      BY <1>2
    <3>2. p.turn \in 1 .. n /\ p.turn # n
      BY <1>1, <1>4, <1>8, <3>1
    <3>3. p.turn + 1 \in 1 .. n /\ p.turn + 1 \in 0 .. 3
      BY <3>2
    <3>4. QED
      BY <3>1, <3>3
  <2>3. /\ u \in Probes /\ u.at = "negotiate" /\ u.timed = q.timed
        /\ u.sent = 0 /\ u.received = 0 /\ u.starttls = p.starttls /\ u.open = q.open
        /\ u.advertised = q.advertised /\ u.turn = p.turn + 1
    BY <1>4, <2>2 DEF Probes
  <2>4. ASSUME p.starttls \in {"smtp", "imap"}, p.turn + 1 = 3
        PROVE  q.advertised
    <3>1. p.turn = 2 /\ d[2].advert
      BY <1>1, <1>2, <2>4
    <3>2. CurrentTurn(q).advert
      BY <1>4, <3>1 DEF CurrentTurn
    <3>3. QED
      BY <1>8, <3>2
  <2>5. Legal(u)
    BY <1>1, <1>4, <2>2, <2>3, <2>4 DEF Legal, Connected
  <2>6. QED
    BY <2>1, <2>5 DEF q
<1>9. QED
  BY <1>6, <1>7, <1>8
LEMMA ProbeStepIsLegal ==
  ASSUME NEW t \in Targets, Legal(probe[t]), ProbeStep(t)
  PROVE  \E p : Legal(p) /\ probe' = [probe EXCEPT ![t] = p]
<1>. DEFINE p == probe[t]
<1>. SUFFICES \E q : Legal(q) /\ Become(t, q)
  BY DEF Become
<1>1. p \in Probes /\ p.sent \in 0 .. MaxBytes + 2 /\ p.received \in 0 .. MaxBytes + 2
      /\ p.starttls \in StartTLSProtocols
  BY DEF Legal, Probes
<1>2. /\ {"dns"} \in SUBSET Phases /\ {} \in SUBSET Phases /\ {"tcp", "total"} \in SUBSET Phases
      /\ {"handshake"} \in SUBSET Phases /\ {"handshake", "total"} \in SUBSET Phases
      /\ {"starttls"} \in SUBSET Phases
  BY DEF Phases
<1>3. {"ok", "blocked", "dns_failure", "tcp_refused", "tcp_timeout", "tcp_error",
       "starttls_failed", "starttls_unsupported", "tls_error", "handshake_timeout",
       "handshake_abandoned", "peer_closed"} \subseteq HandshakeStatuses
  BY DEF HandshakeStatuses
<1>4. ASSUME NEW q, Legal(q), NEW status \in HandshakeStatuses
      PROVE  Legal(EndHandshake(q, status))
  BY <1>2, <1>4, ReturnedIsLegal DEF EndHandshake
<1>5. CASE Resolve(t)
  <2>1. p.at = "resolve" /\ p.sent = 0 /\ p.received = 0 /\ p.timed = {} /\ ~ p.open
    BY <1>1, <1>5 DEF Resolve, Legal, Early, Connected, Probes
  <2>2. Legal(Returned(p, "blocked", {})) /\ Legal(Returned(p, "dns_failure", {"dns"}))
    BY <1>2, <1>3, <2>1, ReturnedIsLegal
  <2>3. Legal([p EXCEPT !.at = "connect", !.timed = {"dns"}])
    <3>. DEFINE q == [p EXCEPT !.at = "connect", !.timed = {"dns"}]
    <3>1. /\ q \in Probes /\ q.at = "connect" /\ q.timed = {"dns"}
          /\ q.sent = 0 /\ q.received = 0 /\ q.open = FALSE
      BY <1>1, <1>2, <2>1 DEF Probes
    <3>. HIDE DEF q
    <3>2. Legal(q)
      BY <3>1 DEF Legal, Early, Connected
    <3>3. QED
      BY <3>2 DEF q
  <2>4. QED
    BY <1>5, <2>2, <2>3, RaisedIsLegal DEF Resolve
<1>6. CASE Connect(t)
  <2>. DEFINE c == [p EXCEPT !.open = TRUE, !.timed = @ \cup {"tcp"}]
  <2>1. p.at = "connect" /\ p.sent = 0 /\ p.received = 0 /\ p.timed = {"dns"} /\ ~ p.open
    BY <1>1, <1>6 DEF Connect, Legal, Early, Connected, Probes
  <2>2. \A status \in {"tcp_timeout", "tcp_refused", "tcp_error"} :
          Legal(Returned(p, status, {"tcp", "total"}))
    BY <1>2, <1>3, <2>1, ReturnedIsLegal
  <2>3. /\ c \in Probes /\ c.sent = 0 /\ c.received = 0 /\ c.starttls = p.starttls
        /\ c.timed = {"dns", "tcp"} /\ c.at = "connect"
    <3>1. p.timed \cup {"tcp"} = {"dns", "tcp"} /\ {"dns", "tcp"} \in SUBSET Phases
      BY <2>1 DEF Phases
    <3>2. QED
      BY <1>1, <2>1, <3>1 DEF Probes
  <2>. HIDE DEF c
  <2>4. Legal(Negotiating(c))
    <3>1. CASE p.starttls = "none"
      <4>1. Negotiating(c) = [c EXCEPT !.at = "hello"]
        BY <1>1, <2>3, <3>1, DialogueFacts DEF Negotiating
      <4>2. Agreed([c EXCEPT !.at = "hello"])
        BY <2>3, <3>1 DEF Agreed, Probes
      <4>3. Legal([c EXCEPT !.at = "hello"])
        BY <2>3, <4>2 DEF Legal, Probes, Early, Connected
      <4>4. QED
        BY <4>1, <4>3
    <3>2. CASE p.starttls # "none"
      <4>. DEFINE n == [c EXCEPT !.at = "negotiate", !.turn = 1, !.advertised = FALSE]
      <4>1. Dialogue(p.starttls) # << >> /\ Len(Dialogue(p.starttls)) \in 1 .. 3
        BY <1>1, <3>2, DialogueFacts
      <4>2. 1 \in 1 .. Len(Dialogue(p.starttls)) /\ 1 \in 0 .. 3
        BY <4>1
      <4>3. Negotiating(c) = n
        BY <2>3, <4>1 DEF Negotiating
      <4>4. /\ n \in Probes /\ n.at = "negotiate" /\ n.turn = 1 /\ n.sent = 0 /\ n.received = 0
            /\ n.timed = {"dns", "tcp"} /\ n.starttls = p.starttls
        BY <2>3, <4>2 DEF Probes
      <4>. HIDE DEF n
      <4>5. Legal(n)
        BY <3>2, <4>2, <4>4 DEF Legal, Early, Connected
      <4>6. QED
        BY <4>3, <4>5
    <3>3. QED
      BY <3>1, <3>2
  <2>5. QED
    BY <1>6, <2>2, <2>4 DEF Connect, c
<1>7. CASE ReadContinuation(t)
  <2>1. p.at = "negotiate" /\ p.sent = 0 /\ p.received = 0
    BY <1>7 DEF ReadContinuation, Legal, Early
  <2>2. p.turn \in 1 .. Len(Dialogue(p.starttls))
    BY <2>1 DEF Legal
  <2>3. PICK mentions \in Mentions(p) : Become(t, [p EXCEPT !.advertised = @ \/ mentions])
    BY <1>7 DEF ReadContinuation
  <2>4. mentions \in BOOLEAN
    BY DEF Mentions
  <2>. DEFINE q == [p EXCEPT !.advertised = @ \/ mentions]
  <2>5. /\ q \in Probes /\ q.at = "negotiate" /\ q.turn = p.turn /\ q.starttls = p.starttls
        /\ q.timed = p.timed /\ q.sent = 0 /\ q.received = 0 /\ q.open = p.open
        /\ (p.advertised => q.advertised)
    BY <1>1, <2>1, <2>4 DEF Probes
  <2>. HIDE DEF q
  <2>6. Legal(q)
    BY <2>1, <2>5 DEF Legal, Early, Connected
  <2>7. QED
    BY <2>3, <2>6 DEF q
<1>8. CASE ReadReply(t)
  <2>1. p.at = "negotiate" /\ p.sent = 0
    BY <1>8 DEF ReadReply, Legal, Early
  <2>2. CASE \E mentions \in Mentions(p) :
               Become(t, TurnTaken([p EXCEPT !.advertised = @ \/ mentions]))
    BY <2>1, <2>2, TurnTakenIsLegal
  <2>3. CASE CurrentTurn(p).refusal # "none" /\ Become(t, EndNegotiation(p, CurrentTurn(p).refusal))
    <3>1. p.turn \in 1 .. Len(Dialogue(p.starttls))
      BY <2>1 DEF Legal
    <3>2. CurrentTurn(p).refusal \in HandshakeStatuses
      BY <1>1, <2>3, <3>1, DialogueFacts DEF CurrentTurn
    <3>3. Legal(EndNegotiation(p, CurrentTurn(p).refusal))
      BY <1>2, <2>1, <3>2, ReturnedIsLegal DEF EndNegotiation
    <3>4. QED
      BY <2>3, <3>3
  <2>4. QED
    BY <1>8, <2>2, <2>3 DEF ReadReply
<1>9. CASE NegotiationFails(t)
  <2>1. p.at = "negotiate" /\ p.sent = 0
    BY <1>9 DEF NegotiationFails, Legal, Early
  <2>2. Legal(EndNegotiation(p, "starttls_failed"))
    BY <1>2, <1>3, <2>1, ReturnedIsLegal DEF EndNegotiation
  <2>3. QED
    BY <1>9, <2>2 DEF NegotiationFails
<1>10. CASE PeerHangsUp(t)
  <2>1. p.at = "negotiate" /\ p.sent = 0
    BY <1>10 DEF PeerHangsUp, Legal, Early
  <2>2. p.turn \in 1 .. Len(Dialogue(p.starttls))
    BY <2>1 DEF Legal
  <2>3. CurrentTurn(p).eof # "raises" => CurrentTurn(p).eof \in HandshakeStatuses
    BY <1>1, <2>2, DialogueFacts DEF CurrentTurn
  <2>4. CurrentTurn(p).eof # "raises" => Legal(EndNegotiation(p, CurrentTurn(p).eof))
    BY <1>2, <2>1, <2>3, ReturnedIsLegal DEF EndNegotiation
  <2>5. Legal(HangsUp(p))
    BY <2>4, RaisedIsLegal DEF HangsUp
  <2>6. QED
    BY <1>10, <2>5 DEF PeerHangsUp
<1>11. CASE SendHello(t)
  <2>1. p.at = "hello" /\ p.sent = 0 /\ p.received = 0 /\ Agreed(p)
    BY <1>11 DEF SendHello, Legal, Early, Connected
  <2>. DEFINE q == [p EXCEPT !.at = "pump", !.sent = 1]
  <2>2. 1 \in 0 .. MaxBytes + 2 /\ 1 + 0 <= MaxBytes + 1
    BY ByteCapAssumption
  <2>3. /\ q \in Probes /\ q.at = "pump" /\ q.sent = 1 /\ q.received = 0
        /\ q.timed = p.timed /\ q.starttls = p.starttls /\ q.advertised = p.advertised
    BY <1>1, <2>1, <2>2 DEF Probes
  <2>. HIDE DEF q
  <2>4. Legal(q)
    BY <2>1, <2>2, <2>3 DEF Legal, Agreed, Early, Connected
  <2>5. QED
    BY <1>3, <1>4, <1>11, <2>4 DEF SendHello, q
<1>12. CASE PumpHandshake(t)
  <2>. DEFINE r == [p EXCEPT !.received = @ + 1]
  <2>1. p.at = "pump" /\ p.sent + p.received <= MaxBytes + 1 /\ Agreed(p)
    BY <1>12 DEF PumpHandshake, Legal, Connected
  <2>2. p.received + 1 \in 0 .. MaxBytes + 2
    BY <1>1, <2>1, ByteCapAssumption
  <2>3. /\ r \in Probes /\ r.at = "pump" /\ r.sent = p.sent /\ r.received = p.received + 1
        /\ r.timed = p.timed /\ r.starttls = p.starttls /\ r.advertised = p.advertised
    BY <1>1, <2>1, <2>2 DEF Probes
  <2>. HIDE DEF r
  <2>4. ASSUME NEW at \in {"pump", "flush", "capture", "returned"}, NEW sent,
               sent \in 0 .. MaxBytes + 2, at = "pump" => sent + (p.received + 1) <= MaxBytes + 1,
               NEW open \in BOOLEAN, open => at # "returned"
        PROVE  Legal([r EXCEPT !.at = at, !.sent = sent, !.open = open])
    <3>. DEFINE q == [r EXCEPT !.at = at, !.sent = sent, !.open = open]
    <3>1. /\ q \in Probes /\ q.at = at /\ q.sent = sent /\ q.received = p.received + 1
          /\ q.timed = p.timed /\ q.starttls = p.starttls /\ q.advertised = p.advertised
          /\ q.open = open
      BY <2>3, <2>4 DEF Probes
    <3>. HIDE DEF q
    <3>2. Legal(q)
      BY <2>1, <2>4, <3>1 DEF Legal, Agreed, Early, Connected
    <3>3. QED
      BY <3>2 DEF q
  <2>5. ASSUME NEW status \in HandshakeStatuses
        PROVE  Legal(EndHandshake(r, status))
    <3>. DEFINE q == EndHandshake(r, status)
    <3>1. /\ q \in Probes /\ q.at = "returned" /\ q.open = FALSE
          /\ q.timed = r.timed \cup {"handshake"} /\ q.starttls = r.starttls
          /\ q.advertised = r.advertised
      BY <1>2, <2>3 DEF EndHandshake, Returned, Probes
    <3>. HIDE DEF q
    <3>2. Agreed(q)
      BY <2>1, <2>3, <3>1 DEF Agreed
    <3>3. QED
      BY <3>1, <3>2 DEF Legal, Early, Connected, q
  <2>6. CASE OverCap(r)
    BY <1>3, <1>12, <2>5, <2>6 DEF PumpHandshake, r
  <2>7. CASE ~ OverCap(r)
    <3>1. p.sent \in Int /\ p.sent >= 0 /\ p.sent + (p.received + 1) <= MaxBytes /\ p.received >= 0
      BY <1>1, <2>3, <2>7, ByteCapAssumption DEF OverCap
    <3>2. \/ \E payload \in {0, 1} : Become(t, [r EXCEPT !.sent = @ + payload])
          \/ Become(t, EndHandshake(r, "tls_error"))
          \/ Become(t, [r EXCEPT !.at = "flush", !.sent = @ + 1])
          \/ Become(t, [r EXCEPT !.at = "capture"])
      BY <1>12, <2>7 DEF PumpHandshake, r
    <3>3. CASE \E payload \in {0, 1} : Become(t, [r EXCEPT !.sent = @ + payload])
      <4>1. PICK payload \in {0, 1} : Become(t, [r EXCEPT !.sent = @ + payload])
        BY <3>3
      <4>2. /\ p.sent + payload \in 0 .. MaxBytes + 2
            /\ (p.sent + payload) + (p.received + 1) <= MaxBytes + 1
        BY <1>1, <3>1, ByteCapAssumption
      <4>3. [r EXCEPT !.sent = @ + payload]
              = [r EXCEPT !.at = "pump", !.sent = p.sent + payload, !.open = r.open]
        BY <2>3 DEF Probes
      <4>4. r.open \in BOOLEAN
        BY <2>3 DEF Probes
      <4>5. QED
        BY <2>4, <4>1, <4>2, <4>3, <4>4
    <3>4. CASE Become(t, EndHandshake(r, "tls_error"))
      BY <1>3, <2>5, <3>4
    <3>5. CASE Become(t, [r EXCEPT !.at = "flush", !.sent = @ + 1])
      <4>1. p.sent + 1 \in 0 .. MaxBytes + 2
        BY <1>1, <3>1, ByteCapAssumption
      <4>2. [r EXCEPT !.at = "flush", !.sent = @ + 1]
              = [r EXCEPT !.at = "flush", !.sent = p.sent + 1, !.open = r.open]
        BY <2>3 DEF Probes
      <4>3. r.open \in BOOLEAN
        BY <2>3 DEF Probes
      <4>4. QED
        BY <2>4, <3>5, <4>1, <4>2, <4>3
    <3>6. CASE Become(t, [r EXCEPT !.at = "capture"])
      <4>1. [r EXCEPT !.at = "capture"]
              = [r EXCEPT !.at = "capture", !.sent = p.sent, !.open = r.open]
        BY <2>3 DEF Probes
      <4>2. r.open \in BOOLEAN
        BY <2>3 DEF Probes
      <4>3. QED
        BY <1>1, <2>4, <3>6, <4>1, <4>2
    <3>7. QED
      BY <3>2, <3>3, <3>4, <3>5, <3>6
  <2>8. QED
    BY <2>6, <2>7
<1>13. CASE HandshakeTimesOut(t)
  BY <1>3, <1>4, <1>13 DEF HandshakeTimesOut
<1>14. CASE HandshakePeerCloses(t)
  BY <1>3, <1>4, <1>14 DEF HandshakePeerCloses
<1>15. CASE CaptureNegotiated(t)
  <2>. DEFINE q == Returned(p, "ok", {"handshake", "total"})
  <2>1. Legal(q)
    BY <1>2, <1>3, ReturnedIsLegal
  <2>2. q \in Probes /\ q.at = "returned" /\ q.open = FALSE
    BY <2>1 DEF Legal, Returned, Probes
  <2>3. PICK leaf \in BOOLEAN : Become(t, [q EXCEPT !.leaf = leaf])
    BY <1>15 DEF CaptureNegotiated
  <2>. DEFINE l == [q EXCEPT !.leaf = leaf]
  <2>. HIDE DEF q
  <2>4. /\ l \in Probes /\ l.at = "returned" /\ l.open = FALSE /\ l.sent = q.sent
        /\ l.timed = q.timed /\ l.starttls = q.starttls /\ l.advertised = q.advertised
    BY <2>2 DEF Probes
  <2>. HIDE DEF l
  <2>5. Legal(l)
    BY <2>1, <2>2, <2>4 DEF Legal, Agreed, Early, Connected
  <2>6. QED
    BY <2>3, <2>5 DEF l
<1>16. QED
  BY <1>5, <1>6, <1>7, <1>8, <1>9, <1>10, <1>11, <1>12, <1>13, <1>14, <1>15 DEF ProbeStep
-------------------------------------------------------------------------------
(* What a step of t that leads its task to k may do to what is shared.     *)
KeepsLocks(t, k) ==
  /\ hostLock' \in [Hosts -> Targets \cup {None}]
  /\ opts.serial =>
       /\ \A u \in opts.targets \ {t} : hostLock[Host(u)] = u => hostLock'[Host(u)] = u
       /\ k.at \in Holding => hostLock'[Host(t)] = t

KeepsFailures(t, k) ==
  /\ failedHosts' \in [Hosts -> Nat]
  /\ \/ failedHosts' = failedHosts
     \/ /\ task[t].at \in Holding
        /\ \A h \in Hosts \ {Host(t)} : failedHosts'[h] = failedHosts[h]
  /\ k.at = "backoff" => failedHosts'[Host(t)] > 0

KeepsDocuments ==
  /\ registry' \in BOOLEAN
  /\ guidelines' \in [fetched : BOOLEAN, known : BOOLEAN, error : BOOLEAN]
  /\ guidelines'.fetched => (guidelines'.known <=> ~ guidelines'.error)

Counts(t, k) ==
  /\ task[t].at # "returned"
  /\ checkCounter' = IF k.at = "returned" THEN checkCounter + 1 ELSE checkCounter

StepOf(t, k, r, p) ==
  /\ opts' = opts
  /\ task' = [task EXCEPT ![t] = k]
  /\ result' = [result EXCEPT ![t] = r]
  /\ probe' = [probe EXCEPT ![t] = p]
  /\ KeepsLocks(t, k) /\ KeepsFailures(t, k) /\ KeepsDocuments /\ Counts(t, k)

LEMMA OptionFacts ==
  ASSUME IInv
  PROVE  /\ opts \in Options
         /\ opts.targets \subseteq Targets /\ IsFiniteSet(opts.targets)
         /\ \A t \in opts.targets : Host(t) \in Hosts /\ opts.starttls[t] \in StartTLSProtocols
         /\ opts.warmups \in Nat /\ opts.samples \in Nat \ {0} /\ opts.retries \in Nat
         /\ opts.serial \in BOOLEAN
<1>1. opts \in Options
  BY ScenariosAssumption DEF IInv
<1>2. opts.targets \subseteq Targets
  BY <1>1 DEF Options
<1>3. IsFiniteSet(opts.targets)
  BY <1>2, TargetsAssumption, FS_Subset
<1>4. QED
  BY <1>1, <1>2, <1>3 DEF Options, Host

(* A step that goes by these rules preserves the invariant.                *)
LEMMA StepPreserves ==
  ASSUME IInv, NEW t \in opts.targets, NEW k \in Tasks, NEW r \in Results, NEW p,
         Tidy(k, p), Outcome(k, r), StepOf(t, k, r, p)
  PROVE  IInv'
<1>1. /\ opts' = opts /\ opts' \in Scenarios /\ t \in Targets /\ opts.targets \subseteq Targets
      /\ IsFiniteSet(opts.targets) /\ opts.serial \in BOOLEAN
      /\ \A u \in opts.targets : Host(u) \in Hosts
  BY OptionFacts DEF IInv, StepOf
<1>2. /\ Tasks' = Tasks /\ Results' = Results
      /\ \A u \in Targets : Host(u)' = Host(u)
  BY <1>1 DEF Tasks, Results, Host
<1>3. /\ task \in [Targets -> Tasks] /\ result \in [Targets -> Results] /\ probe \in [Targets -> Probes]
      /\ checkCounter = Cardinality(ReturnedTargets)
      /\ \A u \in Targets : Tidy(task[u], probe[u]) /\ Outcome(task[u], result[u])
      /\ \A u \in Targets \ opts.targets : task[u].at = "waiting"
  BY DEF IInv, TypeOK
<1>4. p \in Probes
  BY DEF Tidy, Legal
<1>5. /\ task' \in [Targets -> Tasks] /\ result' \in [Targets -> Results]
      /\ probe' \in [Targets -> Probes]
  BY <1>1, <1>3, <1>4 DEF StepOf
<1>6. /\ task'[t] = k /\ result'[t] = r /\ probe'[t] = p
      /\ \A u \in Targets \ {t} : task'[u] = task[u] /\ result'[u] = result[u] /\ probe'[u] = probe[u]
  BY <1>1, <1>3 DEF StepOf
<1>7. \A u \in Targets : Tidy(task'[u], probe'[u]) /\ Outcome(task'[u], result'[u])
  BY <1>3, <1>6
<1>8. \A u \in Targets \ opts.targets : task'[u].at = "waiting"
  BY <1>1, <1>3, <1>6
<1>9. /\ ReturnedTargets \subseteq opts.targets /\ ReturnedTargets' \subseteq opts.targets
      /\ IsFiniteSet(ReturnedTargets)
  <2>1. ReturnedTargets \subseteq opts.targets /\ ReturnedTargets' \subseteq opts.targets
    BY <1>3, <1>8 DEF ReturnedTargets
  <2>2. QED
    BY <2>1, <1>1, FS_Subset
<1>10. checkCounter' = Cardinality(ReturnedTargets')
  <2>1. Counts(t, k)
    BY DEF StepOf
  <2>2. t \notin ReturnedTargets
    BY <2>1 DEF Counts, ReturnedTargets
  <2>3. CASE k.at = "returned"
    <3>1. ReturnedTargets' = ReturnedTargets \cup {t}
      BY <1>1, <1>6, <2>3 DEF ReturnedTargets
    <3>2. Cardinality(ReturnedTargets') = Cardinality(ReturnedTargets) + 1
      BY <1>9, <2>2, <3>1, FS_AddElement
    <3>3. QED
      BY <1>3, <2>1, <2>3, <3>2 DEF Counts
  <2>4. CASE k.at # "returned"
    <3>1. ReturnedTargets' = ReturnedTargets
      BY <1>1, <1>6, <2>2, <2>4 DEF ReturnedTargets
    <3>2. QED
      BY <1>3, <2>1, <2>4, <3>1 DEF Counts
  <2>5. QED
    BY <2>3, <2>4
<1>11. checkCounter' \in 0 .. Cardinality(opts'.targets)
  <2>1. /\ IsFiniteSet(ReturnedTargets')
        /\ Cardinality(ReturnedTargets') <= Cardinality(opts.targets)
    BY <1>1, <1>9, FS_Subset
  <2>2. Cardinality(ReturnedTargets') \in Nat /\ Cardinality(opts.targets) \in Nat
    BY <1>1, <2>1, FS_CardinalityType
  <2>3. QED
    BY <1>1, <1>10, <2>1, <2>2
<1>12. TypeOK'
  <2>1. hostLock' \in [Hosts -> Targets \cup {None}] /\ failedHosts' \in [Hosts -> Nat]
    BY DEF StepOf, KeepsLocks, KeepsFailures
  <2>2. registry' \in BOOLEAN /\ guidelines' \in [fetched : BOOLEAN, known : BOOLEAN, error : BOOLEAN]
    BY DEF StepOf, KeepsDocuments
  <2>3. QED
    BY <1>2, <1>5, <1>11, <2>1, <2>2 DEF TypeOK
<1>13. Locks'
  <2>1. SUFFICES ASSUME opts.serial, NEW u \in opts.targets
                 PROVE  /\ task'[u].at \in Holding => hostLock'[Host(u)] = u
                        /\ task'[u].at = "backoff" => failedHosts'[Host(u)] > 0
    BY <1>1, <1>2 DEF Locks
  <2>2. KeepsLocks(t, k) /\ KeepsFailures(t, k)
    BY DEF StepOf
  <2>3. CASE u = t
    BY <1>6, <2>1, <2>2, <2>3 DEF KeepsLocks, KeepsFailures
  <2>4. CASE u # t
    <3>1. task'[u] = task[u]
      BY <1>1, <1>6, <2>4
    <3>2. /\ task[u].at \in Holding => hostLock[Host(u)] = u
          /\ task[u].at = "backoff" => failedHosts[Host(u)] > 0
          /\ task[t].at \in Holding => hostLock[Host(t)] = t
      BY <2>1 DEF IInv, Locks
    <3>3. task'[u].at \in Holding => hostLock'[Host(u)] = u
      BY <2>1, <2>2, <2>4, <3>1, <3>2 DEF KeepsLocks
    <3>4. ASSUME task[u].at = "backoff"
          PROVE  failedHosts'[Host(u)] = failedHosts[Host(u)]
      <4>1. task[u].at \in Holding
        BY <3>4 DEF Holding, Before
      <4>2. task[t].at \in Holding => Host(u) # Host(t)
        BY <2>4, <3>2, <4>1
      <4>3. Host(u) \in Hosts
        BY <1>1
      <4>4. QED
        BY <2>2, <4>2, <4>3 DEF KeepsFailures
    <3>5. QED
      BY <3>1, <3>2, <3>3, <3>4
  <2>5. QED
    BY <2>3, <2>4
<1>14. guidelines'.fetched => (guidelines'.known <=> ~ guidelines'.error)
  BY DEF StepOf, KeepsDocuments
<1>15. QED
  BY <1>1, <1>7, <1>8, <1>10, <1>12, <1>13, <1>14 DEF IInv
(* What is known of the target whose step it is.                           *)
LEMMA TargetFacts ==
  ASSUME IInv, NEW t \in opts.targets
  PROVE  /\ t \in Targets /\ task[t] \in Tasks /\ result[t] \in Results
         /\ Tidy(task[t], probe[t]) /\ Outcome(task[t], result[t])
         /\ task = [task EXCEPT ![t] = task[t]]
         /\ result = [result EXCEPT ![t] = result[t]]
         /\ probe = [probe EXCEPT ![t] = probe[t]]
<1>1. t \in Targets
  BY OptionFacts
<1>2. task \in [Targets -> Tasks] /\ result \in [Targets -> Results] /\ probe \in [Targets -> Probes]
  BY DEF IInv, TypeOK
<1>3. Tidy(task[t], probe[t]) /\ Outcome(task[t], result[t])
  BY <1>1 DEF IInv
<1>4. QED
  BY <1>1, <1>2, <1>3

LEMMA DocumentsKept ==
  ASSUME IInv, registry' = registry, guidelines' = guidelines
  PROVE  KeepsDocuments
BY DEF IInv, TypeOK, KeepsDocuments

(* A step between the lock and the end that leaves alone what is shared.   *)
LEMMA QuietStep ==
  ASSUME IInv, NEW t \in opts.targets, NEW k,
         task[t].at \in Holding, k.at \in Holding \ {"backoff"}, UNCHANGED shared
  PROVE  KeepsLocks(t, k) /\ KeepsFailures(t, k) /\ KeepsDocuments /\ Counts(t, k)
<1>1. /\ hostLock' = hostLock /\ failedHosts' = failedHosts /\ registry' = registry
      /\ guidelines' = guidelines /\ checkCounter' = checkCounter
  BY DEF shared
<1>2. /\ hostLock \in [Hosts -> Targets \cup {None}] /\ failedHosts \in [Hosts -> Nat]
      /\ opts.serial => hostLock[Host(t)] = t
  BY DEF IInv, TypeOK, Locks
<1>3. k.at # "returned" /\ task[t].at # "returned"
  BY DEF Holding, Before, During, FetchingRegistry, FetchingGuidelines
<1>4. KeepsDocuments
  BY <1>1, DocumentsKept
<1>5. QED
  BY <1>1, <1>2, <1>3, <1>4 DEF KeepsLocks, KeepsFailures, Counts

(* The lock is given back by who leaves, and by nobody else.               *)
LEMMA LeavingKeepsLocks ==
  ASSUME IInv, NEW t \in opts.targets, NEW k, k.at \notin Holding, hostLock' = Released(t)
  PROVE  KeepsLocks(t, k)
<1>1. hostLock \in [Hosts -> Targets \cup {None}] /\ \A u \in opts.targets : Host(u) \in Hosts
  BY OptionFacts DEF IInv, TypeOK
<1>2. hostLock' \in [Hosts -> Targets \cup {None}]
  BY <1>1 DEF Released
<1>3. \A u \in opts.targets \ {t} : hostLock[Host(u)] = u => hostLock'[Host(u)] = u
  BY <1>1 DEF Released
<1>4. QED
  BY <1>2, <1>3 DEF KeepsLocks

(* A target that raises loses everything but its error.                    *)
LEMMA FailPreserves ==
  ASSUME IInv, NEW t \in opts.targets, task[t].at \in Holding, Fail(t), opts' = opts,
         probe' = [probe EXCEPT ![t] = NoProbe]
  PROVE  IInv'
<1>. DEFINE k == [NoTask EXCEPT !.at = "failed"]
            r == [NoResult EXCEPT !.status = "tcp_error"]
<1>1. /\ opts.warmups \in Nat /\ opts.samples \in Nat \ {0} /\ opts.retries \in Nat
  BY OptionFacts
<1>2. k \in Tasks
  <2>1. 0 \in 0 .. opts.warmups /\ 0 \in 0 .. opts.samples - 1 /\ 1 \in 1 .. opts.retries + 1
    BY <1>1
  <2>2. QED
    BY <2>1 DEF NoTask, Tasks, Ended
<1>3. r \in Results
  <2>1. 0 \in 0 .. opts.samples /\ 1 \in 1 .. opts.retries + 1 /\ "tcp_error" \in HandshakeStatuses
    BY <1>1 DEF HandshakeStatuses
  <2>2. QED
    BY <2>1 DEF NoResult, Results
<1>4. k.at = "failed"
  BY DEF NoTask
<1>5. task' = [task EXCEPT ![t] = k] /\ result' = [result EXCEPT ![t] = r]
  BY DEF Fail, Move
<1>6. Tidy(k, NoProbe)
  BY <1>4, NoProbeIsLegal DEF Tidy
<1>7. Outcome(k, r)
  BY <1>4 DEF Outcome, Before, During, FetchingRegistry, FetchingGuidelines
<1>8. KeepsLocks(t, k)
  <2>1. k.at \notin Holding /\ hostLock' = Released(t)
    BY <1>4 DEF Holding, Before, During, FetchingRegistry, FetchingGuidelines, Fail
  <2>2. QED
    BY <2>1, LeavingKeepsLocks
<1>9. KeepsFailures(t, k) /\ KeepsDocuments /\ Counts(t, k)
  <2>1. /\ failedHosts' = failedHosts /\ registry' = registry
        /\ guidelines' = guidelines /\ checkCounter' = checkCounter
    BY DEF Fail
  <2>2. failedHosts \in [Hosts -> Nat] /\ task[t].at # "returned"
    BY DEF IInv, TypeOK, Holding, Before, During, FetchingRegistry, FetchingGuidelines
  <2>3. KeepsDocuments
    BY <2>1, DocumentsKept
  <2>4. QED
    BY <1>4, <2>1, <2>2, <2>3 DEF KeepsFailures, Counts
<1>. HIDE DEF k, r
<1>10. StepOf(t, k, r, NoProbe)
  BY <1>5, <1>8, <1>9 DEF StepOf
<1>11. QED
  BY <1>2, <1>3, <1>6, <1>7, <1>10, StepPreserves

(* A check is done: what it needed is there, and its audit is recorded     *)
(* with what the check reports.                                            *)
Reported(t, check, r) ==
  /\ r \in Results
  /\ r.measured = result[t].measured /\ r.status = result[t].status
  /\ r.samples = result[t].samples /\ r.certificate = result[t].certificate
  /\ r.audits = result[t].audits
  /\ IF check = "profiles" THEN r.profile # "none" ELSE r.profile = result[t].profile

LEMMA AuditedPreserves ==
  ASSUME IInv, NEW t \in opts.targets, NEW check \in task[t].todo, NEW q, Reported(t, check, q),
         task[t].at \in During, AuditedAs(t, check, q), opts' = opts, probe' = probe,
         hostLock' = hostLock, failedHosts' = failedHosts, checkCounter' = checkCounter,
         KeepsDocuments
  PROVE  IInv'
<1>. DEFINE k == [task[t] EXCEPT !.at = "checking", !.todo = @ \ {check}]
            r == [q EXCEPT !.audits = @ \cup {check}]
<1>1. /\ t \in Targets /\ task[t] \in Tasks /\ result[t] \in Results
      /\ Tidy(task[t], probe[t]) /\ Outcome(task[t], result[t])
      /\ probe = [probe EXCEPT ![t] = probe[t]]
  BY TargetFacts
<1>2. check \in opts.checks
  BY <1>1 DEF Tasks
<1>3. k \in Tasks /\ k.at = "checking" /\ k.todo = task[t].todo \ {check}
  BY <1>1 DEF Tasks
<1>4. /\ r \in Results /\ r.audits = result[t].audits \cup {check}
      /\ r.measured = result[t].measured /\ r.status = result[t].status
      /\ r.samples = result[t].samples /\ r.certificate = result[t].certificate
      /\ r.profile = q.profile
      /\ IF check = "profiles" THEN q.profile # "none" ELSE q.profile = result[t].profile
  <2>1. q \in Results /\ q.audits \cup {check} \in SUBSET opts.checks
    BY <1>2 DEF Reported, Results
  <2>2. r \in Results /\ r.audits = q.audits \cup {check} /\ r.profile = q.profile
        /\ r.measured = q.measured /\ r.status = q.status
        /\ r.samples = q.samples /\ r.certificate = q.certificate
    BY <2>1 DEF Results
  <2>. HIDE DEF r
  <2>3. QED
    BY <2>2 DEF Reported
<1>5. task' = [task EXCEPT ![t] = k] /\ result' = [result EXCEPT ![t] = r]
  BY DEF AuditedAs, Move
<1>. HIDE DEF k, r
<1>6. probe[t] = NoProbe
  BY <1>1 DEF Tidy, During, FetchingRegistry, FetchingGuidelines
<1>7. Tidy(k, probe[t])
  BY <1>3, <1>6, NoProbeIsLegal DEF Tidy
<1>8. /\ result[t].measured <=> result[t].status = "ok"
      /\ result[t].measured => result[t].samples > 0
      /\ result[t].audits \cap Evidence # {} => result[t].certificate
      /\ ("profiles" \in result[t].audits) <=> (result[t].profile # "none")
      /\ task[t].todo \cap Evidence # {} => result[t].certificate
  BY <1>1 DEF Outcome
<1>9. Outcome(k, r)
  <2>1. r.audits \cap Evidence # {} => r.certificate
    BY <1>4, <1>8
  <2>2. k.todo \cap Evidence # {} => r.certificate
    BY <1>3, <1>4, <1>8
  <2>3. ("profiles" \in r.audits) <=> (r.profile # "none")
    BY <1>4, <1>8
  <2>4. (r.measured <=> r.status = "ok") /\ (r.measured => r.samples > 0)
    BY <1>4, <1>8
  <2>5. QED
    BY <1>3, <2>1, <2>2, <2>3, <2>4 DEF Outcome, Before, During, FetchingRegistry, FetchingGuidelines
<1>10. KeepsLocks(t, k) /\ KeepsFailures(t, k) /\ Counts(t, k)
  <2>1. /\ hostLock \in [Hosts -> Targets \cup {None}] /\ failedHosts \in [Hosts -> Nat]
        /\ opts.serial => hostLock[Host(t)] = t
        /\ task[t].at # "returned"
    BY DEF IInv, TypeOK, Locks, Holding, During, FetchingRegistry, FetchingGuidelines
  <2>2. QED
    BY <1>3, <2>1 DEF KeepsLocks, KeepsFailures, Counts
<1>11. StepOf(t, k, r, probe[t])
  BY <1>1, <1>5, <1>10 DEF StepOf
<1>12. QED
  BY <1>3, <1>4, <1>7, <1>9, <1>11, StepPreserves
-------------------------------------------------------------------------------
(* The way in.                                                             *)
LEMMA TakeLockPreserves ==
  ASSUME IInv, NEW t \in opts.targets, TakeLock(t)
  PROVE  IInv'
<1>. DEFINE k == [task[t] EXCEPT !.at = "queued"]
<1>1. /\ t \in Targets /\ task[t] \in Tasks /\ result[t] \in Results
      /\ Tidy(task[t], probe[t]) /\ Outcome(task[t], result[t])
      /\ result = [result EXCEPT ![t] = result[t]]
      /\ probe = [probe EXCEPT ![t] = probe[t]]
  BY TargetFacts
<1>2. /\ task[t].at = "waiting" /\ task' = [task EXCEPT ![t] = k] /\ opts' = opts /\ probe' = probe
      /\ result' = result /\ failedHosts' = failedHosts /\ registry' = registry
      /\ guidelines' = guidelines /\ checkCounter' = checkCounter
  BY DEF TakeLock, At, Move
<1>3. k \in Tasks /\ k.at = "queued"
  BY <1>1 DEF Tasks
<1>. HIDE DEF k
<1>4. Tidy(k, probe[t])
  BY <1>1, <1>2, <1>3 DEF Tidy
<1>5. Outcome(k, result[t])
  BY <1>1, <1>2, <1>3 DEF Outcome, Before, During, FetchingRegistry, FetchingGuidelines
<1>6. KeepsLocks(t, k)
  <2>1. hostLock \in [Hosts -> Targets \cup {None}] /\ Host(t) \in Hosts /\ opts.targets \subseteq Targets
    BY OptionFacts DEF IInv, TypeOK
  <2>2. CASE opts.serial /\ hostLock[Host(t)] = None /\ hostLock' = [hostLock EXCEPT ![Host(t)] = t]
    <3>1. \A u \in opts.targets : hostLock[Host(u)] = u => Host(u) # Host(t)
      BY <2>1, <2>2, TargetsAssumption
    <3>2. hostLock' \in [Hosts -> Targets \cup {None}] /\ hostLock'[Host(t)] = t
      BY <1>1, <2>1, <2>2
    <3>3. \A h \in Hosts \ {Host(t)} : hostLock'[h] = hostLock[h]
      BY <2>1, <2>2
    <3>4. \A u \in opts.targets : Host(u) \in Hosts
      BY OptionFacts
    <3>5. QED
      BY <3>1, <3>2, <3>3, <3>4 DEF KeepsLocks
  <2>3. CASE ~ opts.serial /\ hostLock' = hostLock
    BY <2>1, <2>3 DEF KeepsLocks
  <2>4. QED
    BY <2>2, <2>3 DEF TakeLock
<1>7. KeepsFailures(t, k) /\ Counts(t, k)
  BY <1>2, <1>3 DEF IInv, TypeOK, KeepsFailures, Counts
<1>8. KeepsDocuments
  BY <1>2, DocumentsKept
<1>9. StepOf(t, k, result[t], probe[t])
  BY <1>1, <1>2, <1>6, <1>7, <1>8 DEF StepOf
<1>10. QED
  BY <1>1, <1>3, <1>4, <1>5, <1>9, StepPreserves

LEMMA FirstHandshakeFacts ==
  ASSUME IInv
  PROVE  /\ FirstHandshake \in Tasks /\ FirstHandshake.at \in {"warmup", "sampling"}
         /\ FirstHandshake.index = 0
         /\ FirstHandshake.at = "warmup" => FirstHandshake.left > 0
<1>1. opts.warmups \in Nat /\ opts.samples \in Nat \ {0} /\ opts.retries \in Nat
  BY OptionFacts
<1>2. /\ opts.warmups \in 0 .. opts.warmups /\ 0 \in 0 .. opts.samples - 1
      /\ 1 \in 1 .. opts.retries + 1
  BY <1>1
<1>3. CASE opts.warmups > 0
  BY <1>2, <1>3 DEF FirstHandshake, NoTask, Tasks
<1>4. CASE ~ (opts.warmups > 0)
  BY <1>2, <1>4 DEF FirstHandshake, NoTask, Tasks
<1>5. QED
  BY <1>3, <1>4

(* A handshake of t begins: a step to warm-up or to sampling with a new    *)
(* probe and the result left alone.                                        *)
LEMMA BeginningPreserves ==
  ASSUME IInv, NEW t \in opts.targets, NEW k \in Tasks, NEW r \in Results,
         task[t].at \in Holding, k.at \in {"warmup", "sampling"},
         k.at = "warmup" => k.left > 0, Outcome(k, r),
         Move(t, k), result' = [result EXCEPT ![t] = r],
         BeginProbe(t, opts.starttls[t]), opts' = opts, UNCHANGED shared
  PROVE  IInv'
<1>. DEFINE p == [NoProbe EXCEPT !.at = "resolve", !.starttls = opts.starttls[t]]
<1>1. Legal(p)
  BY OptionFacts, BeginningIsLegal
<1>2. probe' = [probe EXCEPT ![t] = p] /\ task' = [task EXCEPT ![t] = k]
  BY DEF BeginProbe, Become, Move
<1>. HIDE DEF p
<1>3. Tidy(k, p)
  BY <1>1 DEF Tidy
<1>4. k.at \in Holding \ {"backoff"}
  BY DEF Holding, Before
<1>5. KeepsLocks(t, k) /\ KeepsFailures(t, k) /\ KeepsDocuments /\ Counts(t, k)
  BY <1>4, QuietStep
<1>6. StepOf(t, k, r, p)
  BY <1>2, <1>5 DEF StepOf
<1>7. QED
  BY <1>3, <1>6, StepPreserves

LEMMA FirstHandshakePreserves ==
  ASSUME IInv, NEW t \in opts.targets, task[t].at \in {"queued", "backoff"},
         Move(t, FirstHandshake), BeginProbe(t, opts.starttls[t]),
         opts' = opts, result' = result, UNCHANGED shared
  PROVE  IInv'
<1>. DEFINE k == FirstHandshake
<1>1. k \in Tasks /\ k.at \in {"warmup", "sampling"} /\ k.index = 0 /\ (k.at = "warmup" => k.left > 0)
  BY FirstHandshakeFacts
<1>2. /\ result[t] \in Results /\ result = [result EXCEPT ![t] = result[t]]
      /\ Outcome(task[t], result[t])
  BY TargetFacts
<1>. HIDE DEF k
<1>3. result[t].audits = {} /\ result[t].profile = "none" /\ result[t].samples = 0
  BY <1>2 DEF Outcome, Before
<1>4. Outcome(k, result[t])
  BY <1>1, <1>3 DEF Outcome, Before, During, FetchingRegistry, FetchingGuidelines
<1>5. Move(t, k) /\ task[t].at \in Holding
  BY DEF k, Holding, Before
<1>6. QED
  BY <1>1, <1>2, <1>4, <1>5, BeginningPreserves

LEMMA TakeSlotPreserves ==
  ASSUME IInv, NEW t \in opts.targets, TakeSlot(t)
  PROVE  IInv'
<1>1. task[t].at = "queued" /\ opts' = opts /\ result' = result /\ UNCHANGED shared
  BY DEF TakeSlot, At
<1>2. CASE failedHosts[Host(t)] > 0 /\ Move(t, [task[t] EXCEPT !.at = "backoff"]) /\ probe' = probe
  <2>. DEFINE k == [task[t] EXCEPT !.at = "backoff"]
  <2>1. /\ task[t] \in Tasks /\ result[t] \in Results
        /\ Tidy(task[t], probe[t]) /\ Outcome(task[t], result[t])
        /\ result = [result EXCEPT ![t] = result[t]] /\ probe = [probe EXCEPT ![t] = probe[t]]
    BY TargetFacts
  <2>2. k \in Tasks /\ k.at = "backoff"
    BY <2>1 DEF Tasks
  <2>3. task' = [task EXCEPT ![t] = k]
    BY <1>2 DEF Move
  <2>. HIDE DEF k
  <2>4. Tidy(k, probe[t])
    BY <1>1, <2>1, <2>2 DEF Tidy
  <2>5. Outcome(k, result[t])
    BY <1>1, <2>1, <2>2 DEF Outcome, Before, During, FetchingRegistry, FetchingGuidelines
  <2>6. /\ hostLock' = hostLock /\ failedHosts' = failedHosts /\ registry' = registry
        /\ guidelines' = guidelines /\ checkCounter' = checkCounter
    BY <1>1 DEF shared
  <2>7. KeepsLocks(t, k)
    <3>1. /\ hostLock \in [Hosts -> Targets \cup {None}]
          /\ opts.serial => hostLock[Host(t)] = t
      BY <1>1 DEF IInv, TypeOK, Locks, Holding, Before
    <3>2. QED
      BY <2>6, <3>1 DEF KeepsLocks
  <2>8. KeepsFailures(t, k) /\ Counts(t, k)
    BY <1>1, <1>2, <2>2, <2>6 DEF IInv, TypeOK, KeepsFailures, Counts
  <2>9. KeepsDocuments
    BY <2>6, DocumentsKept
  <2>10. StepOf(t, k, result[t], probe[t])
    BY <1>1, <1>2, <2>1, <2>3, <2>7, <2>8, <2>9 DEF StepOf
  <2>11. QED
    BY <2>1, <2>2, <2>4, <2>5, <2>10, StepPreserves
<1>3. CASE Move(t, FirstHandshake) /\ BeginProbe(t, opts.starttls[t])
  BY <1>1, <1>3, FirstHandshakePreserves
<1>4. QED
  BY <1>2, <1>3 DEF TakeSlot

LEMMA EndBackoffPreserves ==
  ASSUME IInv, NEW t \in opts.targets, EndBackoff(t)
  PROVE  IInv'
<1>1. /\ task[t].at = "backoff" /\ opts' = opts /\ result' = result /\ UNCHANGED shared
      /\ Move(t, FirstHandshake) /\ BeginProbe(t, opts.starttls[t])
  BY DEF EndBackoff, At
<1>2. QED
  BY <1>1, FirstHandshakePreserves

(* The handshakes.                                                         *)
LEMMA HandshakingPreserves ==
  ASSUME IInv, NEW t \in opts.targets, Handshaking(t)
  PROVE  IInv'
<1>1. /\ task[t].at \in {"warmup", "sampling"} /\ ProbeStep(t) /\ opts' = opts
      /\ task' = task /\ result' = result /\ UNCHANGED shared
  BY DEF Handshaking
<1>2. /\ t \in Targets /\ task[t] \in Tasks /\ result[t] \in Results
      /\ Tidy(task[t], probe[t]) /\ Outcome(task[t], result[t])
      /\ task = [task EXCEPT ![t] = task[t]] /\ result = [result EXCEPT ![t] = result[t]]
  BY TargetFacts
<1>3. PICK p : Legal(p) /\ probe' = [probe EXCEPT ![t] = p]
  BY <1>1, <1>2, ProbeStepIsLegal DEF Tidy
<1>4. Tidy(task[t], p)
  BY <1>1, <1>2, <1>3 DEF Tidy
<1>5. task[t].at \in Holding \ {"backoff"}
  BY <1>1 DEF Holding, Before
<1>6. KeepsLocks(t, task[t]) /\ KeepsFailures(t, task[t]) /\ KeepsDocuments /\ Counts(t, task[t])
  BY <1>1, <1>5, QuietStep
<1>7. StepOf(t, task[t], result[t], p)
  BY <1>1, <1>2, <1>3, <1>6 DEF StepOf
<1>8. QED
  BY <1>2, <1>4, <1>7, StepPreserves

LEMMA EndWarmupPreserves ==
  ASSUME IInv, NEW t \in opts.targets, EndWarmup(t)
  PROVE  IInv'
<1>1. PICK left : /\ left = IF probe[t].at = "raised" THEN 0 ELSE task[t].left - 1
                  /\ Move(t, [task[t] EXCEPT !.left = left,
                                             !.at = IF left > 0 THEN @ ELSE "sampling"])
  BY DEF EndWarmup
<1>2. /\ task[t].at = "warmup" /\ BeginProbe(t, opts.starttls[t]) /\ opts' = opts
      /\ result' = result /\ UNCHANGED shared
  BY DEF EndWarmup, At
<1>3. /\ task[t] \in Tasks /\ result[t] \in Results
      /\ Tidy(task[t], probe[t]) /\ Outcome(task[t], result[t])
      /\ result = [result EXCEPT ![t] = result[t]]
  BY TargetFacts
<1>. DEFINE k == [task[t] EXCEPT !.left = left, !.at = IF left > 0 THEN @ ELSE "sampling"]
<1>4. left \in 0 .. opts.warmups
  <2>1. task[t].left \in 0 .. opts.warmups /\ task[t].left > 0 /\ opts.warmups \in Nat
    BY <1>2, <1>3, OptionFacts DEF Tasks, Tidy
  <2>2. QED
    BY <1>1, <2>1
<1>5. /\ k \in Tasks /\ k.at \in {"warmup", "sampling"} /\ (k.at = "warmup" => k.left > 0)
      /\ k.index = task[t].index
  BY <1>2, <1>3, <1>4 DEF Tasks
<1>6. Move(t, k) /\ task[t].at \in Holding
  BY <1>1, <1>2 DEF Holding, Before
<1>. HIDE DEF k
<1>7. result[t].audits = {} /\ result[t].profile = "none" /\ result[t].samples = 0
  BY <1>2, <1>3 DEF Outcome, Before
<1>8. k.index >= 0
  BY <1>5, <1>3 DEF Tasks
<1>9. Outcome(k, result[t])
  BY <1>5, <1>7, <1>8 DEF Outcome, Before, During, FetchingRegistry, FetchingGuidelines
<1>10. QED
  BY <1>2, <1>3, <1>5, <1>6, <1>9, BeginningPreserves
-------------------------------------------------------------------------------
(* The samples.                                                            *)
LEMMA SampledFacts ==
  ASSUME IInv, NEW t \in opts.targets, task[t].at = "sampling"
  PROVE  /\ Sampled(t) \in Results
         /\ Sampled(t).audits = {} /\ Sampled(t).profile = "none"
         /\ Sampled(t).samples <= task[t].index + 1
         /\ probe[t].status = "ok" => Sampled(t).samples > 0
<1>1. /\ task[t] \in Tasks /\ result[t] \in Results /\ Outcome(task[t], result[t])
  BY TargetFacts
<1>2. /\ result[t].audits = {} /\ result[t].profile = "none"
      /\ result[t].samples <= task[t].index
  BY <1>1 DEF Outcome, Before
<1>3. /\ task[t].index \in 0 .. opts.samples - 1 /\ result[t].samples \in 0 .. opts.samples
      /\ task[t].attempt \in 1 .. opts.retries + 1 /\ result[t].attempt \in 1 .. opts.retries + 1
      /\ opts.samples \in Nat
  BY <1>1, OptionFacts DEF Tasks, Results
<1>4. /\ result[t].samples + 1 \in 0 .. opts.samples
      /\ result[t].samples + 1 <= task[t].index + 1 /\ result[t].samples + 1 > 0
      /\ result[t].samples <= task[t].index + 1
  BY <1>2, <1>3
<1>5. PICK n : /\ n = (IF probe[t].status = "ok" THEN result[t].samples + 1 ELSE result[t].samples)
  OBVIOUS
<1>6. PICK a : a = Larger(result[t].attempt, task[t].attempt)
  OBVIOUS
<1>7. Sampled(t) = [result[t] EXCEPT !.samples = n, !.attempt = a]
  BY <1>1, <1>5, <1>6 DEF Sampled, Results
<1>8. a \in 1 .. opts.retries + 1
  BY <1>3, <1>6 DEF Larger
<1>9. n \in 0 .. opts.samples /\ n <= task[t].index + 1 /\ (probe[t].status = "ok" => n > 0)
  BY <1>3, <1>4, <1>5
<1>10. QED
  BY <1>1, <1>2, <1>7, <1>8, <1>9 DEF Results

LEMMA SampleRaisesPreserves ==
  ASSUME IInv, NEW t \in opts.targets, SampleRaises(t)
  PROVE  IInv'
<1>1. task[t].at \in Holding /\ Fail(t) /\ opts' = opts /\ probe' = [probe EXCEPT ![t] = NoProbe]
  BY DEF SampleRaises, At, Become, Holding, Before
<1>2. QED
  BY <1>1, FailPreserves

LEMMA RetrySamplePreserves ==
  ASSUME IInv, NEW t \in opts.targets, RetrySample(t)
  PROVE  IInv'
<1>. DEFINE k == [task[t] EXCEPT !.at = "retrying", !.attempt = @ + 1]
<1>1. /\ task[t].at = "sampling" /\ task[t].attempt <= opts.retries
      /\ task' = [task EXCEPT ![t] = k] /\ probe' = [probe EXCEPT ![t] = NoProbe]
      /\ opts' = opts /\ result' = result /\ UNCHANGED shared
  BY DEF RetrySample, At, ToBeRetried, Move, Become
<1>2. /\ task[t] \in Tasks /\ result[t] \in Results /\ Outcome(task[t], result[t])
      /\ result = [result EXCEPT ![t] = result[t]]
  BY TargetFacts
<1>3. task[t].attempt + 1 \in 1 .. opts.retries + 1
  <2>1. task[t].attempt \in 1 .. opts.retries + 1 /\ opts.retries \in Nat
    BY <1>2, OptionFacts DEF Tasks
  <2>2. QED
    BY <1>1, <2>1
<1>4. k \in Tasks /\ k.at = "retrying" /\ k.index = task[t].index
  BY <1>2, <1>3 DEF Tasks
<1>. HIDE DEF k
<1>5. Tidy(k, NoProbe)
  BY <1>4, NoProbeIsLegal DEF Tidy
<1>6. Outcome(k, result[t])
  BY <1>1, <1>2, <1>4 DEF Outcome, Before, During, FetchingRegistry, FetchingGuidelines
<1>7. task[t].at \in Holding /\ k.at \in Holding \ {"backoff"}
  BY <1>1, <1>4 DEF Holding, Before
<1>8. KeepsLocks(t, k) /\ KeepsFailures(t, k) /\ KeepsDocuments /\ Counts(t, k)
  BY <1>1, <1>7, QuietStep
<1>9. StepOf(t, k, result[t], NoProbe)
  BY <1>1, <1>2, <1>8 DEF StepOf
<1>10. QED
  BY <1>2, <1>4, <1>5, <1>6, <1>9, StepPreserves

LEMMA EndRetrySleepPreserves ==
  ASSUME IInv, NEW t \in opts.targets, EndRetrySleep(t)
  PROVE  IInv'
<1>. DEFINE k == [task[t] EXCEPT !.at = "sampling"]
<1>1. /\ task[t].at = "retrying" /\ Move(t, k) /\ BeginProbe(t, opts.starttls[t])
      /\ opts' = opts /\ result' = result /\ UNCHANGED shared
  BY DEF EndRetrySleep, At
<1>2. /\ task[t] \in Tasks /\ result[t] \in Results /\ Outcome(task[t], result[t])
      /\ result = [result EXCEPT ![t] = result[t]]
  BY TargetFacts
<1>3. k \in Tasks /\ k.at = "sampling" /\ k.index = task[t].index
  BY <1>2 DEF Tasks
<1>. HIDE DEF k
<1>4. Outcome(k, result[t])
  BY <1>1, <1>2, <1>3 DEF Outcome, Before, During, FetchingRegistry, FetchingGuidelines
<1>5. task[t].at \in Holding
  BY <1>1 DEF Holding, Before
<1>6. QED
  BY <1>1, <1>2, <1>3, <1>4, <1>5, BeginningPreserves

LEMMA NextSamplePreserves ==
  ASSUME IInv, NEW t \in opts.targets, NextSample(t)
  PROVE  IInv'
<1>. DEFINE k == [task[t] EXCEPT !.index = @ + 1, !.attempt = 1]
            r == Sampled(t)
<1>1. /\ task[t].at = "sampling" /\ task[t].index + 1 # opts.samples
      /\ Move(t, k) /\ BeginProbe(t, opts.starttls[t])
      /\ opts' = opts /\ result' = [result EXCEPT ![t] = r] /\ UNCHANGED shared
  BY DEF NextSample, At, LastSample
<1>2. /\ task[t] \in Tasks /\ opts.samples \in Nat /\ opts.retries \in Nat
  BY TargetFacts, OptionFacts
<1>3. /\ r \in Results /\ r.audits = {} /\ r.profile = "none" /\ r.samples <= task[t].index + 1
  BY <1>1, SampledFacts
<1>4. task[t].index + 1 \in 0 .. opts.samples - 1 /\ 1 \in 1 .. opts.retries + 1
  <2>1. task[t].index \in 0 .. opts.samples - 1
    BY <1>2 DEF Tasks
  <2>2. QED
    BY <1>1, <1>2, <2>1
<1>5. k \in Tasks /\ k.at = "sampling" /\ k.index = task[t].index + 1
  BY <1>1, <1>2, <1>4 DEF Tasks
<1>. HIDE DEF k, r
<1>6. Outcome(k, r)
  BY <1>3, <1>5 DEF Outcome, Before, During, FetchingRegistry, FetchingGuidelines
<1>7. task[t].at \in Holding
  BY <1>1 DEF Holding, Before
<1>8. QED
  BY <1>1, <1>3, <1>5, <1>6, <1>7, BeginningPreserves

LEMMA EndSamplesPreserves ==
  ASSUME IInv, NEW t \in opts.targets, EndSamples(t)
  PROVE  IInv'
<1>1. /\ task[t].at = "sampling" /\ probe' = [probe EXCEPT ![t] = NoProbe] /\ opts' = opts
      /\ hostLock' = hostLock /\ registry' = registry /\ guidelines' = guidelines
      /\ checkCounter' = checkCounter
      /\ failedHosts' = [failedHosts EXCEPT ![Host(t)] = FailuresAfter(Host(t), probe[t].status)]
  BY DEF EndSamples, At, Become
<1>2. PICK parsed \in (IF probe[t].leaf THEN BOOLEAN ELSE {FALSE}) :
        /\ result' = [result EXCEPT ![t] = Built(t, parsed)]
        /\ Move(t, [NoTask EXCEPT
                      !.at = "checking",
                      !.todo = {c \in opts.checks : Due(c, t, Built(t, parsed), probe[t].leaf)}])
  BY DEF EndSamples
<1>3. PICK due : due = {c \in opts.checks : Due(c, t, Built(t, parsed), probe[t].leaf)}
  OBVIOUS
<1>. DEFINE k == [NoTask EXCEPT !.at = "checking", !.todo = due]
            r == Built(t, parsed)
<1>4. /\ Sampled(t) \in Results /\ Sampled(t).audits = {} /\ Sampled(t).profile = "none"
      /\ probe[t].status = "ok" => Sampled(t).samples > 0
  BY <1>1, SampledFacts
<1>5. probe[t].status \in HandshakeStatuses /\ probe[t].leaf \in BOOLEAN
  BY TargetFacts DEF Tidy, Legal, Probes
<1>6. (probe[t].leaf /\ parsed) \in BOOLEAN
  BY <1>5
<1>7. /\ r \in Results /\ r.audits = {} /\ r.profile = "none" /\ r.samples = Sampled(t).samples
      /\ r.status = probe[t].status /\ (r.measured <=> r.status = "ok")
  BY <1>4, <1>5, <1>6 DEF Built, Results
<1>8. r.measured => r.samples > 0
  BY <1>4, <1>7
<1>9. due \cap Evidence # {} => r.certificate
  BY <1>3 DEF Due, Evidence
<1>10. k \in Tasks /\ k.at = "checking" /\ k.todo = due
  <2>1. opts.warmups \in Nat /\ opts.samples \in Nat \ {0} /\ opts.retries \in Nat
    BY OptionFacts
  <2>2. 0 \in 0 .. opts.warmups /\ 0 \in 0 .. opts.samples - 1 /\ 1 \in 1 .. opts.retries + 1
    BY <2>1
  <2>3. due \in SUBSET opts.checks
    BY <1>3
  <2>4. QED
    BY <2>2, <2>3 DEF NoTask, Tasks
<1>11. task' = [task EXCEPT ![t] = k] /\ result' = [result EXCEPT ![t] = r]
  BY <1>2, <1>3 DEF Move
<1>. HIDE DEF k, r
<1>12. Tidy(k, NoProbe)
  BY <1>10, NoProbeIsLegal DEF Tidy
<1>13. Outcome(k, r)
  BY <1>7, <1>8, <1>9, <1>10 DEF Outcome, Before, During, FetchingRegistry, FetchingGuidelines
<1>14. /\ Host(t) \in Hosts /\ failedHosts \in [Hosts -> Nat]
       /\ hostLock \in [Hosts -> Targets \cup {None}]
       /\ opts.serial => hostLock[Host(t)] = t
  BY <1>1, OptionFacts DEF IInv, TypeOK, Locks, Holding, Before
<1>15. KeepsLocks(t, k)
  BY <1>1, <1>14 DEF KeepsLocks
<1>16. KeepsFailures(t, k)
  <2>1. PICK n \in Nat : n = FailuresAfter(Host(t), probe[t].status)
    BY <1>14 DEF FailuresAfter, BackoffStatuses
  <2>2. failedHosts' = [failedHosts EXCEPT ![Host(t)] = n]
    BY <1>1, <2>1
  <2>3. /\ failedHosts' \in [Hosts -> Nat]
        /\ \A h \in Hosts \ {Host(t)} : failedHosts'[h] = failedHosts[h]
    BY <1>14, <2>2
  <2>4. QED
    BY <1>1, <1>10, <2>3 DEF KeepsFailures, Holding, Before
<1>17. Counts(t, k)
  BY <1>1, <1>10 DEF Counts
<1>18. KeepsDocuments
  BY <1>1, DocumentsKept
<1>19. StepOf(t, k, r, NoProbe)
  BY <1>1, <1>11, <1>15, <1>16, <1>17, <1>18 DEF StepOf
<1>20. QED
  BY <1>7, <1>10, <1>12, <1>13, <1>19, StepPreserves
-------------------------------------------------------------------------------
(* The checks, and the way out.                                            *)
LEMMA RunCheckPreserves ==
  ASSUME IInv, NEW t \in opts.targets, RunCheck(t)
  PROVE  IInv'
<1>1. PICK check \in opts.checks \ {"ct", "profiles"} :
        /\ NextCheck(t, check)
        /\ \/ Audited(t, check) /\ UNCHANGED shared
           \/ MayRaise(t, check) /\ Fail(t)
        /\ UNCHANGED <<opts, probe>>
  BY DEF RunCheck
<1>2. task[t].at = "checking" /\ check \in task[t].todo /\ opts' = opts /\ probe' = probe
  BY <1>1 DEF NextCheck, At
<1>3. CASE Audited(t, check) /\ UNCHANGED shared
  <2>1. /\ hostLock' = hostLock /\ failedHosts' = failedHosts /\ registry' = registry
        /\ guidelines' = guidelines /\ checkCounter' = checkCounter
    BY <1>3 DEF shared
  <2>2. KeepsDocuments /\ task[t].at \in During
    BY <1>2, <2>1, DocumentsKept DEF During
  <2>3. Reported(t, check, result[t])
    BY TargetFacts DEF Reported
  <2>4. AuditedAs(t, check, result[t])
    BY <1>3 DEF Audited
  <2>5. QED
    BY <1>2, <2>1, <2>2, <2>3, <2>4, AuditedPreserves
<1>4. CASE Fail(t)
  <2>1. probe[t] = NoProbe /\ probe = [probe EXCEPT ![t] = probe[t]]
    BY <1>2, TargetFacts DEF Tidy
  <2>2. task[t].at \in Holding
    BY <1>2 DEF Holding, During, FetchingRegistry, FetchingGuidelines
  <2>3. probe' = [probe EXCEPT ![t] = NoProbe]
    BY <1>2, <2>1
  <2>4. QED
    BY <1>2, <1>4, <2>2, <2>3, FailPreserves
<1>5. QED
  BY <1>1, <1>3, <1>4

(* A check that has something to fetch waits for it.                       *)
LEMMA FetchingPreserves ==
  ASSUME IInv, NEW t \in opts.targets, task[t].at \in During,
         NEW at, \/ at \in FetchingRegistry /\ "ct" \in task[t].todo
                 \/ at \in FetchingGuidelines /\ "profiles" \in task[t].todo,
         Move(t, [task[t] EXCEPT !.at = at]), UNCHANGED <<opts, probe, result>>,
         UNCHANGED <<hostLock, failedHosts, checkCounter>>, KeepsDocuments
  PROVE  IInv'
<1>. DEFINE k == [task[t] EXCEPT !.at = at]
<1>1. /\ task[t] \in Tasks /\ result[t] \in Results
      /\ Tidy(task[t], probe[t]) /\ Outcome(task[t], result[t])
      /\ result = [result EXCEPT ![t] = result[t]] /\ probe = [probe EXCEPT ![t] = probe[t]]
  BY TargetFacts
<1>2. k \in Tasks /\ k.at = at /\ k.todo = task[t].todo
  BY <1>1 DEF Tasks, FetchingRegistry, FetchingGuidelines
<1>3. task' = [task EXCEPT ![t] = k]
  BY DEF Move
<1>. HIDE DEF k
<1>4. Tidy(k, probe[t])
  BY <1>1, <1>2 DEF Tidy, During, FetchingRegistry, FetchingGuidelines
<1>5. /\ result[t].measured <=> result[t].status = "ok"
      /\ result[t].measured => result[t].samples > 0
      /\ result[t].audits \cap Evidence # {} => result[t].certificate
      /\ ("profiles" \in result[t].audits) <=> (result[t].profile # "none")
      /\ task[t].todo \cap Evidence # {} => result[t].certificate
  BY <1>1 DEF Outcome
<1>6. Outcome(k, result[t])
  BY <1>2, <1>5 DEF Outcome, Before, FetchingRegistry, FetchingGuidelines
<1>7. task[t].at \in Holding /\ k.at \in Holding \ {"backoff"}
  BY <1>2 DEF Holding, During, Before, FetchingRegistry, FetchingGuidelines
<1>8. KeepsLocks(t, k) /\ KeepsFailures(t, k) /\ Counts(t, k)
  <2>1. /\ hostLock \in [Hosts -> Targets \cup {None}] /\ failedHosts \in [Hosts -> Nat]
        /\ opts.serial => hostLock[Host(t)] = t
    BY <1>7 DEF IInv, TypeOK, Locks
  <2>2. k.at # "returned" /\ task[t].at # "returned"
    BY <1>7 DEF Holding, Before, During, FetchingRegistry, FetchingGuidelines
  <2>3. QED
    BY <1>7, <2>1, <2>2 DEF KeepsLocks, KeepsFailures, Counts
<1>9. StepOf(t, k, result[t], probe[t])
  BY <1>1, <1>3, <1>8 DEF StepOf
<1>10. QED
  BY <1>1, <1>2, <1>4, <1>6, <1>9, StepPreserves

LEMMA TimestampedPreserves ==
  ASSUME IInv, NEW t \in opts.targets, "ct" \in task[t].todo, task[t].at \in During,
         NEW by \in {"no_scts", "held", "own", "unavailable"}, Timestamped(t, by),
         UNCHANGED <<opts, probe, hostLock, failedHosts, checkCounter>>, KeepsDocuments
  PROVE  IInv'
<1>1. PICK check \in task[t].todo : check = "ct"
  OBVIOUS
<1>2. PICK q : q = [result[t] EXCEPT !.ct = by]
  OBVIOUS
<1>3. result[t] \in Results
  BY TargetFacts
<1>4. q \in Results
  BY <1>2, <1>3 DEF Results
<1>5. Reported(t, check, q)
  BY <1>1, <1>2, <1>3, <1>4 DEF Reported, Results
<1>6. AuditedAs(t, check, q)
  BY <1>1, <1>2 DEF Timestamped
<1>7. QED
  BY <1>5, <1>6, AuditedPreserves

LEMMA ResolveTrustPreserves ==
  ASSUME IInv, NEW t \in opts.targets, "ct" \in task[t].todo, task[t].at \in During,
         NEW held, ResolveTrust(t, held),
         UNCHANGED <<opts, probe, hostLock, failedHosts, checkCounter>>, KeepsDocuments
  PROVE  IInv'
<1>1. CASE Timestamped(t, "no_scts")
  <2>1. PICK by \in {"no_scts", "held", "own", "unavailable"} : by = "no_scts"
    OBVIOUS
  <2>2. QED
    BY <1>1, <2>1, TimestampedPreserves
<1>2. CASE Timestamped(t, "held")
  <2>1. PICK by \in {"no_scts", "held", "own", "unavailable"} : by = "held"
    OBVIOUS
  <2>2. QED
    BY <1>2, <2>1, TimestampedPreserves
<1>3. CASE Move(t, [task[t] EXCEPT !.at = "refetching_registry"]) /\ UNCHANGED result
  <2>1. PICK at \in FetchingRegistry : at = "refetching_registry"
    BY DEF FetchingRegistry
  <2>2. Move(t, [task[t] EXCEPT !.at = at]) /\ UNCHANGED <<opts, probe, result>>
    BY <1>3, <2>1
  <2>3. QED
    BY <2>2, FetchingPreserves
<1>4. QED
  BY <1>1, <1>2, <1>3 DEF ResolveTrust

LEMMA CheckCtLogsPreserves ==
  ASSUME IInv, NEW t \in opts.targets, CheckCtLogs(t)
  PROVE  IInv'
<1>1. /\ "ct" \in task[t].todo /\ task[t].at \in During
      /\ UNCHANGED <<opts, probe, hostLock, failedHosts, checkCounter>>
      /\ registry' = registry /\ guidelines' = guidelines
      /\ IF registry THEN ResolveTrust(t, TRUE)
         ELSE Move(t, [task[t] EXCEPT !.at = "fetching_registry"]) /\ result' = result
  BY DEF CheckCtLogs, NextCheck, At, During, shared
<1>2. KeepsDocuments
  BY <1>1, DocumentsKept
<1>3. PICK at, held : at = "fetching_registry" /\ held = TRUE
  OBVIOUS
<1>4. CASE ResolveTrust(t, held)
  BY <1>1, <1>2, <1>4, ResolveTrustPreserves
<1>5. CASE Move(t, [task[t] EXCEPT !.at = at]) /\ result' = result
  <2>1. at \in FetchingRegistry
    BY <1>3 DEF FetchingRegistry
  <2>2. QED
    BY <1>1, <1>2, <1>5, <2>1, FetchingPreserves
<1>6. QED
  BY <1>1, <1>3, <1>4, <1>5

LEMMA FetchRegistryPreserves ==
  ASSUME IInv, NEW t \in opts.targets, FetchRegistry(t)
  PROVE  IInv'
<1>1. /\ UNCHANGED <<opts, probe, hostLock, failedHosts, checkCounter>>
      /\ guidelines' = guidelines /\ task[t].at = "fetching_registry"
      /\ \E fetched \in BOOLEAN : registry' = RegistryAfter(fetched)
  BY DEF FetchRegistry, At
<1>2. KeepsDocuments
  BY <1>1 DEF RegistryAfter, IInv, TypeOK, KeepsDocuments
<1>3. "ct" \in task[t].todo /\ task[t].at \in During
  BY <1>1, TargetFacts DEF Outcome, During, FetchingRegistry
<1>4. PICK held : held = registry'
  OBVIOUS
<1>5. ResolveTrust(t, held)
  BY <1>4 DEF FetchRegistry
<1>6. QED
  BY <1>1, <1>2, <1>3, <1>5, ResolveTrustPreserves

LEMMA RefetchRegistryPreserves ==
  ASSUME IInv, NEW t \in opts.targets, RefetchRegistry(t)
  PROVE  IInv'
<1>1. /\ UNCHANGED <<opts, probe, hostLock, failedHosts, checkCounter>>
      /\ registry' = registry /\ guidelines' = guidelines
      /\ task[t].at = "refetching_registry"
  BY DEF RefetchRegistry, At, shared
<1>2. PICK by \in {"no_scts", "held", "own", "unavailable"} : Timestamped(t, by)
  BY DEF RefetchRegistry
<1>3. "ct" \in task[t].todo /\ task[t].at \in During
  BY <1>1, TargetFacts DEF Outcome, During, FetchingRegistry
<1>4. KeepsDocuments
  BY <1>1, DocumentsKept
<1>5. QED
  BY <1>1, <1>2, <1>3, <1>4, TimestampedPreserves

(* The profiles are assessed against what is at hand.                      *)
LEMMA AssessedPreserves ==
  ASSUME IInv, NEW t \in opts.targets, "profiles" \in task[t].todo, task[t].at \in During,
         NEW profile \in {"assessed", "error", "assessed_and_error"}, Assessed(t, profile),
         UNCHANGED <<opts, probe, hostLock, failedHosts, checkCounter>>, KeepsDocuments
  PROVE  IInv'
<1>1. PICK check \in task[t].todo : check = "profiles"
  OBVIOUS
<1>2. PICK q : q = [result[t] EXCEPT !.profile = profile]
  OBVIOUS
<1>3. result[t] \in Results
  BY TargetFacts
<1>4. q \in Results
  BY <1>2, <1>3 DEF Results
<1>5. Reported(t, check, q)
  BY <1>1, <1>2, <1>3, <1>4 DEF Reported, Results
<1>6. AuditedAs(t, check, q)
  BY <1>1, <1>2 DEF Assessed
<1>7. QED
  BY <1>5, <1>6, AuditedPreserves

LEMMA AssessPreserves ==
  ASSUME IInv, NEW t \in opts.targets, "profiles" \in task[t].todo, task[t].at \in During,
         NEW g, Assess(t, g),
         UNCHANGED <<opts, probe, hostLock, failedHosts, checkCounter>>, KeepsDocuments
  PROVE  IInv'
<1>1. PICK at \in FetchingGuidelines, profile \in {"assessed", "error", "assessed_and_error"} :
        at = "refetching_guidelines" /\ profile = "assessed"
  BY DEF FetchingGuidelines
<1>2. CASE Assessed(t, profile)
  BY <1>2, AssessedPreserves
<1>3. CASE Move(t, [task[t] EXCEPT !.at = at]) /\ UNCHANGED result
  BY <1>3, FetchingPreserves
<1>4. QED
  BY <1>1, <1>2, <1>3 DEF Assess

LEMMA CheckProfilesPreserves ==
  ASSUME IInv, NEW t \in opts.targets, CheckProfiles(t)
  PROVE  IInv'
<1>1. /\ "profiles" \in task[t].todo /\ task[t].at \in During
      /\ UNCHANGED <<opts, probe, hostLock, failedHosts, checkCounter>>
      /\ registry' = registry /\ guidelines' = guidelines
      /\ IF guidelines.fetched THEN Assess(t, guidelines)
         ELSE Move(t, [task[t] EXCEPT !.at = "fetching_guidelines"]) /\ result' = result
  BY DEF CheckProfiles, NextCheck, At, During, shared
<1>2. KeepsDocuments
  BY <1>1, DocumentsKept
<1>3. PICK at, g : at = "fetching_guidelines" /\ g = guidelines
  OBVIOUS
<1>4. CASE Assess(t, g)
  BY <1>1, <1>2, <1>4, AssessPreserves
<1>5. CASE Move(t, [task[t] EXCEPT !.at = at]) /\ result' = result
  <2>1. at \in FetchingGuidelines
    BY <1>3 DEF FetchingGuidelines
  <2>2. QED
    BY <1>1, <1>2, <1>5, <2>1, FetchingPreserves
<1>6. QED
  BY <1>1, <1>3, <1>4, <1>5

LEMMA FetchGuidelinesPreserves ==
  ASSUME IInv, NEW t \in opts.targets, FetchGuidelines(t)
  PROVE  IInv'
<1>1. /\ UNCHANGED <<opts, probe, hostLock, failedHosts, checkCounter>>
      /\ registry' = registry /\ task[t].at = "fetching_guidelines"
      /\ \E known \in BOOLEAN :
           guidelines' = [fetched |-> TRUE, known |-> known, error |-> ~ known]
  BY DEF FetchGuidelines, At
<1>2. "profiles" \in task[t].todo /\ task[t].at \in During
  BY <1>1, TargetFacts DEF Outcome, During, FetchingGuidelines
<1>3. KeepsDocuments
  <2>1. PICK known \in BOOLEAN : guidelines' = [fetched |-> TRUE, known |-> known, error |-> ~ known]
    BY <1>1
  <2>2. /\ guidelines' \in [fetched : BOOLEAN, known : BOOLEAN, error : BOOLEAN]
        /\ guidelines'.known <=> ~ guidelines'.error
    BY <2>1
  <2>3. QED
    BY <1>1, <2>2 DEF IInv, TypeOK, KeepsDocuments
<1>4. PICK g : Assess(t, g)
  BY DEF FetchGuidelines
<1>5. QED
  BY <1>1, <1>2, <1>3, <1>4, AssessPreserves

LEMMA RefetchGuidelinesPreserves ==
  ASSUME IInv, NEW t \in opts.targets, RefetchGuidelines(t)
  PROVE  IInv'
<1>1. /\ UNCHANGED <<opts, probe, hostLock, failedHosts, checkCounter>>
      /\ registry' = registry /\ guidelines' = guidelines
      /\ task[t].at = "refetching_guidelines"
  BY DEF RefetchGuidelines, At, shared
<1>2. guidelines.error \in BOOLEAN
  BY DEF IInv, TypeOK
<1>3. PICK profile \in {"assessed", "error", "assessed_and_error"} : Assessed(t, profile)
  BY <1>2 DEF RefetchGuidelines, Profile
<1>4. "profiles" \in task[t].todo /\ task[t].at \in During
  BY <1>1, TargetFacts DEF Outcome, During, FetchingGuidelines
<1>5. KeepsDocuments
  BY <1>1, DocumentsKept
<1>6. QED
  BY <1>1, <1>3, <1>4, <1>5, AssessedPreserves

LEMMA ReturnPreserves ==
  ASSUME IInv, NEW t \in opts.targets, Return(t)
  PROVE  IInv'
<1>. DEFINE k == [NoTask EXCEPT !.at = "returned"]
<1>1. /\ task[t].at = "checking" /\ checkCounter' = checkCounter + 1 /\ hostLock' = Released(t)
      /\ task' = [task EXCEPT ![t] = k]
      /\ opts' = opts /\ probe' = probe /\ result' = result /\ failedHosts' = failedHosts
      /\ registry' = registry /\ guidelines' = guidelines
  BY DEF Return, At, Move
<1>2. /\ task[t] \in Tasks /\ result[t] \in Results
      /\ Tidy(task[t], probe[t]) /\ Outcome(task[t], result[t])
      /\ result = [result EXCEPT ![t] = result[t]] /\ probe = [probe EXCEPT ![t] = probe[t]]
  BY TargetFacts
<1>3. k \in Tasks
  <2>1. opts.warmups \in Nat /\ opts.samples \in Nat \ {0} /\ opts.retries \in Nat
    BY OptionFacts
  <2>2. 0 \in 0 .. opts.warmups /\ 0 \in 0 .. opts.samples - 1 /\ 1 \in 1 .. opts.retries + 1
    BY <2>1
  <2>3. QED
    BY <2>2 DEF NoTask, Tasks, Ended
<1>4. k.at = "returned"
  BY DEF NoTask
<1>. HIDE DEF k
<1>5. Tidy(k, probe[t])
  BY <1>1, <1>2, <1>4 DEF Tidy
<1>6. /\ result[t].measured <=> result[t].status = "ok"
      /\ result[t].measured => result[t].samples > 0
      /\ result[t].audits \cap Evidence # {} => result[t].certificate
      /\ ("profiles" \in result[t].audits) <=> (result[t].profile # "none")
  BY <1>1, <1>2 DEF Outcome, During
<1>7. Outcome(k, result[t])
  BY <1>4, <1>6 DEF Outcome, Before, During, FetchingRegistry, FetchingGuidelines
<1>8. KeepsLocks(t, k)
  <2>1. k.at \notin Holding
    BY <1>4 DEF Holding, Before, During, FetchingRegistry, FetchingGuidelines
  <2>2. QED
    BY <1>1, <2>1, LeavingKeepsLocks
<1>9. KeepsFailures(t, k) /\ Counts(t, k)
  BY <1>1, <1>4 DEF IInv, TypeOK, KeepsFailures, Counts
<1>10. KeepsDocuments
  BY <1>1, DocumentsKept
<1>11. StepOf(t, k, result[t], probe[t])
  BY <1>1, <1>2, <1>8, <1>9, <1>10 DEF StepOf
<1>12. QED
  BY <1>2, <1>3, <1>5, <1>7, <1>11, StepPreserves
-------------------------------------------------------------------------------
LEMMA InitInvariant == Init => IInv
<1>. SUFFICES ASSUME Init
              PROVE  IInv
  OBVIOUS
<1>1. opts \in Scenarios /\ opts \in Options
  BY ScenariosAssumption DEF Init
<1>2. /\ opts.warmups \in Nat /\ opts.samples \in Nat \ {0} /\ opts.retries \in Nat
      /\ opts.targets \subseteq Targets
  BY <1>1 DEF Options
<1>3. /\ 0 \in 0 .. opts.warmups /\ 0 \in 0 .. opts.samples - 1 /\ 1 \in 1 .. opts.retries + 1
      /\ 0 \in 0 .. opts.samples
  BY <1>2
<1>4. NoTask \in Tasks /\ NoTask.at = "waiting"
  BY <1>3 DEF NoTask, Tasks
<1>5. NoResult \in Results
  BY <1>3 DEF NoResult, Results
<1>6. NoProbe \in Probes
  BY NoProbeIsLegal DEF Legal
<1>7. /\ probe = [t \in Targets |-> NoProbe] /\ task = [t \in Targets |-> NoTask]
      /\ result = [t \in Targets |-> NoResult] /\ hostLock = [h \in Hosts |-> None]
      /\ failedHosts = [h \in Hosts |-> 0] /\ registry = FALSE
      /\ guidelines = [fetched |-> FALSE, known |-> FALSE, error |-> FALSE] /\ checkCounter = 0
  BY DEF Init, InitProbe
<1>8. IsFiniteSet(opts.targets) /\ Cardinality(opts.targets) \in Nat
  BY <1>2, TargetsAssumption, FS_Subset, FS_CardinalityType
<1>9. checkCounter = Cardinality(ReturnedTargets)
  <2>1. ReturnedTargets = {}
    BY <1>4, <1>7 DEF ReturnedTargets
  <2>2. QED
    BY <1>7, <2>1, FS_EmptySet
<1>10. TypeOK
  <2>1. /\ probe \in [Targets -> Probes] /\ task \in [Targets -> Tasks]
        /\ result \in [Targets -> Results]
    BY <1>4, <1>5, <1>6, <1>7
  <2>2. checkCounter \in 0 .. Cardinality(opts.targets)
    BY <1>7, <1>8
  <2>3. /\ hostLock \in [Hosts -> Targets \cup {None}] /\ failedHosts \in [Hosts -> Nat]
        /\ registry \in BOOLEAN
        /\ guidelines \in [fetched : BOOLEAN, known : BOOLEAN, error : BOOLEAN]
    BY <1>7
  <2>4. QED
    BY <2>1, <2>2, <2>3 DEF TypeOK
<1>11. Tidy(NoTask, NoProbe)
  BY <1>4, NoProbeIsLegal DEF Tidy
<1>12. Outcome(NoTask, NoResult)
  BY <1>4 DEF Outcome, NoResult, Before, During, FetchingRegistry, FetchingGuidelines
<1>13. Locks
  <2>1. \A t \in opts.targets : task[t].at = "waiting"
    BY <1>2, <1>4, <1>7
  <2>2. QED
    BY <2>1 DEF Locks, Holding, Before, During, FetchingRegistry, FetchingGuidelines
<1>14. guidelines.fetched => (guidelines.known <=> ~ guidelines.error)
  BY <1>7
<1>15. \A t \in Targets : Tidy(task[t], probe[t]) /\ Outcome(task[t], result[t])
  BY <1>7, <1>11, <1>12
<1>16. \A t \in Targets \ opts.targets : task[t].at = "waiting"
  BY <1>4, <1>7
<1>17. QED
  BY <1>1, <1>9, <1>10, <1>13, <1>14, <1>15, <1>16 DEF IInv

LEMMA NextInvariant == IInv /\ [Next]_vars => IInv'
<1>. SUFFICES ASSUME IInv, [Next]_vars
              PROVE  IInv'
  OBVIOUS
<1>1. CASE UNCHANGED vars
  <2>1. /\ opts' = opts /\ probe' = probe /\ task' = task /\ result' = result
        /\ hostLock' = hostLock /\ failedHosts' = failedHosts /\ registry' = registry
        /\ guidelines' = guidelines /\ checkCounter' = checkCounter
    BY <1>1 DEF vars, shared
  <2>2. TypeOK'
    BY <2>1 DEF IInv, TypeOK, Tasks, Results
  <2>3. Locks' /\ ReturnedTargets' = ReturnedTargets
    BY <2>1 DEF IInv, Locks, Host, ReturnedTargets
  <2>4. QED
    BY <2>1, <2>2, <2>3 DEF IInv
<1>2. ASSUME NEW t \in Targets, TargetStep(t) \/ Handshaking(t)
      PROVE  IInv'
  <2>1. CASE TakeLock(t)
    BY <2>1, TakeLockPreserves DEF TakeLock, At
  <2>2. CASE TakeSlot(t)
    BY <2>2, TakeSlotPreserves DEF TakeSlot, At
  <2>3. CASE EndBackoff(t)
    BY <2>3, EndBackoffPreserves DEF EndBackoff, At
  <2>4. CASE EndWarmup(t)
    BY <2>4, EndWarmupPreserves DEF EndWarmup, At
  <2>5. CASE SampleRaises(t)
    BY <2>5, SampleRaisesPreserves DEF SampleRaises, At
  <2>6. CASE RetrySample(t)
    BY <2>6, RetrySamplePreserves DEF RetrySample, At
  <2>7. CASE EndRetrySleep(t)
    BY <2>7, EndRetrySleepPreserves DEF EndRetrySleep, At
  <2>8. CASE NextSample(t)
    BY <2>8, NextSamplePreserves DEF NextSample, At
  <2>9. CASE EndSamples(t)
    BY <2>9, EndSamplesPreserves DEF EndSamples, At
  <2>10. CASE RunCheck(t)
    BY <2>10, RunCheckPreserves DEF RunCheck, NextCheck, At
  <2>11. CASE CheckCtLogs(t)
    BY <2>11, CheckCtLogsPreserves DEF CheckCtLogs, NextCheck, At
  <2>12. CASE FetchRegistry(t)
    BY <2>12, FetchRegistryPreserves DEF FetchRegistry, At
  <2>13. CASE CheckProfiles(t)
    BY <2>13, CheckProfilesPreserves DEF CheckProfiles, NextCheck, At
  <2>14. CASE FetchGuidelines(t)
    BY <2>14, FetchGuidelinesPreserves DEF FetchGuidelines, At
  <2>15. CASE Return(t)
    BY <2>15, ReturnPreserves DEF Return, At
  <2>18. CASE RefetchRegistry(t)
    BY <2>18, RefetchRegistryPreserves DEF RefetchRegistry, At
  <2>19. CASE RefetchGuidelines(t)
    BY <2>19, RefetchGuidelinesPreserves DEF RefetchGuidelines, At
  <2>16. CASE Handshaking(t)
    BY <2>16, HandshakingPreserves DEF Handshaking
  <2>17. QED
    BY <1>2, <2>1, <2>2, <2>3, <2>4, <2>5, <2>6, <2>7, <2>8, <2>9, <2>10, <2>11,
       <2>12, <2>13, <2>14, <2>15, <2>16, <2>18, <2>19 DEF TargetStep
<1>3. QED
  BY <1>1, <1>2 DEF Next

(* The inductive invariant holds in every behaviour.                       *)
THEOREM Invariance == Spec => []IInv
<1>1. QED
  BY InitInvariant, NextInvariant, PTL DEF Spec

LEMMA InvariantGivesTurns ==
  ASSUME IInv
  PROVE  HostsInTurn
<1>1. /\ \A t \in Targets : Tidy(task[t], probe[t])
      /\ \A t \in Targets \ opts.targets : task[t].at = "waiting"
      /\ opts.targets \subseteq Targets /\ TypeOK
  BY OptionFacts DEF IInv
<1>2. \A t \in Targets : probe[t].open => t \in Inside
  <2>1. SUFFICES ASSUME NEW t \in Targets, probe[t].open
                 PROVE  t \in Inside
    OBVIOUS
  <2>2. task[t].at \in {"warmup", "sampling"}
    BY <1>1, <2>1 DEF Tidy, NoProbe
  <2>3. QED
    BY <1>1, <2>2 DEF Inside, Ended
<1>3. \A t \in Inside : t \in opts.targets /\ task[t].at \in Holding
  BY <1>1 DEF Inside, TypeOK, Tasks, Holding, Before, During, FetchingRegistry, FetchingGuidelines, Ended
<1>4. opts.serial =>
        /\ \A t, u \in Inside : Host(t) = Host(u) => t = u
        /\ \A t \in Inside : task[t].at = "backoff" => failedHosts[Host(t)] > 0
  BY <1>3 DEF IInv, Locks
<1>5. QED
  BY <1>1, <1>2, <1>4 DEF HostsInTurn, OnePerHost

(* Every state is a legal one; a connection is only ever open for a target *)
(* that holds a slot, and serialised hosts are seen by one target at a     *)
(* time, whose backoff nobody cuts short: the lock of check_target around  *)
(* its slot (core.py).                                                     *)
THEOREM HostsAreServedInTurn == Spec => []HostsInTurn
<1>1. IInv => HostsInTurn
  BY InvariantGivesTurns
<1>2. QED
  BY <1>1, Invariance, PTL

(* No ClientHello leaves before its dialogue is over and has said yes, in  *)
(* whatever way the peer and the deadlines behave (handshake.py).          *)
THEOREM HelloIsAgreed == Spec => []PhasesInOrder
<1>1. IInv => PhasesInOrder
  BY DEF IInv, Tidy, Legal, Agreed, PhasesInOrder
<1>2. QED
  BY <1>1, Invariance, PTL

(* What a settled target reports belongs together, and the progress counts *)
(* the targets that returned (_build_result, _update_progress).            *)
THEOREM OutcomesBelongTogether == Spec => []SettledOutcome
<1>1. IInv => SettledOutcome
  BY DEF IInv, Outcome, Evidence, ReturnedTargets, SettledOutcome
<1>2. QED
  BY <1>1, Invariance, PTL

-------------------------------------------------------------------------------
(* Whoever was judged by the engine's registry found it held, and it is    *)
(* never lost.                                                             *)
Served == \A u \in Targets : result[u].ct = "held" => registry

(* What a step of t says of the registry and of who waits for it.          *)
Serves(t) ==
  /\ registry => registry'
  /\ \E r : /\ result' = [result EXCEPT ![t] = r]
            /\ r.ct = "held" => result[t].ct = "held" \/ registry'
  /\ \E k : /\ task' = [task EXCEPT ![t] = k]
            /\ registry /\ k.at \in FetchingRegistry => k.at = task[t].at
  /\ (\A u \in Targets : task[u].at # "fetching_guidelines") => guidelines' = guidelines

LEMMA QuietServes ==
  ASSUME IInv, NEW t \in opts.targets, registry' = registry, guidelines' = guidelines,
         NEW r, result' = [result EXCEPT ![t] = r], r.ct = "held" => result[t].ct = "held",
         NEW k, task' = [task EXCEPT ![t] = k], k.at \notin FetchingRegistry \/ k.at = task[t].at
  PROVE  Serves(t)
BY DEF Serves

LEMMA StillServes ==
  ASSUME IInv, NEW t \in opts.targets, registry' = registry, guidelines' = guidelines,
         result' = result,
         NEW k, task' = [task EXCEPT ![t] = k], k.at \notin FetchingRegistry \/ k.at = task[t].at
  PROVE  Serves(t)
<1>1. result = [result EXCEPT ![t] = result[t]]
  BY TargetFacts
<1>2. QED
  BY <1>1, QuietServes

LEMMA FailServes ==
  ASSUME IInv, NEW t \in opts.targets, Fail(t)
  PROVE  Serves(t)
<1>. DEFINE k == [NoTask EXCEPT !.at = "failed"]
            r == [NoResult EXCEPT !.status = "tcp_error"]
<1>1. /\ registry' = registry /\ guidelines' = guidelines
      /\ result' = [result EXCEPT ![t] = r] /\ task' = [task EXCEPT ![t] = k]
  BY DEF Fail, Move
<1>2. r.ct # "held" /\ k.at \notin FetchingRegistry
  BY DEF NoResult, NoTask, FetchingRegistry
<1>. HIDE DEF k, r
<1>3. QED
  BY <1>1, <1>2, QuietServes

(* The way to the checks, and the way out.                                 *)
LEMMA MovingServes ==
  ASSUME IInv, NEW t \in opts.targets, registry' = registry, guidelines' = guidelines,
         result' = result, NEW k, Move(t, k), k.at \in Before \cup {"returned"}
  PROVE  Serves(t)
BY StillServes DEF Move, Before, FetchingRegistry

LEMMA ArrivingServes ==
  ASSUME IInv, NEW t \in opts.targets,
         \/ TakeLock(t) \/ TakeSlot(t) \/ EndBackoff(t) \/ EndWarmup(t)
         \/ RetrySample(t) \/ EndRetrySleep(t) \/ Return(t) \/ Handshaking(t)
  PROVE  Serves(t)
<1>1. task[t] \in Tasks /\ task = [task EXCEPT ![t] = task[t]]
  BY TargetFacts
<1>2. registry' = registry /\ guidelines' = guidelines /\ result' = result
  BY DEF TakeLock, TakeSlot, EndBackoff, EndWarmup, RetrySample, EndRetrySleep, Return,
         Handshaking, shared
<1>3. CASE Handshaking(t)
  BY <1>1, <1>2, <1>3, StillServes DEF Handshaking
<1>4. CASE ~ Handshaking(t)
  <2>1. FirstHandshake.at \in Before
    BY DEF FirstHandshake, NoTask, Before
  <2>2. [task[t] EXCEPT !.at = "queued"].at \in Before /\ [task[t] EXCEPT !.at = "backoff"].at \in Before
    BY <1>1 DEF Tasks, Before
  <2>3. CASE TakeLock(t)
    BY <1>2, <2>2, <2>3, MovingServes DEF TakeLock
  <2>4. CASE TakeSlot(t)
    BY <1>2, <2>1, <2>2, <2>4, MovingServes DEF TakeSlot
  <2>5. CASE EndBackoff(t)
    BY <1>2, <2>1, <2>5, MovingServes DEF EndBackoff
  <2>6. CASE EndWarmup(t)
    <3>1. PICK left, k : /\ k = [task[t] EXCEPT !.left = left, !.at = IF left > 0 THEN @ ELSE "sampling"]
                         /\ Move(t, k)
      BY <2>6 DEF EndWarmup
    <3>2. task[t].at = "warmup"
      BY <2>6 DEF EndWarmup, At
    <3>3. k.at \in Before
      BY <1>1, <3>1, <3>2 DEF Tasks, Before
    <3>4. QED
      BY <1>2, <3>1, <3>3, MovingServes
  <2>7. CASE RetrySample(t)
    <3>1. PICK k : k = [task[t] EXCEPT !.at = "retrying", !.attempt = @ + 1] /\ Move(t, k)
      BY <2>7 DEF RetrySample
    <3>2. k.at \in Before
      BY <1>1, <3>1 DEF Tasks, Before
    <3>3. QED
      BY <1>2, <3>1, <3>2, MovingServes
  <2>8. CASE EndRetrySleep(t)
    <3>1. PICK k : k = [task[t] EXCEPT !.at = "sampling"] /\ Move(t, k)
      BY <2>8 DEF EndRetrySleep
    <3>2. k.at \in Before
      BY <1>1, <3>1 DEF Tasks, Before
    <3>3. QED
      BY <1>2, <3>1, <3>2, MovingServes
  <2>9. CASE Return(t)
    <3>1. PICK k : k = [NoTask EXCEPT !.at = "returned"] /\ Move(t, k)
      BY <2>9 DEF Return
    <3>2. k.at \in Before \cup {"returned"}
      BY <3>1 DEF NoTask
    <3>3. QED
      BY <1>2, <3>1, <3>2, MovingServes
  <2>10. QED
    BY <1>4, <2>3, <2>4, <2>5, <2>6, <2>7, <2>8, <2>9
<1>5. QED
  BY <1>3, <1>4

LEMMA SamplingServes ==
  ASSUME IInv, NEW t \in opts.targets, SampleRaises(t) \/ NextSample(t) \/ EndSamples(t)
  PROVE  Serves(t)
<1>1. CASE SampleRaises(t)
  BY <1>1, FailServes DEF SampleRaises
<1>2. task[t] \in Tasks /\ result[t] \in Results
  BY TargetFacts
<1>3. Sampled(t).ct = result[t].ct
  BY <1>2 DEF Sampled, Results
<1>4. CASE NextSample(t)
  <2>1. PICK r, k : /\ r = Sampled(t) /\ result' = [result EXCEPT ![t] = r]
                    /\ k = [task[t] EXCEPT !.index = @ + 1, !.attempt = 1]
                    /\ task' = [task EXCEPT ![t] = k]
    BY <1>4 DEF NextSample, Move
  <2>2. registry' = registry /\ guidelines' = guidelines
    BY <1>4 DEF NextSample, shared
  <2>3. r.ct = "held" => result[t].ct = "held"
    BY <1>3, <2>1
  <2>4. k.at = task[t].at
    BY <1>2, <2>1 DEF Tasks
  <2>5. QED
    BY <2>1, <2>2, <2>3, <2>4, QuietServes
<1>5. CASE EndSamples(t)
  <2>1. registry' = registry /\ guidelines' = guidelines
    BY <1>5 DEF EndSamples
  <2>2. PICK parsed, due :
          /\ result' = [result EXCEPT ![t] = Built(t, parsed)]
          /\ Move(t, [NoTask EXCEPT !.at = "checking", !.todo = due])
    BY <1>5 DEF EndSamples
  <2>3. PICK r, k : /\ r = Built(t, parsed) /\ k = [NoTask EXCEPT !.at = "checking", !.todo = due]
                    /\ result' = [result EXCEPT ![t] = r] /\ task' = [task EXCEPT ![t] = k]
    BY <2>2 DEF Move
  <2>4. r.ct = Sampled(t).ct
    BY <1>2, <2>3 DEF Built, Sampled, Results
  <2>5. k.at \notin FetchingRegistry
    BY <2>3 DEF NoTask, FetchingRegistry
  <2>6. r.ct = "held" => result[t].ct = "held"
    BY <1>3, <2>4
  <2>7. QED
    BY <2>1, <2>3, <2>5, <2>6, QuietServes
<1>6. QED
  BY <1>1, <1>4, <1>5

(* The checks.                                                             *)
LEMMA AuditedServes ==
  ASSUME IInv, NEW t \in opts.targets, NEW check, NEW q, AuditedAs(t, check, q), q \in Results,
         q.ct = "held" => result[t].ct = "held" \/ registry', registry => registry',
         (\A u \in Targets : task[u].at # "fetching_guidelines") => guidelines' = guidelines
  PROVE  Serves(t)
<1>1. PICK r, k : /\ r = [q EXCEPT !.audits = @ \cup {check}] /\ result' = [result EXCEPT ![t] = r]
                  /\ k = [task[t] EXCEPT !.at = "checking", !.todo = @ \ {check}]
                  /\ task' = [task EXCEPT ![t] = k]
  BY DEF AuditedAs, Move
<1>2. task[t] \in Tasks
  BY TargetFacts
<1>3. r.ct = q.ct /\ k.at = "checking"
  BY <1>1, <1>2 DEF Results, Tasks
<1>4. k.at \notin FetchingRegistry
  BY <1>3 DEF FetchingRegistry
<1>5. QED
  BY <1>1, <1>3, <1>4 DEF Serves

LEMMA RunCheckServes ==
  ASSUME IInv, NEW t \in opts.targets, RunCheck(t)
  PROVE  Serves(t)
<1>1. PICK check : \/ Audited(t, check) /\ UNCHANGED shared
                   \/ Fail(t)
  BY DEF RunCheck
<1>2. CASE Fail(t)
  BY <1>2, FailServes
<1>3. CASE Audited(t, check) /\ UNCHANGED shared
  <2>1. AuditedAs(t, check, result[t]) /\ registry' = registry /\ guidelines' = guidelines
    BY <1>3 DEF Audited, shared
  <2>2. result[t] \in Results
    BY TargetFacts
  <2>3. QED
    BY <2>1, <2>2, AuditedServes
<1>4. QED
  BY <1>1, <1>2, <1>3

LEMMA TimestampedServes ==
  ASSUME IInv, NEW t \in opts.targets, NEW by \in {"no_scts", "held", "own", "unavailable"},
         Timestamped(t, by), by = "held" => registry', registry => registry',
         guidelines' = guidelines
  PROVE  Serves(t)
<1>1. result[t] \in Results
  BY TargetFacts
<1>2. PICK q : q = [result[t] EXCEPT !.ct = by] /\ AuditedAs(t, "ct", q)
  BY DEF Timestamped
<1>3. q \in Results /\ q.ct = by
  BY <1>1, <1>2 DEF Results
<1>4. QED
  BY <1>2, <1>3, AuditedServes

LEMMA ResolveTrustServes ==
  ASSUME IInv, NEW t \in opts.targets, NEW held \in BOOLEAN, ResolveTrust(t, held),
         registry' = held, registry => registry', guidelines' = guidelines
  PROVE  Serves(t)
<1>1. CASE Timestamped(t, "no_scts")
  <2>1. PICK by \in {"no_scts", "held", "own", "unavailable"} : by = "no_scts"
    OBVIOUS
  <2>2. QED
    BY <1>1, <2>1, TimestampedServes
<1>2. CASE held /\ Timestamped(t, "held")
  <2>1. PICK by \in {"no_scts", "held", "own", "unavailable"} : by = "held"
    OBVIOUS
  <2>2. QED
    BY <1>2, <2>1, TimestampedServes
<1>3. CASE ~held /\ Move(t, [task[t] EXCEPT !.at = "refetching_registry"]) /\ UNCHANGED result
  <2>1. result = [result EXCEPT ![t] = result[t]]
    BY TargetFacts
  <2>2. ~ registry
    BY <1>3
  <2>3. QED
    BY <1>3, <2>1, <2>2 DEF Serves, Move
<1>4. QED
  BY <1>1, <1>2, <1>3 DEF ResolveTrust

LEMMA CtServes ==
  ASSUME IInv, NEW t \in opts.targets,
         CheckCtLogs(t) \/ FetchRegistry(t) \/ RefetchRegistry(t)
  PROVE  Serves(t)
<1>1. registry \in BOOLEAN
  BY DEF IInv, TypeOK
<1>2. CASE CheckCtLogs(t)
  <2>1. registry' = registry /\ guidelines' = guidelines
    BY <1>2 DEF CheckCtLogs, shared
  <2>2. CASE registry
    <3>1. PICK held \in BOOLEAN : held = TRUE
      OBVIOUS
    <3>2. ResolveTrust(t, held) /\ registry' = held
      BY <1>1, <1>2, <2>1, <2>2, <3>1 DEF CheckCtLogs
    <3>3. QED
      BY <2>1, <3>2, ResolveTrustServes
  <2>3. CASE ~ registry
    <3>1. Move(t, [task[t] EXCEPT !.at = "fetching_registry"]) /\ result' = result
      BY <1>2, <2>3 DEF CheckCtLogs
    <3>2. result = [result EXCEPT ![t] = result[t]]
      BY TargetFacts
    <3>3. QED
      BY <2>1, <2>3, <3>1, <3>2 DEF Serves, Move
  <2>4. QED
    BY <2>2, <2>3
<1>3. CASE FetchRegistry(t)
  <2>1. PICK fetched \in BOOLEAN : registry' = RegistryAfter(fetched)
    BY <1>3 DEF FetchRegistry
  <2>2. registry' \in BOOLEAN /\ (registry => registry')
    BY <1>1, <2>1 DEF RegistryAfter
  <2>3. ResolveTrust(t, registry') /\ guidelines' = guidelines
    BY <1>3 DEF FetchRegistry
  <2>4. PICK held \in BOOLEAN : held = registry'
    BY <2>2
  <2>5. ResolveTrust(t, held)
    BY <2>3, <2>4
  <2>6. QED
    BY <2>2, <2>3, <2>4, <2>5, ResolveTrustServes
<1>4. CASE RefetchRegistry(t)
  <2>1. PICK by \in {"no_scts", "held", "own", "unavailable"} : Timestamped(t, by) /\ by # "held"
    BY <1>4 DEF RefetchRegistry
  <2>2. registry' = registry /\ guidelines' = guidelines
    BY <1>4 DEF RefetchRegistry, shared
  <2>3. QED
    BY <2>1, <2>2, TimestampedServes
<1>5. QED
  BY <1>2, <1>3, <1>4

LEMMA AssessedServes ==
  ASSUME IInv, NEW t \in opts.targets, NEW profile \in {"assessed", "error", "assessed_and_error"},
         Assessed(t, profile), registry' = registry,
         (\A u \in Targets : task[u].at # "fetching_guidelines") => guidelines' = guidelines
  PROVE  Serves(t)
<1>1. result[t] \in Results
  BY TargetFacts
<1>2. PICK q : q = [result[t] EXCEPT !.profile = profile] /\ AuditedAs(t, "profiles", q)
  BY DEF Assessed
<1>3. q \in Results /\ q.ct = result[t].ct
  BY <1>1, <1>2 DEF Results
<1>4. QED
  BY <1>2, <1>3, AuditedServes

LEMMA ProfilesServe ==
  ASSUME IInv, NEW t \in opts.targets,
         CheckProfiles(t) \/ FetchGuidelines(t) \/ RefetchGuidelines(t)
  PROVE  Serves(t)
<1>1. registry' = registry
  BY DEF CheckProfiles, FetchGuidelines, RefetchGuidelines, shared
<1>2. (\A u \in Targets : task[u].at # "fetching_guidelines") => guidelines' = guidelines
  <2>1. t \in Targets
    BY TargetFacts
  <2>2. QED
    BY <2>1 DEF CheckProfiles, FetchGuidelines, RefetchGuidelines, shared, At
<1>3. \/ \E profile \in {"assessed", "error", "assessed_and_error"} : Assessed(t, profile)
      \/ \E at \in FetchingGuidelines : Move(t, [task[t] EXCEPT !.at = at]) /\ result' = result
  <2>1. guidelines.error \in BOOLEAN
    BY DEF IInv, TypeOK
  <2>2. QED
    BY <2>1 DEF CheckProfiles, FetchGuidelines, RefetchGuidelines, Assess, Profile, FetchingGuidelines
<1>4. ASSUME NEW at \in FetchingGuidelines, Move(t, [task[t] EXCEPT !.at = at]), result' = result
      PROVE  Serves(t)
  <2>1. task[t] \in Tasks /\ result = [result EXCEPT ![t] = result[t]]
    BY TargetFacts
  <2>2. [task[t] EXCEPT !.at = at].at \notin FetchingRegistry
    BY <2>1, <1>4 DEF Tasks, FetchingGuidelines, FetchingRegistry
  <2>3. QED
    BY <1>1, <1>2, <1>4, <2>1, <2>2 DEF Serves, Move
<1>5. QED
  BY <1>1, <1>2, <1>3, <1>4, AssessedServes

LEMMA EveryStepServes ==
  ASSUME IInv, NEW t \in opts.targets, TargetStep(t) \/ Handshaking(t)
  PROVE  Serves(t)
BY ArrivingServes, SamplingServes, RunCheckServes, CtServes, ProfilesServe DEF TargetStep

LEMMA ActingTarget ==
  ASSUME NEW t \in Targets, TargetStep(t) \/ Handshaking(t)
  PROVE  t \in opts.targets
BY DEF TargetStep, TakeLock, TakeSlot, EndBackoff, EndWarmup, SampleRaises, RetrySample,
       EndRetrySleep, NextSample, EndSamples, RunCheck, NextCheck, CheckCtLogs, FetchRegistry,
       RefetchRegistry, CheckProfiles, FetchGuidelines, RefetchGuidelines, Return,
       Handshaking, At

LEMMA ServedInvariant == IInv /\ Served /\ [Next]_vars => Served'
<1>. SUFFICES ASSUME IInv, Served, [Next]_vars
              PROVE  Served'
  OBVIOUS
<1>1. CASE UNCHANGED vars
  BY <1>1 DEF Served, vars, shared
<1>2. ASSUME NEW t \in Targets, TargetStep(t) \/ Handshaking(t)
      PROVE  Served'
  <2>1. Serves(t)
    BY <1>2, ActingTarget, EveryStepServes
  <2>2. result \in [Targets -> Results]
    BY DEF IInv, TypeOK
  <2>3. QED
    BY <2>1, <2>2 DEF Serves, Served
<1>3. QED
  BY <1>1, <1>2 DEF Next

(* Once a target was judged by the engine's registry no other sets out to  *)
(* fetch one or is left without, and the guidelines are settled when they  *)
(* were fetched and nobody fetches any more (_check_ct_logs,               *)
(* _check_locked): for any number of targets and whatever fetches fail.    *)
THEOREM FetchesAreShared == Spec => SharedOnceFetched
<1>. DEFINE A == /\ (\E u \in Targets : result[u].ct = "held") =>
                      \A t \in Targets :
                        task'[t].at \in {"fetching_registry", "refetching_registry"} =>
                          task'[t].at = task[t].at
                 /\ guidelines.fetched /\ (\A t \in Targets : task[t].at # "fetching_guidelines") =>
                      guidelines' = guidelines
<1>1. Init => Served
  BY DEF Init, Served, NoResult
<1>2. IInv /\ Served /\ [Next]_vars => [A]_vars
  <2>. SUFFICES ASSUME IInv, Served, Next
                PROVE  A
    OBVIOUS
  <2>1. PICK t \in Targets : TargetStep(t) \/ Handshaking(t)
    BY DEF Next
  <2>2. Serves(t)
    BY <2>1, ActingTarget, EveryStepServes
  <2>3. task \in [Targets -> Tasks]
    BY DEF IInv, TypeOK
  <2>4. PICK k : /\ task' = [task EXCEPT ![t] = k]
                 /\ registry /\ k.at \in FetchingRegistry => k.at = task[t].at
    BY <2>2 DEF Serves
  <2>5. \A u \in Targets : task'[u] = IF u = t THEN k ELSE task[u]
    BY <2>3, <2>4
  <2>6. ASSUME NEW u \in Targets, result[u].ct = "held", NEW v \in Targets,
               task'[v].at \in {"fetching_registry", "refetching_registry"}
        PROVE  task'[v].at = task[v].at
    BY <2>4, <2>5, <2>6 DEF Served, FetchingRegistry
  <2>7. (\A u \in Targets : task[u].at # "fetching_guidelines") => guidelines' = guidelines
    BY <2>2 DEF Serves
  <2>8. QED
    BY <2>6, <2>7
<1>. HIDE DEF A
<1>3. Spec => [][A]_vars
  BY <1>1, <1>2, ServedInvariant, Invariance, PTL DEF Spec
<1>4. QED
  BY <1>3 DEF A, SharedOnceFetched

===============================================================================
