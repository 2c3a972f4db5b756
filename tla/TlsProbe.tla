------------------------------- MODULE TlsProbe -------------------------------
(***************************************************************************)
(* probe_tls (ssl_check/handshake.py): one probe of a TLS endpoint.  It    *)
(* resolves the name, connects, talks the plaintext dialogue of STARTTLS   *)
(* when the port calls for it, pumps the handshake through memory buffers  *)
(* and captures what was negotiated.  Every phase has a deadline but the   *)
(* first: the resolver of the system is trusted to answer.                 *)
(*                                                                         *)
(* A line of a dialogue is a member of Lines; a chunk of the handshake is  *)
(* one unit of its byte count; a deadline may fire whenever its phase is   *)
(* waiting.  Names, addresses and certificates are left out.               *)
(***************************************************************************)
EXTENDS Integers, Sequences, FiniteSets

CONSTANTS
  Targets,
  MaxBytes       \* max_handshake_bytes

ASSUME ByteCapAssumption == MaxBytes \in Nat

VARIABLE probe   \* the latest probe of each target

StartTLSProtocols == {"none", "smtp", "imap", "pop3", "ftp", "ldap"}

HandshakeStatuses ==
  {"ok", "blocked", "dns_failure", "tcp_refused", "tcp_timeout", "tcp_error",
   "starttls_failed", "starttls_unsupported", "tls_error", "handshake_timeout",
   "handshake_abandoned", "peer_closed"}

Phases == {"dns", "tcp", "starttls", "handshake", "total"}

(* The default STARTTLS mode of the ports that are scanned.                *)
StartTLSForPort(port) ==
  CASE port \in {587, 25} -> "smtp"
    [] port = 143 -> "imap"
    [] port = 110 -> "pop3"
    [] port = 389 -> "ldap"
    [] port = 21 -> "ftp"
    [] OTHER -> "none"

-------------------------------------------------------------------------------
(* A dialogue is a sequence of turns.  In a turn the peer sends one line,  *)
(* or several when "many"; "refusal" is the status of a reply that says no *)
(* (or "none" where its code is not looked at), "advert" whether one of    *)
(* its lines has to mention STARTTLS.  LDAP is one message of BER and not  *)
(* lines, so its end of stream is seen ("eof") rather than raised.         *)
Turn(refusal, many, advert) ==
  [refusal |-> refusal, many |-> many, advert |-> advert, eof |-> "raises"]

NegotiateSmtp ==
  <<Turn("starttls_failed", TRUE, FALSE),       \* 220 greeting
    Turn("none", TRUE, TRUE),                   \* EHLO
    Turn("starttls_failed", FALSE, FALSE)>>     \* STARTTLS
NegotiateImap ==
  <<Turn("starttls_failed", FALSE, FALSE),      \* * OK
    Turn("none", TRUE, TRUE),                   \* CAPABILITY
    Turn("starttls_failed", TRUE, FALSE)>>      \* STARTTLS, up to its tag
NegotiatePop3 ==
  <<Turn("starttls_failed", FALSE, FALSE),
    Turn("starttls_unsupported", FALSE, FALSE)>>
NegotiateFtp ==
  <<Turn("starttls_failed", TRUE, FALSE),
    Turn("starttls_unsupported", FALSE, FALSE)>>
NegotiateLdap ==
  <<[refusal |-> "starttls_unsupported", many |-> FALSE, advert |-> FALSE,
     eof |-> "starttls_failed"]>>

Dialogue(protocol) ==
  CASE protocol = "smtp" -> NegotiateSmtp
    [] protocol = "imap" -> NegotiateImap
    [] protocol = "pop3" -> NegotiatePop3
    [] protocol = "ftp" -> NegotiateFtp
    [] protocol = "ldap" -> NegotiateLdap
    [] OTHER -> <<>>

-------------------------------------------------------------------------------
NoProbe ==
  [at |-> "idle", starttls |-> "none", turn |-> 0, advertised |-> FALSE,
   status |-> "ok", timed |-> {}, sent |-> 0, received |-> 0,
   open |-> FALSE, leaf |-> FALSE]

InitProbe == probe = [t \in Targets |-> NoProbe]

Become(t, p) == probe' = [probe EXCEPT ![t] = p]

(* A probe of t begins.                                                    *)
BeginProbe(t, protocol) ==
  Become(t, [NoProbe EXCEPT !.at = "resolve", !.starttls = protocol])

(* The result is returned: every path that connected closes the connection *)
(* in its finally clause.                                                  *)
Returned(p, status, timed) ==
  [p EXCEPT !.at = "returned", !.status = status, !.open = FALSE,
            !.timed = @ \cup timed]
RaisedFrom(p) == [p EXCEPT !.at = "raised", !.open = FALSE]

(* The address policy refuses an address after it was resolved and before  *)
(* a connection is tried; nothing is timed then.  A name that cannot be    *)
(* encoded raises UnicodeError, which is caught nowhere here.              *)
Resolve(t) ==
  /\ probe[t].at = "resolve"
  /\ \/ Become(t, Returned(probe[t], "blocked", {}))
     \/ Become(t, Returned(probe[t], "dns_failure", {"dns"}))
     \/ Become(t, RaisedFrom(probe[t]))
     \/ Become(t, [probe[t] EXCEPT !.at = "connect", !.timed = {"dns"}])

Negotiating(p) ==
  IF Dialogue(p.starttls) = <<>>
  THEN [p EXCEPT !.at = "hello"]
  ELSE [p EXCEPT !.at = "negotiate", !.turn = 1, !.advertised = FALSE]

Connect(t) ==
  /\ probe[t].at = "connect"
  /\ \/ \E status \in {"tcp_timeout", "tcp_refused", "tcp_error"} :
          Become(t, Returned(probe[t], status, {"tcp", "total"}))
     \/ Become(t, Negotiating([probe[t] EXCEPT !.open = TRUE,
                                               !.timed = @ \cup {"tcp"}]))

-------------------------------------------------------------------------------
(* STARTTLS.                                                               *)
CurrentTurn(p) == Dialogue(p.starttls)[p.turn]

Upgraded(p) == [p EXCEPT !.at = "hello", !.timed = @ \cup {"starttls"}]
EndNegotiation(p, status) == Returned(p, status, {"starttls"})

\* Mutant: a greeting without STARTTLS goes unnoticed.
TurnTakenUnoffered(p) ==
  IF p.turn = Len(Dialogue(p.starttls)) THEN Upgraded(p)
  ELSE [p EXCEPT !.turn = @ + 1]

(* The last line of a turn was read and says yes.                          *)
TurnTaken(p) ==
  IF CurrentTurn(p).advert /\ ~p.advertised
  THEN EndNegotiation(p, "starttls_unsupported")
  ELSE IF p.turn = Len(Dialogue(p.starttls)) THEN Upgraded(p)
  ELSE [p EXCEPT !.turn = @ + 1]

(* STARTTLS counts where the turn looks for it: not in a greeting.         *)
Mentions(p) == IF CurrentTurn(p).advert THEN BOOLEAN ELSE {FALSE}

(* A line that is not the last one of its turn.                            *)
ReadContinuation(t) ==
  /\ probe[t].at = "negotiate"
  /\ CurrentTurn(probe[t]).many
  /\ \E mentions \in Mentions(probe[t]) :
       Become(t, [probe[t] EXCEPT !.advertised = @ \/ mentions])

ReadReply(t) ==
  LET p == probe[t] IN
  /\ p.at = "negotiate"
  /\ \/ \E mentions \in Mentions(p) :
          Become(t, TurnTaken([p EXCEPT !.advertised = @ \/ mentions]))
     \/ /\ CurrentTurn(p).refusal # "none"
        /\ Become(t, EndNegotiation(p, CurrentTurn(p).refusal))

(* An over-long line, an unparseable message, a reset or the deadline.     *)
NegotiationFails(t) ==
  /\ probe[t].at = "negotiate"
  /\ Become(t, EndNegotiation(probe[t], "starttls_failed"))

(* The peer closes the connection.  A line reader raises IncompleteReadError, *)
(* which is an EOFError and none of the exceptions that are caught here.   *)
HangsUp(p) ==
  IF CurrentTurn(p).eof = "raises" THEN RaisedFrom(p)
  ELSE EndNegotiation(p, CurrentTurn(p).eof)
PeerHangsUp(t) ==
  /\ probe[t].at = "negotiate"
  /\ Become(t, HangsUp(probe[t]))

-------------------------------------------------------------------------------
(* The handshake.                                                          *)
EndHandshake(p, status) == Returned(p, status, {"handshake"})

(* The first flight; a context without usable versions or ciphers fails    *)
(* before anything is sent.                                                *)
SendHello(t) ==
  /\ probe[t].at = "hello"
  /\ \/ Become(t, EndHandshake(probe[t], "tls_error"))
     \/ Become(t, [probe[t] EXCEPT !.at = "pump", !.sent = 1])

(* Beyond the byte cap the handshake is given up, before its bytes are     *)
(* looked at.                                                              *)
OverCap(p) == p.sent + p.received > MaxBytes

PumpHandshake(t) ==
  LET p == [probe[t] EXCEPT !.received = @ + 1] IN
  /\ probe[t].at = "pump"
  /\ IF OverCap(p) THEN Become(t, EndHandshake(p, "handshake_abandoned"))
     ELSE \/ \E payload \in {0, 1} : Become(t, [p EXCEPT !.sent = @ + payload])
          \/ Become(t, EndHandshake(p, "tls_error"))
          \/ Become(t, [p EXCEPT !.at = "flush", !.sent = @ + 1])
          \/ Become(t, [p EXCEPT !.at = "capture"])

(* The deadline fires, in a read or in a flush; the peer closes.           *)
HandshakeTimesOut(t) ==
  /\ probe[t].at \in {"pump", "flush"}
  /\ Become(t, EndHandshake(probe[t], "handshake_timeout"))
HandshakePeerCloses(t) ==
  /\ probe[t].at \in {"pump", "flush"}
  /\ Become(t, EndHandshake(probe[t], "peer_closed"))

(* The handshake is over and its last flight is out: drain for tickets, read the session and the     *)
(* certificates off the connection, close it.  An anonymous suite has no   *)
(* certificate.                                                            *)
CaptureNegotiated(t) ==
  /\ probe[t].at \in {"flush", "capture"}
  /\ \E leaf \in BOOLEAN :
       Become(t, [Returned(probe[t], "ok", {"handshake", "total"})
                  EXCEPT !.leaf = leaf])

ProbeStep(t) ==
  \/ Resolve(t) \/ Connect(t)
  \/ ReadContinuation(t) \/ ReadReply(t) \/ NegotiationFails(t) \/ PeerHangsUp(t)
  \/ SendHello(t) \/ PumpHandshake(t) \/ HandshakeTimesOut(t) \/ HandshakePeerCloses(t)
  \/ CaptureNegotiated(t)

(* What the deadlines guarantee: a probe that waits ends, whatever the     *)
(* peer sends meanwhile.                                                   *)
ProbeDeadline(t) ==
  \/ Resolve(t) \/ Connect(t) \/ NegotiationFails(t) \/ SendHello(t)
  \/ HandshakeTimesOut(t) \/ CaptureNegotiated(t)

ProbeEnded(t) == probe[t].at \in {"returned", "raised"}

-------------------------------------------------------------------------------
Probes ==
  [at : {"idle", "resolve", "connect", "negotiate", "hello", "pump", "flush",
         "capture", "returned", "raised"},
   starttls : StartTLSProtocols, turn : 0 .. 3, advertised : BOOLEAN,
   status : HandshakeStatuses, timed : SUBSET Phases,
   sent : 0 .. MaxBytes + 2, received : 0 .. MaxBytes + 2,
   open : BOOLEAN, leaf : BOOLEAN]
===============================================================================
