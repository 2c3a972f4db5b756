------------------------------- MODULE TlsGrade --------------------------------
(***************************************************************************)
(* The grade of a TLS endpoint (ssl_check/grading.py): a base grade from   *)
(* the certificate or from a score of protocols, key exchange and ciphers, *)
(* and ceilings on it.  Grades are numbers, worse is larger; A+ is never   *)
(* given, and no ceiling moves T (not trusted) or M (name mismatch).       *)
(***************************************************************************)
EXTENDS TlsScan

Ungraded == 0
A == 1
A_MINUS == 2
B == 3
C == 4
D == 5
E == 6
F == 7
T == 8
M == 9

PROTOCOL_SCORE ==
  [SSL2 |-> 0, SSL3 |-> 80, TLS10 |-> 90, TLS11 |-> 95, TLS12 |-> 100,
   TLS13 |-> 100]

(* The bits are read off the name of a cipher, and are missing when it is  *)
(* of no known kind.                                                       *)
CIPHER_BITS == {0, 40, 56, 64, 112, 128, 256}

Bits(ciphers) == UNION {c.bits : c \in ciphers}

cipher_score_bucket(bits) ==
  CASE bits = 0 -> 0
    [] bits \in 1 .. 127 -> 20
    [] bits \in 128 .. 255 -> 80
    [] OTHER -> 100

key_exchange_score_bucket(bits) ==
  CASE bits < 512 -> 20
    [] bits \in 512 .. 1023 -> 40
    [] bits \in 1024 .. 2047 -> 80
    [] bits \in 2048 .. 4095 -> 90
    [] OTHER -> 100

(* The size of an RSA key as strong as a curve.                            *)
EC_TO_RSA_EQUIVALENT_BITS ==
  {[curve |-> 160, rsa |-> 1024], [curve |-> 224, rsa |-> 2048],
   [curve |-> 256, rsa |-> 3072], [curve |-> 384, rsa |-> 7680],
   [curve |-> 448, rsa |-> 7680], [curve |-> 521, rsa |-> 15360]}

EquivalentBits(key) ==
  CASE key.type \in {"rsa", "dsa"} -> {key.size}
    [] key.type = "ed25519" -> {3072}
    [] key.type = "ed448" -> {7680}
    [] key.type = "ecdsa" ->
         LET large == {row \in EC_TO_RSA_EQUIVALENT_BITS : key.size <= row.curve}
         IN IF large = {} THEN {15360} ELSE {Min({row.rsa : row \in large})}
    [] OTHER -> {}

CURVE_EQUIVALENT_BITS ==
  [SECP521R1 |-> 15360, SECP384R1 |-> 7680, X448 |-> 7680,
   SECP256R1 |-> 3072, SECP256K1 |-> 3072, X25519 |-> 3072,
   SECP224R1 |-> 2048, SECP192R1 |-> 1024]

(* What enumeration and deep introspection saw together.                   *)
Versions(r) == r.enumeration.versions \cup r.deep.versions
Ciphers(r) == r.enumeration.ciphers \cup r.deep.ciphers

(* The size of the Diffie-Hellman group of the server or else, of its      *)
(* curves, the weakest.                                                    *)
Ephemeral(r) ==
  LET curves == {CURVE_EQUIVALENT_BITS[g] :
                   g \in r.deep.groups \cap DOMAIN CURVE_EQUIVALENT_BITS}
  IN IF r.deep.dh # {} THEN r.deep.dh
     ELSE IF curves # {} THEN {Min(curves)} ELSE {}

KeyExchange(r, c) == EquivalentBits(c.public_key) \cup Ephemeral(r)

(* Twenty times the score: 30% protocol and 40% ciphers, each the mean of  *)
(* the best and the worst, and 30% key exchange.                           *)
Score(r, c) ==
  LET protocols == {PROTOCOL_SCORE[v] : v \in Versions(r)}
      bits == Bits(Ciphers(r))
      protocol == Max(protocols) + Min(protocols)
      cipher == cipher_score_bucket(Max(bits)) + cipher_score_bucket(Min(bits))
      exchange == key_exchange_score_bucket(Min(KeyExchange(r, c)))
  IN IF protocol = 0 \/ cipher = 0 THEN 0
     ELSE 3 * protocol + 6 * exchange + 4 * cipher

score_to_grade(score) ==
  CASE score >= 1600 -> A
    [] score \in 1300 .. 1599 -> B
    [] score \in 1000 .. 1299 -> C
    [] score \in 700 .. 999 -> D
    [] score \in 400 .. 699 -> E
    [] OTHER -> F

Scorable(r, c) ==
  Versions(r) # {} /\ Bits(Ciphers(r)) # {} /\ KeyExchange(r, c) # {}

(* The ceilings the protocols, the flaws a scan found, the chain and the   *)
(* ciphers put on the grade.                                               *)
ProtocolCeilings(versions) ==
  LET modern == {"TLS12", "TLS13"}
  IN (IF "SSL2" \in versions THEN {F} ELSE {})
     \cup (IF versions = {"SSL3"} THEN {F} ELSE {})
     \cup (IF "SSL3" \in versions THEN {B} ELSE {})
     \cup (IF versions \cap modern = {} THEN {C} ELSE {})
     \cup (IF versions \cap {"TLS10", "TLS11"} # {} THEN {B} ELSE {})
     \cup (IF "TLS13" \notin versions THEN {A_MINUS} ELSE {})

CeilingOf ==
  [poodle |-> C, rc4 |-> B, export_grade |-> F, anonymous_dh |-> F,
   weak_dh |-> F, drown |-> F, non_forward_secret |-> B]

FlawCeilings(r) ==
  LET flaws == r.deep.flaws
      since11 == Versions(r) \cap {"TLS11", "TLS12", "TLS13"} # {}
  IN {CeilingOf[f] : f \in flaws \cap DOMAIN CeilingOf}
     \cup (IF {"beast", "insecure_ssl_version"} \subseteq flaws
           THEN {B} ELSE {})
     \cup (IF flaws \cap {"rc4", "sweet32"} # {} /\ since11 THEN {C} ELSE {})
     \cup (IF Ciphers(r) # {} /\ \A c \in Ciphers(r) : "RC4" \in c.words THEN {F} ELSE {})
     \cup (IF \E size \in r.deep.dh : size < 2048 THEN {B} ELSE {})

(* Mutant: a flaw the scan found takes the place of the other ceilings.    *)
LastCeilingOnly(r) ==
  IF r.deep.scanned /\ FlawCeilings(r) # {}
  THEN {Min(FlawCeilings(r))}
  ELSE ProtocolCeilings(Versions(r))

Ceilings(r) ==
  ProtocolCeilings(Versions(r))
  \cup (IF r.deep.scanned THEN FlawCeilings(r) ELSE {})
  \cup (IF r.deep.compression THEN {C} ELSE {})
  \cup (IF r.chain_audit.missing_intermediate THEN {B} ELSE {})
  \cup (IF Ciphers(r) # {} /\ \A c \in Ciphers(r) : ~ is_aead(c) THEN {B} ELSE {})

Untrusted(r, c) ==
  \/ r.chain_audit.attempted /\ ~ r.chain_audit.verified
  \/ c.self_issued
  \/ r.revoked

(* Mutant: only an expiry in the past is looked for.                       *)
FailsUnlessEarly(c) == c.lifetime.expired \/ c.signature_weak \/ c.weak_key

FailsOutright(c) ==
  \/ c.lifetime.expired
  \/ c.lifetime.not_yet_valid
  \/ c.signature_weak
  \/ c.weak_key

GradeOf(r, c) ==
  IF r.hostname_match = "mismatch" THEN M
  ELSE IF Untrusted(r, c) THEN T
  ELSE IF FailsOutright(c) THEN F
  ELSE IF ~ Scorable(r, c) THEN Ungraded
  ELSE Max({score_to_grade(Score(r, c))} \cup Ceilings(r))

grade_certificate(r) ==
  IF r.certificate = {} THEN Ungraded
  ELSE GradeOf(r, CHOOSE c \in r.certificate : TRUE)
================================================================================
