---------------------------- MODULE TlsCertificate -----------------------------
(***************************************************************************)
(* What the TLS check says of one certificate (ssl_check/certificate.py):  *)
(* its lifetime against the caps of the CA/Browser Forum, the alarm about  *)
(* its expiry, its key and signature, the names it is for, and whether it  *)
(* says where it is revoked.                                               *)
(*                                                                         *)
(* Instants are in half days since 2018-03-01, the day of the first cap:   *)
(* the code counts days by the floor of a time span, which half days are   *)
(* enough to tell from the span itself.                                    *)
(***************************************************************************)
EXTENDS Integers, Sequences

Day == 2

(* The caps on the days a certificate may be valid, by the day from which  *)
(* they bind a new one.                                                    *)
CAB_LIFETIME_SCHEDULE ==
  {[from |-> 0, days |-> 825], [from |-> 915, days |-> 398],
   [from |-> 2936, days |-> 200], [from |-> 3301, days |-> 100],
   [from |-> 4032, days |-> 47]}

(* A certificate of no more days than these is short-lived.                *)
CAB_SHORT_LIVED_SCHEDULE ==
  {[from |-> 2206, days |-> 10], [from |-> 2936, days |-> 7]}

(* The last rule of a schedule that has begun, if one has; and the first   *)
(* cap that has not.                                                       *)
InForce(schedule, at) ==
  {rule \in schedule :
     /\ at >= Day * rule.from
     /\ \A later \in schedule : later.from > rule.from => at < Day * later.from}

next_cap_after(at) ==
  {rule \in CAB_LIFETIME_SCHEDULE :
     /\ at < Day * rule.from
     /\ \A sooner \in CAB_LIFETIME_SCHEDULE :
          sooner.from < rule.from => at >= Day * sooner.from}

Exceeds(span, rules) == \E rule \in rules : span > Day * rule.days

(* Mutant: a certificate within the cap of its day of issue is compliant.  *)
VerdictOfIssueOnly(not_before, not_after) ==
  LET cap == InForce(CAB_LIFETIME_SCHEDULE, not_before)
  IN CASE cap = {} -> "unknown"
       [] Exceeds(not_after - not_before, cap) -> "non_compliant"
       [] OTHER -> "compliant"

Verdict(not_before, not_after) ==
  LET span == not_after - not_before
      cap == InForce(CAB_LIFETIME_SCHEDULE, not_before)
      next == {rule \in next_cap_after(not_before) :
                 not_after >= Day * rule.from}
  IN CASE cap = {} -> "unknown"
       [] Exceeds(span, cap) -> "non_compliant"
       [] cap # {} /\ ~ Exceeds(span, cap) /\ Exceeds(span, next)
            -> "fails_at_next_renewal"
       [] OTHER -> "compliant"

(* Mutant: days are divided toward zero, so that the first day after the   *)
(* expiry still counts as day zero.                                        *)
DaysTowardZero(span) ==
  IF span < 0 THEN - ((- span) \div Day) ELSE span \div Day

Days(span) == span \div Day

audit_lifetime(not_before, not_after, now) ==
  [not_before |-> not_before,
   not_after |-> not_after,
   lifetime_days |-> Days(not_after - not_before),
   days_remaining |-> Days(not_after - now),
   verdict |-> Verdict(not_before, not_after),
   short_lived |->
     \E rule \in InForce(CAB_SHORT_LIVED_SCHEDULE, not_before) :
       not_after - not_before <= Day * rule.days,
   expired |-> now > not_after,
   not_yet_valid |-> now < not_before]

(* The tiers of the alarm: a fraction of the lifetime (one part in so      *)
(* many), no less than the floor and no more than the fixed number of days. *)
Critical == [part |-> 12, floor_days |-> 1, fixed_days |-> 7]
Warning == [part |-> 6, floor_days |-> 1, fixed_days |-> 14]
Notice == [part |-> 3, floor_days |-> 2, fixed_days |-> 30]

Reaches(lifetime, tier) ==
  LET total == IF lifetime.lifetime_days > 1 THEN lifetime.lifetime_days ELSE 1
      remaining == lifetime.days_remaining
  IN /\ remaining <= tier.fixed_days
     /\ remaining <= tier.floor_days \/ tier.part * remaining <= total

(* Mutant: the widest tier is tried first, and hides the others.           *)
WidestTierFirst(lifetime) ==
  CASE lifetime.expired -> "expired"
    [] ~ lifetime.expired /\ Reaches(lifetime, Notice) -> "notice"
    [] OTHER -> "ok"

(* The tightest tier reached.                                              *)
expiry_alert(lifetime) ==
  CASE lifetime.expired -> "expired"
    [] ~ lifetime.expired /\ Reaches(lifetime, Critical) -> "critical"
    [] /\ ~ lifetime.expired
       /\ Reaches(lifetime, Warning) /\ ~ Reaches(lifetime, Critical)
         -> "warning"
    [] /\ ~ lifetime.expired /\ Reaches(lifetime, Notice)
       /\ ~ Reaches(lifetime, Warning) /\ ~ Reaches(lifetime, Critical)
         -> "notice"
    [] OTHER -> "ok"

(* A key is [type, size] and, on a curve, [type, size, curve].             *)
WEAK_EC_CURVES == {"secp192r1", "prime192v1", "secp224r1", "sect233k1"}

WeakKey(key) ==
  \/ key.type = "rsa" /\ key.size < 2048
  \/ key.type = "ecdsa" /\ (key.size < 256 \/ key.curve \in WEAK_EC_CURVES)
  \/ key.type = "dsa"

WEAK_SIGNATURE_HASHES == {"md5", "sha1", "md2", "md4"}

(* The hash of a signature, if its algorithm has one of its own and the    *)
(* library knows it.                                                       *)
SignatureHash(wire) ==
  IF wire.signature_algorithm \in {"ed25519", "ed448"} THEN {} ELSE wire.signature_hash

(* Where a certificate says its revocation can be asked for, and where its *)
(* issuer can be had, which is no such source.                             *)
extract_revocation_endpoints(wire) ==
  [crl_urls |-> wire.crl_urls, ocsp_urls |-> wire.ocsp_urls,
   ca_issuer_urls |-> wire.ca_issuer_urls]

HasAnySource(endpoints) == endpoints.crl_urls \cup endpoints.ocsp_urls # {}

(* A name is a sequence of labels, its first perhaps "*".                  *)
match_dns_label(pattern, host) ==
  LET starred == {i \in DOMAIN pattern : pattern[i] = "*"}
  IN \/ starred = {} /\ pattern = host
     \/ /\ starred = {1} /\ Len(pattern) > 1
        /\ Len(host) = Len(pattern)
        /\ Tail(host) = Tail(pattern)

match_hostname(certificate, host) ==
  CASE certificate.san_dns = {} /\ certificate.san_ip = {} -> "no_san"
    [] certificate.san_dns \cup certificate.san_ip # {} /\
       (\/ host \in certificate.san_ip
        \/ \E name \in certificate.san_dns : match_dns_label(name, host))
         -> "match"
    [] OTHER -> "mismatch"

(* A certificate as it was parsed: `wire` is what the server sent.         *)
parse_certificate(wire, now) ==
  [lifetime |-> audit_lifetime(wire.not_before, wire.not_after, now),
   public_key |-> wire.public_key,
   weak_key |-> WeakKey(wire.public_key),
   signature_algorithm |-> wire.signature_algorithm,
   signature_weak |-> SignatureHash(wire) \cap WEAK_SIGNATURE_HASHES # {},
   san_dns |-> wire.san_dns,
   san_ip |-> wire.san_ip,
   has_any_source |-> HasAnySource(extract_revocation_endpoints(wire)),
   issuer |-> wire.issuer,
   fingerprints |-> wire.fingerprints,
   self_issued |-> wire.issuer = wire.subject]
================================================================================
