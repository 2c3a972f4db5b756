------------------------------ MODULE TlsProfile -------------------------------
(***************************************************************************)
(* Whether a TLS endpoint keeps to a published server profile              *)
(* (ssl_check/mozilla_profile.py): what a check collected is held against  *)
(* each field of the profile that can be judged from it.                   *)
(*                                                                         *)
(* A field that a profile leaves out, or that sets no limit, is empty.     *)
(***************************************************************************)
EXTENDS TlsGrade

(* One curve has another name in the guidelines.                           *)
CurveNames(name) ==
  {name} \cup (IF name = "secp256r1" THEN {"prime256v1"} ELSE {})

NATIVE_CURVE_BITS ==
  [SECP521R1 |-> 521, SECP384R1 |-> 384, X448 |-> 448, SECP256R1 |-> 256,
   X25519 |-> 256]

(* The versions offered beyond those of the profile, and those it lacks.   *)
VersionViolations(profile, r) ==
  LET fails ==
        [extra_version |-> Versions(r) \ profile.tls_versions # {},
         missing_version |->
           Versions(r) # {} /\ profile.tls_versions \ Versions(r) # {}]
  IN {f \in DOMAIN fails : fails[f]}

(* A profile that lists no suites, because it allows TLS 1.3 only, judges  *)
(* none.                                                                   *)
CipherViolations(profile, r) ==
  LET fails ==
        [ciphers |->
           profile.ciphers # {} /\ r.enumeration.ciphers \ profile.ciphers # {},
         ciphersuites |->
           profile.ciphersuites # {} /\ r.deep.ciphers \ profile.ciphersuites # {},
         server_preferred_order |->
           profile.server_preferred_order /\ r.cipher_preference = {FALSE}]
  IN {f \in DOMAIN fails : fails[f]}

(* The weakest group of a known size, and the size of the group of the     *)
(* server.                                                                 *)
GroupViolations(profile, r) ==
  LET known == r.deep.groups \cap DOMAIN NATIVE_CURVE_BITS
      fails ==
        [ecdh_param_size |->
           \E bits \in profile.ecdh_param_size, g \in known :
             NATIVE_CURVE_BITS[g] < bits,
         dh_param_size |->
           \E bits \in profile.dh_param_size, size \in r.deep.dh : size < bits]
  IN {f \in DOMAIN fails : fails[f]}

CertificateViolations(profile, c) ==
  LET key == c.public_key
      fails ==
        [certificate_types |->
           profile.certificate_types # {} /\ key.type \notin profile.certificate_types,
         certificate_curves |->
           /\ profile.certificate_curves # {}
           /\ key.type = "ecdsa"
           /\ CurveNames(key.curve) \cap profile.certificate_curves = {},
         certificate_signatures |->
           /\ profile.certificate_signatures # {}
           /\ c.signature_algorithm \notin profile.certificate_signatures,
         maximum_certificate_lifespan |->
           \E days \in profile.maximum_certificate_lifespan :
             c.lifetime.lifetime_days > days,
         rsa_key_size |->
           /\ profile.certificate_types # {}
           /\ key.type = "rsa"
           /\ \E bits \in profile.rsa_key_size : key.size < bits]
  IN {f \in DOMAIN fails : fails[f]}

Violations(profile, r) ==
  VersionViolations(profile, r)
  \cup CipherViolations(profile, r)
  \cup GroupViolations(profile, r)
  \cup UNION {CertificateViolations(profile, c) : c \in r.certificate}

(* Whether there was anything to judge.                                    *)
EvaluatedAnything(profile, r) ==
  \/ Versions(r) # {}
  \/ profile.ciphers # {} /\ r.enumeration.attempted
  \/ profile.ciphersuites # {} /\ r.deep.ciphers # {}
  \/ profile.ecdh_param_size # {} /\ r.deep.groups # {}
  \/ profile.dh_param_size # {} /\ r.deep.dh # {}
  \/ r.certificate # {}
  \/ profile.server_preferred_order /\ r.cipher_preference # {}

NotJudged == [compliant |-> {}, violations |-> {}]

evaluate_profile(profile, r) ==
  IF EvaluatedAnything(profile, r)
  THEN [compliant |-> {Violations(profile, r) = {}},
        violations |-> Violations(profile, r)]
  ELSE NotJudged

(* The audit of a result by the profiles requested, or all there are; one  *)
(* the guidelines do not hold is not judged.  Without guidelines there is  *)
(* an error and nothing else.                                              *)
check_mozilla_profiles(r, guidelines, requested) ==
  LET Audit(profiles) ==
        [name \in IF requested = {} THEN DOMAIN profiles ELSE requested |->
           IF name \in DOMAIN profiles THEN evaluate_profile(profiles[name], r)
           ELSE NotJudged]
  IN [error |-> guidelines = {}, results |-> {Audit(p) : p \in guidelines}]

NoAudit == [error |-> FALSE, results |-> {}]
================================================================================
