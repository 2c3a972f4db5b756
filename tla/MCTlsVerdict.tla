----------------------------- MODULE MCTlsVerdict ------------------------------
(* Two targets.  The first may turn out to be any of some forty endpoints,  *)
(* the second is always the same.                                          *)
EXTENDS TlsVerdict

CONSTANTS t1, t2

MCTargets == {t1, t2}
MCHostOf == [t \in MCTargets |-> <<"www", "example", "com">>]

(* Half days: 5872 is the first day of the cap of 200 days, 6602 that of    *)
(* the cap of 100; a certificate of six days from 5880 ends at 5892.       *)
MCInstants == {5880, 5892, 5893, 6602}

Rsa(size) == [type |-> "rsa", size |-> size]
Curve(size, name) == [type |-> "ecdsa", size |-> size, curve |-> name]

Wire(from, days) ==
  [not_before |-> from, not_after |-> from + 2 * days,
   public_key |-> Curve(256, "secp256r1"),
   signature_algorithm |-> "ecdsa-sha256", signature_hash |-> {"sha256"},
   san_dns |-> {<<"*", "example", "com">>}, san_ip |-> {},
   crl_urls |-> {"crl"}, ocsp_urls |-> {}, ca_issuer_urls |-> {"ca"}, issuer |-> "ca", subject |-> "www",
   fingerprints |-> {"pin"}]

Suite(words, bits, mode, flaws) ==
  [words |-> words, bits |-> bits, mode |-> mode, flaws |-> flaws]
Gcm13 == Suite({"AES", "GCM"}, {256}, "GCM", {})
Gcm == Suite({"ECDHE", "AES", "GCM"}, {256}, "GCM", {})
GcmSmall == Suite({"ECDHE", "AES", "GCM"}, {128}, "GCM", {})
Cbc == Suite({"AES"}, {128}, "CBC", {"non_forward_secret", "lucky13"})
TripleDes == Suite({"ECDHE", "DES"}, {56}, "CBC", {"sweet32", "lucky13"})
Rc4 == Suite({"RC4"}, {40}, "STREAM", {"rc4", "non_forward_secret"})
Export == Suite({"EXP", "RC4"}, {40}, "STREAM", {"export_grade", "freak", "rc4"})
Anon == Suite({"ADH", "AES"}, {128}, "CBC", {"anonymous_dh", "lucky13"})
Null == Suite({"NULL"}, {0}, "STREAM", {"null_encryption", "non_forward_secret"})
Odd == Suite({"SEED"}, {}, "CBC", {"lucky13"})

(* An old build of the library: it offers all but the last ones.           *)
MCLocalSuites == {Gcm, GcmSmall, Cbc, TripleDes, Rc4, Odd}
MCCipherA == GcmSmall
MCCipherB == Gcm

Modern ==
  [wire |-> {Wire(5872, 90)}, versions |-> {"TLS12", "TLS13"},
   suites |-> {Gcm}, suites13 |-> {Gcm13}, favourite |-> {}, dh |-> {},
   safe_prime |-> TRUE, groups |-> {"X25519"}, compression_methods |-> {"null"},
   silent |-> {}, chain |-> "complete", revoked |-> FALSE, garbled |-> FALSE,
   cipher |-> [name |-> "gcm", ephemeral |-> TRUE],
   samples |-> <<4, 9>>]

Old ==
  [Modern EXCEPT !.versions = {"TLS10", "TLS11", "TLS12"},
                 !.suites = {Cbc, Rc4}, !.dh = {2048}, !.groups = {},
                 !.wire = {[Wire(5872, 90) EXCEPT !.public_key = Rsa(4096)]},
                 !.cipher = [name |-> "cbc", ephemeral |-> FALSE]]

OutOfReach == [Modern EXCEPT !.versions = {}]

(* The lifetimes: six days, renewed at the end; a year from before the cap  *)
(* of 200 days, renewed under that of 100; 200 days that end when the cap   *)
(* of 100 begins, renewed then; and one from before the first cap.         *)
Lifetimes1 ==
  {Wire(5880, 6), Wire(5892, 6), Wire(5870, 398), Wire(6602, 398),
   Wire(5873, 190), Wire(6202, 200), Wire(6602, 200), Wire(-2, 3650)}

MCPresents ==
  [t \in MCTargets |->
     IF t = t1
     THEN {[Modern EXCEPT !.wire = {w}] : w \in Lifetimes1}
          \cup {[Modern EXCEPT !.wire = {[Wire(5872, 90) EXCEPT !.public_key = k]}] :
                  k \in {Rsa(1024), Curve(384, "secp384r1"),
                         [type |-> "ed448", size |-> 448],
                         [type |-> "unknown", size |-> 0]}}
          \cup {[Modern EXCEPT !.wire = {[Wire(5872, 90) EXCEPT !.san_dns = names]}] :
                  names \in {{}, {<<"example", "com">>}}}
          \cup {Modern, Old, OutOfReach,
                [Modern EXCEPT !.wire = {}],
                [Modern EXCEPT !.wire = {}, !.garbled = TRUE],
                [Modern EXCEPT !.wire = {[Wire(5872, 90) EXCEPT
                   !.subject = "ca", !.crl_urls = {}]}],
                [Modern EXCEPT !.revoked = TRUE],
                [Modern EXCEPT !.chain = "untrusted"],
                [Old EXCEPT !.versions = {"SSL3", "TLS10"}, !.suites = {Rc4}],
                [Old EXCEPT !.versions = {"TLS10"}, !.suites = {Rc4, Gcm}],
                [Old EXCEPT !.suites = {TripleDes, Gcm}, !.suites13 = {},
                            !.silent = {"versions", "vulnerabilities"}],
                [Modern EXCEPT !.versions = {"TLS12"}, !.suites = {Gcm, GcmSmall},
                               !.groups = {"SECP192R1"}, !.silent = {"extensions"}],
                [Modern EXCEPT !.versions = {"TLS13"}, !.suites = {},
                               !.groups = {"X25519", "SECP384R1"}],
                [Old EXCEPT !.suites = {Gcm, GcmSmall, Export, Anon},
                            !.favourite = {GcmSmall}, !.silent = {"dh_params"}],
                [Old EXCEPT !.versions = {"SSL2", "TLS12"}, !.suites = {Null, Gcm}],
                [Old EXCEPT !.suites = {Odd}, !.dh = {}],
                [Modern EXCEPT !.suites = {Gcm, TripleDes}],
                [Modern EXCEPT !.samples = <<5>>]}
     ELSE {[Modern EXCEPT !.samples = <<2, 3, 8>>]}]

Strict ==
  [PolicyConfig EXCEPT
     !.required = {"forward_secrecy", "revocation_source", "valid_chain"},
     !.min_tls_version = {"TLS12"}, !.min_days_remaining = {7},
     !.max_cert_lifetime_days = {398}, !.expected_issuer = {"ca"},
     !.expected_fingerprint = {"pin"}, !.expected_cipher = {"gcm"},
     !.expected_group = {"X25519"}]

Lenient ==
  [PolicyConfig EXCEPT !.allowed = {"hostname", "weak_key", "weak_signature",
                                    "deprecated_tls", "revoked"}]

(* The guidelines: a profile of TLS 1.3 only, one for most servers, and one *)
(* that asks for an order, as older editions do.                            *)
Profile ==
  [tls_versions |-> {"TLS13"}, ciphers |-> {}, ciphersuites |-> {Gcm13},
   ecdh_param_size |-> {256}, dh_param_size |-> {}, certificate_types |-> {"ecdsa"},
   certificate_curves |-> {"prime256v1", "secp384r1"},
   certificate_signatures |-> {"ecdsa-sha256"},
   maximum_certificate_lifespan |-> {90}, rsa_key_size |-> {},
   server_preferred_order |-> FALSE]

Guidelines ==
  [modern |-> Profile,
   intermediate |->
     [Profile EXCEPT !.tls_versions = {"TLS12", "TLS13"}, !.ciphers = {Gcm, GcmSmall},
                     !.dh_param_size = {2048}, !.certificate_types = {"ecdsa", "rsa"},
                     !.rsa_key_size = {2048}, !.maximum_certificate_lifespan = {366}],
   old |->
     [Profile EXCEPT !.tls_versions = {"TLS10", "TLS11", "TLS12", "TLS13"},
                     !.ciphers = MCLocalSuites, !.dh_param_size = {1024},
                     !.certificate_types = {"rsa"}, !.certificate_signatures = {},
                     !.rsa_key_size = {2048}, !.server_preferred_order = TRUE]]

MCFetched == {{}, {Guidelines}}

Threshold(metric, op, limit) == [metric |-> metric, op |-> op, limit |-> limit]

Everything ==
  [deep |-> TRUE, enumerate |-> TRUE, grade |-> TRUE, verify_chain |-> TRUE,
   check_revocation |-> TRUE, check_profiles |-> FALSE, requested_profiles |-> {},
   as_of |-> {}, policy |-> PolicyConfig,
   thresholds |-> {Threshold("max_handshake_ms", "<=", 8),
                   Threshold("success_rate", ">=", 100)}]

MCOptions ==
  {Everything,
   [Everything EXCEPT !.policy = Strict, !.check_profiles = TRUE, !.as_of = {5892},
      !.thresholds = {Threshold("cert_expiry_days", "<", 500),
                      Threshold("p95_handshake_ms", "<", 9)}],
   [Everything EXCEPT !.policy = Lenient, !.deep = FALSE, !.as_of = {5893},
      !.thresholds = {Threshold("std_latency", "<", 9)}]}

================================================================================
