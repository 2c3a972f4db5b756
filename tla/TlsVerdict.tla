------------------------------ MODULE TlsVerdict -------------------------------
(***************************************************************************)
(* A job that runs `ssl check` on its targets again and again, as time     *)
(* passes and certificates are renewed: what a handshake showed is parsed  *)
(* and graded (certificate.py, grading.py), judged by the policy           *)
(* (core.py), summed up for each target and held to the thresholds         *)
(* (analysis.py, cli.py of ssl_check).  The exit code is what the job sees. *)
(*                                                                         *)
(* Each result is also held against published server profiles, whose      *)
(* guidelines the engine of a run fetches once.                            *)
(*                                                                         *)
(* How the handshakes are scheduled is the matter of TlsEngine, how chain  *)
(* and revocation are found out that of TlsRevocation: here they are facts *)
(* of the endpoint.                                                        *)
(***************************************************************************)
EXTENDS TlsCertificate, TlsProfile, Thresholds

CONSTANTS
  Targets,
  HostOf,           \* the name each is checked under
  Presents,         \* the endpoints each may turn out to be
  Instants,         \* when something may happen
  Options,          \* the command lines
  Fetched,          \* what fetching the guidelines may give, if anything
  MinSamples        \* fewer handshakes give no percentiles

(* One of the instants is the first; an endpoint sends one leaf or none.   *)
ASSUME InstantsAssumption ==
  /\ Instants \subseteq Int
  /\ \E first \in Instants : \A at \in Instants : first <= at
ASSUME OptionsAssumption ==
  \A o \in Options :
    o.as_of \subseteq Int /\ \A th \in o.thresholds : th.limit \in Int
ASSUME PresentsAssumption ==
  \A t \in Targets : \A e \in Presents[t] : \A w \in e.wire :
    /\ w.not_before \in Int /\ w.not_after \in Int
    /\ \A v \in e.wire : v = w

(* An endpoint that was measured was measured at least once.               *)
ASSUME SamplesAssumption ==
  \A t \in Targets : \A e \in Presents[t] :
    /\ e.samples \in Seq(Int) /\ e.samples # << >>
    /\ \A i, j \in DOMAIN e.samples : i <= j => e.samples[i] <= e.samples[j]
ASSUME PercentilesAssumption == MinSamples \in Nat

(* An endpoint has one Diffie-Hellman group or none, its versions are known *)
(* to the grade, and the key of its leaf has a size.                       *)
AtMostOne(S) == \A x, y \in S : x = y

EndpointFields ==
  {"wire", "versions", "suites", "suites13", "favourite", "dh", "safe_prime", "groups",
   "compression_methods", "silent", "chain", "revoked", "garbled", "cipher", "samples"}

WireFields ==
  {"not_before", "not_after", "public_key", "signature_algorithm", "signature_hash",
   "san_dns", "san_ip", "crl_urls", "ocsp_urls", "ca_issuer_urls", "issuer", "subject",
   "fingerprints"}

ASSUME EndpointsAssumption ==
  \A t \in Targets : \A e \in Presents[t] :
    /\ EndpointFields \subseteq DOMAIN e
    /\ e.versions \subseteq DOMAIN PROTOCOL_SCORE
    /\ e.dh \subseteq Int /\ AtMostOne(e.dh)
    /\ \A w \in e.wire :
         /\ WireFields \subseteq DOMAIN w
         /\ w.public_key.size \in Int

(* Bits are those that can be read off a name; TLS 1.3 has suites of AES   *)
(* and of ChaCha20 only, all of them AEAD.                                 *)
ASSUME SuitesAssumption ==
  /\ \A c \in LocalSuites : c.bits \subseteq CIPHER_BITS /\ AtMostOne(c.bits)
  /\ \A t \in Targets : \A e \in Presents[t] : \A c \in e.suites13 :
       is_aead(c) /\ "RC4" \notin c.words /\ c.bits \subseteq {128, 256}

(* A profile that judges curves judges types of keys, and one that lets RSA *)
(* pass asks for a key of more than 1024 bits; none lets SHA-1 pass.       *)
ASSUME GuidelinesAssumption ==
  \A guide \in UNION Fetched : \A name \in DOMAIN guide :
    /\ guide[name].certificate_types = {} => guide[name].certificate_curves = {}
    /\ "rsa" \in guide[name].certificate_types
         => \E bits \in guide[name].rsa_key_size : bits > 1024
    /\ "sha1" \notin guide[name].certificate_signatures
    /\ guide[name].rsa_key_size \subseteq Int /\ guide[name].dh_param_size \subseteq Int

VARIABLES
  now,
  options,    \* the command line of every run
  result,     \* of each target, its last result (a set of at most one)
  guidelines, \* of the engine: whether they were fetched, and what it holds
  checked,    \* the targets the run under way has results of
  stage,      \* of the command: idle, checking, judging or gating
  ended       \* how the last run ended, unless one is under way

vars == <<now, options, result, guidelines, checked, stage, ended>>

ORDER == [SSL3 |-> 0, TLS10 |-> 1, TLS11 |-> 2, TLS12 |-> 3, TLS13 |-> 4]

(* What the local library offers unasked it also negotiates when pinned.   *)
ASSUME VersionsAssumption ==
  ClientVersions \subseteq PinnableVersions /\ PinnableVersions \subseteq DOMAIN ORDER

(* An endpoint that is out of reach offers no version.                     *)
Negotiable(e) == {v \in ClientVersions : Handshakes(e, {v}, LocalSuites)}

Negotiated(e) ==
  CHOOSE v \in Negotiable(e) :
    \A w \in Negotiable(e) : ORDER[w] <= ORDER[v]

(* Every suite of TLS 1.3 is ephemeral; of others the name tells.           *)
detect_forward_secrecy(version, cipher) == version = "TLS13" \/ cipher.ephemeral

Unmeasured(at) ==
  [measured |-> FALSE, at |-> at, seen |-> {}, samples |-> << >>,
   certificate |-> {}, alert |-> "unknown",
   enumeration |-> NotEnumerated, cipher_preference |-> {},
   deep |-> NotIntrospected, grade |-> Ungraded, profile_audit |-> NoAudit,
   compliant |-> {}, failures |-> {}]

(* What a handshake with the endpoint shows, as of `at`.                   *)
Observed(t, e, at) ==
  LET info == {parse_certificate(wire, at) : wire \in e.wire}
  IN [measured |-> TRUE,
      at |-> at,
      seen |-> {e},
      samples |-> e.samples,
      tls_version |-> Negotiated(e),
      forward_secrecy |-> detect_forward_secrecy(Negotiated(e), e.cipher),
      cipher |-> e.cipher,
      offered_none |-> e.wire = {} /\ ~ e.garbled,
      certificate |-> info,
      hostname_match |->
        IF info = {} THEN "not_checked"
        ELSE LET c == CHOOSE c \in info : TRUE IN match_hostname(c, HostOf[t]),
      alert |->
        IF info = {} THEN "unknown"
        ELSE LET c == CHOOSE c \in info : TRUE IN expiry_alert(c.lifetime),
      chain_audit |->
        [attempted |-> options.verify_chain,
         verified |-> options.verify_chain /\ e.chain # "untrusted",
         missing_intermediate |-> options.verify_chain /\ e.chain = "incomplete"],
      revoked |-> options.check_revocation /\ e.revoked,
      enumeration |-> NotEnumerated,
      cipher_preference |-> {},
      deep |-> NotIntrospected,
      grade |-> Ungraded,
      profile_audit |-> NoAudit,
      compliant |-> {},
      failures |-> {}]

(* Further handshakes, whether or not the first ones succeeded.            *)
Scanned(r, e) ==
  [r EXCEPT
     !.enumeration = IF options.enumerate THEN enumerate_protocol(e) ELSE @,
     !.cipher_preference =
        IF options.enumerate THEN detect_cipher_preference(e) ELSE @,
     !.deep = IF options.deep THEN probe_deep_introspection(e) ELSE @]

Graded(r) ==
  IF options.grade THEN [r EXCEPT !.grade = grade_certificate(r)] ELSE r

(* The error is that of the engine, whether or not the check then came by  *)
(* guidelines of its own.                                                  *)
Profiled(r, found, error) ==
  LET audit == check_mozilla_profiles(r, found, options.requested_profiles)
  IN IF options.check_profiles
     THEN [r EXCEPT !.profile_audit = [audit EXCEPT !.error = error]]
     ELSE r

(* The instant certificates are held against: that of the command line, or *)
(* the present.                                                            *)
AsOf == IF options.as_of # {} THEN CHOOSE at \in options.as_of : TRUE ELSE now

Result(t, e) ==
  LET handshake == IF Negotiable(e) = {} THEN Unmeasured(AsOf)
                   ELSE Observed(t, e, AsOf)
  IN Graded(Scanned(handshake, e))

(* A policy unless the command line says otherwise: `allowed` is what it   *)
(* lets pass, `required` what it asks for; limits and expected values may  *)
(* be missing.                                                             *)
PolicyConfig ==
  [allowed |-> {}, required |-> {}, min_tls_version |-> {},
   min_days_remaining |-> {}, max_cert_lifetime_days |-> {},
   expected_issuer |-> {}, expected_fingerprint |-> {},
   expected_cipher |-> {}, expected_group |-> {}]

(* What the policy holds against the connection, and what against the      *)
(* certificate.                                                            *)
ConnectionFailures(r, policy) ==
  LET fails ==
        [deprecated_tls |->
           /\ "deprecated_tls" \notin policy.allowed
           /\ ORDER[r.tls_version] <= ORDER["TLS11"],
         tls_below_floor |->
           \E floor \in policy.min_tls_version : ORDER[r.tls_version] < ORDER[floor],
         no_forward_secrecy |->
           "forward_secrecy" \in policy.required /\ ~ r.forward_secrecy,
         hostname |->
           /\ "hostname" \notin policy.allowed
           /\ r.hostname_match \notin {"match", "not_checked"},
         no_certificate |-> r.certificate = {} /\ r.offered_none]
  IN {f \in DOMAIN fails : fails[f]}

CertificateFailures(r, c, policy) ==
  LET fails ==
        [weak_key |-> "weak_key" \notin policy.allowed /\ c.weak_key,
         weak_signature |->
           "weak_signature" \notin policy.allowed /\ c.signature_weak,
         expired |-> c.lifetime.expired,
         not_yet_valid |-> c.lifetime.not_yet_valid,
         days_remaining |->
           \E days \in policy.min_days_remaining :
             c.lifetime.days_remaining < days,
         lifetime |->
           \E days \in policy.max_cert_lifetime_days :
             c.lifetime.lifetime_days > days,
         issuer |-> \E name \in policy.expected_issuer : c.issuer # name,
         fingerprint |->
           policy.expected_fingerprint # {} /\
           policy.expected_fingerprint \cap c.fingerprints = {},
         cipher |-> \E name \in policy.expected_cipher : r.cipher.name # name,
         group |->
           \E group \in policy.expected_group :
             ~ r.deep.scanned \/ group \notin r.deep.groups,
         no_revocation_source |->
           /\ "revocation_source" \in policy.required
           /\ ~ c.has_any_source
           /\ ~ c.lifetime.short_lived,
         invalid_chain |->
           /\ "valid_chain" \in policy.required
           /\ r.chain_audit.attempted
           /\ ~ r.chain_audit.verified,
         revoked |-> "revoked" \notin policy.allowed /\ r.revoked]
  IN {f \in DOMAIN fails : fails[f]}

PolicyFailures(r, policy) ==
  ConnectionFailures(r, policy)
    \cup UNION {CertificateFailures(r, c, policy) : c \in r.certificate}

(* A result that was not measured is not judged.                           *)
evaluate_policy(r, policy) ==
  IF ~ r.measured THEN r
  ELSE [r EXCEPT !.failures = PolicyFailures(r, policy),
                 !.compliant = {PolicyFailures(r, policy) = {}}]

(* The metrics of a target, whose checks are the one of this run.  Samples *)
(* are in ascending order; a percentile is interpolated, in twentieths.    *)
Percentile95(samples) ==
  LET at == 19 * (Len(samples) - 1)
      below == samples[1 + at \div 20]
      above == samples[IF 1 + at \div 20 < Len(samples)
                       THEN 2 + at \div 20 ELSE Len(samples)]
  IN <<20 * below + (at % 20) * (above - below), 20>>

Refused(r) == r.measured /\ Len(r.samples) < MinSamples

(* Share of the checks, or of the certificates seen, of which it is so.    *)
Rate(so, of) == IF of THEN <<IF so THEN 100 ELSE 0, 1>> ELSE <<0, 1>>

Statistics(r) ==
  LET n == Len(r.samples)
      lowest == IF n = 0 THEN <<0, 1>> ELSE <<r.samples[1], 1>>
      highest == IF n = 0 THEN <<0, 1>> ELSE <<r.samples[n], 1>>
      p95 == IF n = 0 \/ Refused(r) THEN <<0, 1>> ELSE Percentile95(r.samples)
      successful == IF r.compliant # {} THEN r.compliant = {TRUE} ELSE r.measured
      Of(test(_)) == Rate(\E c \in r.certificate : test(c), r.certificate # {})
  IN [measured_checks |-> <<IF r.measured THEN 1 ELSE 0, 1>>,
      success_rate |-> Rate(successful, TRUE),
      failure_rate |-> Rate(~ successful, TRUE),
      min_latency |-> lowest, min_handshake_ms |-> lowest,
      max_latency |-> highest, max_handshake_ms |-> highest,
      p95_latency |-> p95, p95_handshake_ms |-> p95,
      tls13_rate |-> Rate(r.measured /\ r.tls_version = "TLS13", r.measured),
      hostname_match_rate |->
        Rate(r.measured /\ r.hostname_match = "match",
             r.certificate # {}),
      expired_rate |-> Of(LAMBDA c : c.lifetime.expired),
      weak_key_rate |-> Of(LAMBDA c : c.weak_key),
      lifetime_fails_next_renewal_rate |->
        Of(LAMBDA c : c.lifetime.verdict = "fails_at_next_renewal"),
      cert_expiry_days |->
        IF r.certificate = {} THEN <<0, 1>>
        ELSE LET c == CHOOSE c \in r.certificate : TRUE
             IN <<c.lifetime.days_remaining, 1>>]

SSL_SAMPLE_DEPENDENT_METRICS ==
  {"min_handshake_ms", "max_handshake_ms", "p95_handshake_ms"}

MetricNames == DOMAIN Statistics(Unmeasured(0))

(* Mutant: metrics are dropped only when their percentiles are refused.    *)
MissingWhenRefused(r) ==
  IF Refused(r) THEN {"p95_latency", "p95_handshake_ms"} ELSE {}

Missing(r) ==
  (IF r.measured THEN {} ELSE SSL_SAMPLE_DEPENDENT_METRICS)
  \cup (IF Refused(r) THEN {"p95_latency", "p95_handshake_ms"} ELSE {})
  \cup (IF r.certificate = {} THEN {"cert_expiry_days"} ELSE {})

Namespace(r) == Without(Statistics(r), Missing(r))

(* The label of the expiry timeline a result is listed under.              *)
TimelineBucket(c) ==
  LET edges == {edge \in {0, 7, 14, 30, 60, 90} : c.lifetime.days_remaining < edge}
  IN IF edges = {} THEN 91 ELSE Min(edges)
--------------------------------------------------------------------------------
Init ==
  /\ now = Min(Instants)
  /\ options \in Options
  /\ result = [t \in Targets |-> {}]
  /\ guidelines = [fetched |-> FALSE, held |-> {}]
  /\ checked = {}
  /\ stage = "idle"
  /\ ended = {}

Launch ==
  /\ stage = "idle"
  /\ stage' = "checking"
  /\ checked' = {}
  /\ ended' = {}
  /\ guidelines' = [fetched |-> FALSE, held |-> {}]
  /\ UNCHANGED <<now, options, result>>

(* The endpoint found at t, which need not be the one found before.  The   *)
(* first check fetches the guidelines for the whole run, if they are asked *)
(* for; when it got none, each check fetches some for itself.              *)
Check(t) ==
  /\ stage = "checking"
  /\ t \notin checked
  /\ \/ /\ options.check_profiles /\ ~ guidelines.fetched
        /\ \E held \in Fetched : guidelines' = [fetched |-> TRUE, held |-> held]
     \/ /\ ~ options.check_profiles \/ guidelines.fetched
        /\ UNCHANGED guidelines
  /\ \E e \in Presents[t] :
     \E own \in IF guidelines'.fetched /\ guidelines'.held = {}
                THEN Fetched ELSE {guidelines'.held} :
       result' = [result EXCEPT ![t] = {Profiled(Result(t, e), own, guidelines'.held = {})}]
  /\ checked' = checked \cup {t}
  /\ UNCHANGED <<now, options, stage, ended>>

Judge ==
  /\ stage = "checking"
  /\ checked = Targets
  /\ result' = [t \in Targets |->
                  {evaluate_policy(r, options.policy) : r \in result[t]}]
  /\ stage' = "gating"
  /\ UNCHANGED <<now, options, guidelines, checked, ended>>

(* The exit codes: 0 when passed or interrupted, 1 when failed or broken,  *)
(* 2 for an error of usage.                                                *)
Ends(how) ==
  /\ stage' = "idle"
  /\ ended' = {how}
  /\ UNCHANGED <<now, options, result, guidelines, checked>>

(* The thresholds are read only now: a metric of no known name is an error *)
(* of usage, found after the whole run.                                    *)
Usage == \E th \in options.thresholds : th.metric \notin MetricNames

Passed == \A t \in Targets : \A r \in result[t] :
            AllPass(options.thresholds, Namespace(r))

Gate ==
  /\ stage = "gating"
  /\ Ends(IF Usage THEN "usage" ELSE IF Passed THEN "passed" ELSE "failed")

(* Ctrl-C ends the command as if it had passed.                            *)
Interrupt ==
  /\ stage # "idle"
  /\ Ends("interrupted")

(* An error of the engine, or of an export once the thresholds were read.  *)
Break ==
  /\ stage = "checking" \/ (stage = "gating" /\ ~ Usage)
  /\ Ends("broken")

(* A run takes no half day.                                                *)
Later ==
  /\ stage = "idle"
  /\ \E at \in Instants :
       /\ at > now
       /\ \A sooner \in Instants : sooner > now => at <= sooner
       /\ now' = at
  /\ UNCHANGED <<options, result, guidelines, checked, stage, ended>>

Next ==
  \/ Launch
  \/ \E t \in Targets : Check(t)
  \/ Judge
  \/ Gate
  \/ Interrupt
  \/ Break
  \/ Later

Spec == Init /\ [][Next]_vars
--------------------------------------------------------------------------------
TypeOK ==
  /\ now \in Instants
  /\ options \in Options
  /\ checked \subseteq Targets
  /\ stage \in {"idle", "checking", "gating"}
  /\ ended \subseteq {"passed", "failed", "usage", "interrupted", "broken"}

(* Whether a certificate is expired is told in four places, by comparing   *)
(* instants (the flag, the alarm, the grade) and by days counted down (the *)
(* timeline and the metrics): all tell the same, on the last day too.      *)
ExpiryViewsAgree ==
  /\ TypeOK
  /\ \A t \in Targets : \A r \in result[t] : \A c \in r.certificate :
       /\ c.lifetime.expired <=> r.alert = "expired"
       /\ c.lifetime.expired <=> c.lifetime.days_remaining < 0
       /\ c.lifetime.expired <=> TimelineBucket(c) = 0
       /\ r.compliant # {} => (c.lifetime.expired <=> "expired" \in r.failures)

SEVERITY ==
  [unknown |-> -1, ok |-> 0, notice |-> 1, warning |-> 2, critical |-> 3,
   expired |-> 4]

Lifetimes(r) == {c.lifetime : c \in r.certificate}

(* The alarm about a certificate never abates while time passes, and a     *)
(* check a day before one that finds it expired has called it critical:    *)
(* however short its life, nobody who checks daily is taken by surprise.   *)
AlarmsInTime ==
  [][\A t \in Targets : \A r \in result[t], q \in result'[t] :
      \A l \in Lifetimes(r), k \in Lifetimes(q) :
        (/\ l.not_before = k.not_before
         /\ l.not_after = k.not_after
         /\ r.at <= q.at)
        => /\ SEVERITY[r.alert] <= SEVERITY[q.alert]
           /\ (q.alert = "expired" /\ q.at <= r.at + Day)
                => r.alert \in {"critical", "expired"}]_vars

Renewed(l, k) ==
  /\ k.not_before >= l.not_before
  /\ k.not_after - k.not_before = l.not_after - l.not_before

(* A certificate found compliant can be renewed for as long before it      *)
(* expires: the renewed one is within the cap of its day of issue, though  *)
(* several caps may begin meanwhile.  One said to fail at its next renewal *)
(* does fail, if it is renewed for as long once it has expired.            *)
RenewalIsForetold ==
  [][\A t \in Targets : \A r \in result[t], q \in result'[t] :
      \A l \in Lifetimes(r), k \in Lifetimes(q) :
        Renewed(l, k)
        => /\ (l.verdict = "compliant" /\ k.not_before <= l.not_after)
                => k.verdict \in {"compliant", "fails_at_next_renewal"}
           /\ (l.verdict = "fails_at_next_renewal" /\ k.not_before >= l.not_after)
                => k.verdict = "non_compliant"]_vars

OutrightFailures ==
  {"weak_key", "weak_signature", "expired", "not_yet_valid", "revoked"}

GradeFollowsPolicy(r) ==
  (options.grade /\ r.compliant # {} /\ r.certificate # {})
  => /\ r.failures \cap OutrightFailures # {} => r.grade \in {F, T, M}
     /\ r.grade = M
          => "hostname" \in r.failures \cup options.policy.allowed
     /\ r.grade = T
          => \/ \E c \in r.certificate : c.self_issued
             \/ "revoked" \in r.failures \cup options.policy.allowed
             \/ "invalid_chain" \in r.failures
             \/ "valid_chain" \notin options.policy.required

(* A server that is said to have no order of its own accepts both suites   *)
(* and follows the client.  That it has one is said of more servers than   *)
(* have: nothing is claimed of it here.                                    *)
DisorderIsReal(r, e) ==
  r.cipher_preference = {FALSE} =>
    /\ Accepts(e, CipherA) /\ Accepts(e, CipherB)
    /\ e.favourite \cap {CipherA, CipherB} = {}

(* The policy and the grade judge the same facts of the certificate apart: *)
(* what the policy rejects outright is never graded better than F, and a   *)
(* name mismatch or an untrusted chain that is graded as such fails the    *)
(* policy that asks about it.  The targets of one run are held to the same *)
(* guidelines, unless their audits say that something was wrong, and none  *)
(* is held to be without an order of suites that has one.                  *)
JudgementsAgree ==
  \A t \in Targets : \A r \in result[t] :
    /\ GradeFollowsPolicy(r)
    /\ \A e \in r.seen : DisorderIsReal(r, e)
    /\ (t \in checked /\ options.check_profiles /\ ~ r.profile_audit.error)
         => r.profile_audit =
              check_mozilla_profiles(r, guidelines.held, options.requested_profiles)

(* The suites of any endpoint that are no stronger than one the local      *)
(* library and this endpoint agree on already.                             *)
WeakerSuites(e) ==
  LET accepted == {d \in LocalSuites : Accepts(e, d)}
  IN {c \in UNION {x.suites : x \in UNION {Presents[t] : t \in Targets}} :
        /\ ~ is_aead(c)
        /\ \E d \in accepted : "RC4" \notin d.words
        /\ \E b \in c.bits, d \in Bits(accepted) : b <= d}

(* The ways an endpoint may become weaker: a version older than its newest,*)
(* a smaller group, a lost intermediate, compression, one more suite, and  *)
(* a weaker leaf.  The probes that fail stay the same.                     *)
Outmoded(e) ==
  {[e EXCEPT !.versions = @ \cup {v}] :
     v \in {u \in DOMAIN PROTOCOL_SCORE :
              \E x \in Negotiable(e) : PROTOCOL_SCORE[u] < PROTOCOL_SCORE[x]}}

Shrunk(e) ==
  {[e EXCEPT !.dh = {size}] :
     size \in {s \in {512, 1024, 2048} : \E d \in e.dh : s < d}}

Exposed(e) ==
  {[e EXCEPT !.chain = "incomplete"] : complete \in {"complete"} \cap {e.chain}}
  \cup {[e EXCEPT !.chain = "untrusted"], [e EXCEPT !.safe_prime = FALSE],
        [e EXCEPT !.compression_methods = @ \cup {"deflate"}],
        [e EXCEPT !.revoked = TRUE]}

Widened(e) == {[e EXCEPT !.suites = @ \cup {c}] : c \in WeakerSuites(e)}

Resigned(wire) == [wire EXCEPT !.signature_hash = {"sha1"}, !.signature_algorithm = "sha1"]
Rekeyed(wire) == [wire EXCEPT !.public_key = [type |-> "rsa", size |-> 1024]]

Releafed(e) ==
  {[e EXCEPT !.wire = {Resigned(wire) : wire \in e.wire}],
   [e EXCEPT !.wire = {Rekeyed(wire) : wire \in e.wire}]}

Weakened(e) ==
  Outmoded(e) \cup Shrunk(e) \cup Exposed(e) \cup Widened(e) \cup Releafed(e)

(* What a profile holds against the endpoint; that it lacks a version may  *)
(* be mended by one.                                                       *)
Lapses(profile, r) == Violations(profile, r) \ {"missing_version"}

NoBetter(weak, r) ==
  LET Weaker(a, b) == \A x \in a : \E y \in b : y <= x
  IN /\ (r.grade # Ungraded /\ weak.grade # Ungraded) => weak.grade >= r.grade
     /\ r.compliant = {FALSE}
          => evaluate_policy(weak, options.policy).compliant = {FALSE}
     /\ r.deep.weak_dh = {TRUE} => weak.deep.weak_dh = {TRUE}
     /\ Weaker(weakest_supported_cipher_strength(r.enumeration),
               weakest_supported_cipher_strength(weak.enumeration))
     /\ \A guide \in UNION Fetched : \A name \in DOMAIN guide :
          Lapses(guide[name], r) # {} => Lapses(guide[name], weak) # {}

(* A weaker endpoint never gets a better grade, nor passes a policy or a   *)
(* profile the stronger one failed, nor are its suites rated better: the   *)
(* ceilings, the scores and the early verdicts can come in any combination *)
(* and none offsets another, and a flaw is found by what it needs.         *)
WeakeningNeverHelps ==
  stage = "gating" => \A t \in Targets : \A r \in result[t] : \A e \in r.seen :
    \A w \in Weakened(e) :
      NoBetter(Graded(Scanned(Observed(t, w, r.at), w)), r)

(* A run that passed has earned it: every handshake of every target is     *)
(* under a ceiling on the largest one, a percentile was taken of as many   *)
(* as it needs, a certificate was seen where its days are asked for, and   *)
(* with a full success rate every target was measured and found compliant. *)
GateIsEarned ==
  ended = {"passed"}
  => \A t \in Targets : \A r \in result[t], th \in options.thresholds :
       /\ th.metric \in SSL_SAMPLE_DEPENDENT_METRICS => r.samples # << >>
       /\ (th.metric \in {"p95_latency", "p95_handshake_ms"} /\ r.measured)
            => Len(r.samples) >= MinSamples
       /\ (th.metric = "max_handshake_ms" /\ th.op = "<=")
            => \A i \in DOMAIN r.samples : r.samples[i] <= th.limit
       /\ th.metric = "cert_expiry_days" => r.certificate # {}
       /\ (th.metric = "success_rate" /\ th.op = ">=" /\ th.limit = 100)
            => r.compliant = {TRUE}
================================================================================
