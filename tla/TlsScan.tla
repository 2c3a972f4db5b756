-------------------------------- MODULE TlsScan --------------------------------
(***************************************************************************)
(* What further handshakes tell of a TLS endpoint: the versions and cipher *)
(* suites it accepts and whether it goes by an order of its own            *)
(* (ssl_check/enumeration.py), and what the probes of CryptoLyzer find,    *)
(* each of which may fail alone (deep_introspection.py).                   *)
(*                                                                         *)
(* An endpoint e accepts e.versions, e.suites up to TLS 1.2 and            *)
(* e.suites13, insists on e.favourite, uses the named e.groups and the     *)
(* group e.dh, and leaves the probes e.silent without an answer.  A suite  *)
(* is the words its name is made of, the bits read off the name, its mode, *)
(* and the flaws CryptoLyzer lists it under.                               *)
(*                                                                         *)
(* Here and in the modules on top, what may be missing is a set of at most *)
(* one.                                                                    *)
(***************************************************************************)
EXTENDS Integers, Sequences, FiniteSetsExt

CONSTANTS
  ClientVersions,   \* what the local TLS library negotiates unasked
  PinnableVersions, \* and what it negotiates when pinned to it
  LocalSuites,      \* the suites up to TLS 1.2 it offers by default
  CipherA, CipherB  \* the two whose order is tried

ASSUME PreferenceAssumption == CipherA # CipherB

(* What grading and rating take for an AEAD suite, by the name.            *)
is_aead(c) == c.words \cap {"GCM", "CHACHA20", "POLY1305", "CCM"} # {}

(* The suites an endpoint accepts at a version: AEAD came with TLS 1.2.    *)
Suites(e, v) ==
  {c \in IF v = "TLS13" THEN e.suites13 ELSE e.suites :
     v \in e.versions /\ (is_aead(c) => v \in {"TLS12", "TLS13"})}

(* A handshake with the versions and suites offered; the suites of TLS 1.3 *)
(* cannot be withheld.                                                     *)
Handshakes(e, versions, offered) ==
  \E v \in versions : \E c \in Suites(e, v) : v = "TLS13" \/ c \in offered

(* Whether the endpoint accepts a suite offered alone and below TLS 1.3.   *)
Accepts(e, c) == Handshakes(e, ClientVersions \ {"TLS13"}, {c})
--------------------------------------------------------------------------------
(* The words of a suite's name are tried in this order.                    *)
rate_cipher_strength(c) ==
  LET broken == {"NULL", "EXPORT", "EXP", "ADH", "AECDH", "ANON"}
      weak == {"RC4", "MD5", "DES"}
      forward == {"ECDHE", "DHE", "EDH"}
  IN CASE c.words \cap broken # {} -> "F"
       [] c.words \cap broken = {} /\ c.words \cap weak # {} -> "C"
       [] /\ c.words \cap (broken \cup weak) = {}
          /\ c.words \cap forward # {}
          /\ is_aead(c) -> "A"
       [] OTHER -> "B"

STRENGTH_ORDER == [F |-> 0, C |-> 1, B |-> 2, A |-> 3]

weakest_supported_cipher_strength(enumeration) ==
  LET order == {STRENGTH_ORDER[rate_cipher_strength(c)] : c \in enumeration.ciphers}
  IN IF order = {} THEN {} ELSE {Min(order)}

NotEnumerated == [attempted |-> FALSE, versions |-> {}, ciphers |-> {}]

(* One handshake for each version, pinned to it, then one for each suite.  *)
enumerate_protocol(e) ==
  [attempted |-> TRUE,
   versions |-> {v \in PinnableVersions : Handshakes(e, {v}, LocalSuites)},
   ciphers |-> {c \in LocalSuites : Accepts(e, c)}]

(* What is agreed upon when suites are offered in an order.                *)
Agreed(e, offered) ==
  LET accepted == {i \in DOMAIN offered : Accepts(e, offered[i])}
  IN IF accepted = {} THEN {}
     ELSE IF \E i \in accepted : offered[i] \in e.favourite
     THEN e.favourite ELSE {offered[Min(accepted)]}

(* Whether the server goes by its own order: the same suite whichever is   *)
(* offered first, and the second one accepted alone too.                   *)
detect_cipher_preference(e) ==
  LET with_a_first == Agreed(e, <<CipherA, CipherB>>)
      with_b_first == Agreed(e, <<CipherB, CipherA>>)
      alone == Agreed(e, <<CipherB>>)
  IN IF {} \in {with_a_first, with_b_first} THEN {}
     ELSE IF with_a_first # with_b_first THEN {FALSE}
     ELSE {TRUE : confirmed \in alone}
--------------------------------------------------------------------------------
(* A probe that fails, or does not reach the port, learns nothing.         *)
Learned(e, probe, found, nothing) == IF probe \in e.silent THEN nothing ELSE found

NamedGroups(e) == Learned(e, "named_groups", e.groups, {})

(* A group is weak that is small or not of a safe prime.                   *)
WeakGroup(bits, safe_prime) == bits < 2048 \/ ~ safe_prime

DHParams(e) ==
  LET size == Learned(e, "dh_params", e.dh, {})
  IN [size |-> size, weak |-> {WeakGroup(bits, e.safe_prime) : bits \in size}]

CompressionMethods(e) == Learned(e, "extensions", e.compression_methods, {})

(* Any method but "null" is compression; with no method heard of, nothing  *)
(* is known.                                                               *)
compression_enabled(methods) == methods # {} /\ methods # {"null"}

TLS13Ciphers(e) == Learned(e, "tls13_ciphers", Suites(e, "TLS13"), {})

Spoken(e) == {v \in e.versions : Suites(e, v) # {}}

ProbedVersions(e) == Learned(e, "versions", Spoken(e), {})

cbc_negotiable_at(e, v) == \E c \in Suites(e, v) : c.mode = "CBC"

(* The flaws CryptoLyzer derives from the suites, the group and the        *)
(* versions an endpoint accepts.                                           *)
AnalyzerVulnerabilities(e) ==
  (UNION {c.flaws : c \in UNION {Suites(e, v) : v \in e.versions}})
  \cup (IF \E bits \in e.dh : bits <= 1024 THEN {"weak_dh"} ELSE {})
  \cup (IF "SSL2" \in Spoken(e) THEN {"drown"} ELSE {})
  \cup (IF Spoken(e) \cap {"SSL2", "SSL3"} # {} THEN {"insecure_ssl_version"} ELSE {})
  \cup (IF Spoken(e) \cap {"TLS10", "TLS11"} # {} THEN {"early_tls_version"} ELSE {})

(* Two more that need a CBC suite at one version, which is asked for only  *)
(* where such a version was found.                                         *)
Vulnerabilities(e) ==
  LET found == AnalyzerVulnerabilities(e)
      poodle == "insecure_ssl_version" \in found /\ cbc_negotiable_at(e, "SSL3")
      beast == "early_tls_version" \in found /\ cbc_negotiable_at(e, "TLS10")
  IN Learned(e, "vulnerabilities",
             found \cup (IF poodle THEN {"poodle"} ELSE {})
                   \cup (IF beast THEN {"beast"} ELSE {}),
             {})

NotIntrospected ==
  [scanned |-> FALSE, versions |-> {}, ciphers |-> {}, dh |-> {}, weak_dh |-> {},
   groups |-> {}, flaws |-> {}, compression |-> FALSE]

probe_deep_introspection(e) ==
  [scanned |-> TRUE,
   groups |-> NamedGroups(e),
   dh |-> DHParams(e).size,
   weak_dh |-> DHParams(e).weak,
   compression |-> compression_enabled(CompressionMethods(e)),
   ciphers |-> TLS13Ciphers(e),
   versions |-> ProbedVersions(e),
   flaws |-> Vulnerabilities(e)]
================================================================================
