------------------------------- MODULE TlsChain -------------------------------
(***************************************************************************)
(* The chain of trust of a leaf (ssl_check/chain.py) and what other trust  *)
(* stores make of it (ssl_check/multi_store.py).  build_chain_audit        *)
(* verifies the leaf with the certificates the peer sent and, while that   *)
(* fails, fetches one more issuer at a time from the CA Issuers URL of the *)
(* last one; with check_cross_sign it then builds a second path without    *)
(* the peer's.  check_multi_store_trust verifies what the peer sent, and   *)
(* only that, against the store of each vendor.                            *)
(*                                                                         *)
(* A certificate is a name with a subject and an issuer, a name stands for *)
(* one key, and verify() is any path of valid certificates to an anchor.   *)
(***************************************************************************)
EXTENDS Integers, Sequences, FiniteSets, SequencesExt

CONSTANTS
  Certs, Leaf, SubjectOf, IssuerOf,
  Vendors,
  None,
  MaxDepth,      \* max_chain_depth
  Responses,     \* what a CA Issuers URL may answer: a bundle, empty when unusable
  Worlds         \* what the peer sent, the stores, and the options

ASSUME ChainAssumption ==
  /\ MaxDepth \in Nat
  /\ Leaf \in Certs /\ None \notin Certs
  /\ Responses \subseteq Seq(Certs)
  /\ Vendors \in Seq(ToSet(Vendors))
  /\ \A w \in Worlds : w.peer \in Seq(Certs)

VARIABLES
  world,
  build,     \* the locals of _build_path
  chain,     \* ChainAudit
  stores     \* MultiStoreAudit: the verdict of each vendor so far

chainVars == <<world, build, chain, stores>>

-------------------------------------------------------------------------------
(* ServerVerifier.verify: the paths it may return.                         *)
Ladders ==
  {s \in {<<Leaf>> \o q : q \in SeqOf(Certs \ {Leaf}, 3) \ {<<>>}} :
     /\ IsInjective(s)
     /\ \A i \in 1 .. Len(s) - 1 : IssuerOf[s[i]] = SubjectOf[s[i + 1]]}

Paths(among, anchors) ==
  {s \in Ladders : /\ ToSet(s) \subseteq world.valid
                   /\ Last(s) \in anchors
                   /\ ToSet(Front(Tail(s))) \subseteq among}

SelfIssued(c) == SubjectOf[c] = IssuerOf[c]

(* _parse_fetched_certificate: one certificate is taken as it is, of a     *)
(* bundle the one that is expected, or else its first.                     *)
ParseFetched(bundle, expected) ==
  LET fitting == {i \in DOMAIN bundle : SubjectOf[bundle[i]] = expected} IN
  IF bundle = <<>> THEN None
  ELSE IF Len(bundle) = 1 \/ fitting = {} THEN bundle[1] ELSE bundle[Min(fitting)]

(* fetch_issuer_certificate: the first URL that answers with a certificate. *)
FetchIssuer(answers, expected) ==
  LET usable == {i \in DOMAIN answers : ParseFetched(answers[i], expected) # None} IN
  IF usable = {} THEN None ELSE ParseFetched(answers[Min(usable)], expected)

(* _check_chain_order: nothing to say of fewer than two.                   *)
ChainOrder(sent) ==
  IF Len(sent) < 2 THEN "unknown"
  ELSE IF \A i \in 1 .. Len(sent) - 1 : IssuerOf[sent[i]] = SubjectOf[sent[i + 1]]
       THEN "yes" ELSE "no"

-------------------------------------------------------------------------------
Building(purpose, seed) ==
  [at |-> "verify", purpose |-> purpose, round |-> 0, candidates |-> seed,
   fetched |-> {}, frontier |-> Leaf]

NoChain ==
  [verified |-> FALSE, links |-> <<>>, missing |-> FALSE, weak |-> FALSE,
   cross_signed |-> "unknown", ordered |-> ChainOrder(<<Leaf>> \o world.peer)]

InitChain ==
  /\ world \in Worlds
  /\ build = Building("audit", ToSet(world.peer))
  /\ chain = NoChain
  /\ stores = <<>>

Source(c) == IF c \in build.fetched THEN "aia_fetch" ELSE "peer"

\* Mutant: the chain is reported as it was sent.
AuditAsSent(path) ==
  [chain EXCEPT !.verified = TRUE,
                !.links = [i \in DOMAIN world.peer |-> [cert |-> world.peer[i], source |-> "peer"]]
                          \o <<[cert |-> Last(path), source |-> "peer"]>>,
                !.missing = build.fetched # {}]

AuditOf(path) ==
  LET above == Tail(path) IN
  [chain EXCEPT !.verified = TRUE,
                !.links = [i \in DOMAIN above |-> [cert |-> above[i], source |-> Source(above[i])]],
                !.missing = \E i \in DOMAIN above : Source(above[i]) = "aia_fetch",
                !.weak = \E i \in DOMAIN above : above[i] \in world.weak]

EndBuild == [build EXCEPT !.at = "built"]

(* A path of the peer's certificates is compared with one that is built    *)
(* without them, when that is asked for.                                   *)
Audited(path) ==
  /\ chain' = AuditOf(path)
  /\ build' = IF world.check_cross_sign /\ world.peer # <<>>
              THEN Building("cross_sign", {}) ELSE EndBuild

Compared(path) ==
  /\ chain' = [chain EXCEPT !.cross_signed =
                 IF Last(path) = Last(chain.links).cert THEN "no" ELSE "yes"]
  /\ build' = EndBuild

VerifyPath ==
  /\ build.at = "verify"
  /\ \E path \in Paths(build.candidates, world.store) :
       IF build.purpose = "audit" THEN Audited(path) ELSE Compared(path)
  /\ UNCHANGED <<world, stores>>

(* No path yet: one more issuer, unless the last one says it has none.     *)
VerifyFails ==
  /\ build.at = "verify" /\ Paths(build.candidates, world.store) = {}
  /\ build' = [build EXCEPT !.at = IF SelfIssued(build.frontier)
                                      \/ build.frontier \notin world.with_aia
                                   THEN "built" ELSE "fetch"]
  /\ UNCHANGED <<world, chain, stores>>

RoundsExhausted(round) == round = MaxDepth + 1

(* The last issuer that is fetched is not tried any more.                  *)
FetchFrontier ==
  /\ build.at = "fetch"
  /\ \E answers \in SeqOf(Responses, 2) \ {<<>>} :
       LET issuer == FetchIssuer(answers, IssuerOf[build.frontier]) IN
       build' = IF issuer = None THEN EndBuild
                ELSE [build EXCEPT !.at = IF RoundsExhausted(build.round + 1) THEN "built" ELSE "verify",
                                   !.round = @ + 1,
                                   !.candidates = @ \cup {issuer},
                                   !.fetched = @ \cup {issuer},
                                   !.frontier = issuer]
  /\ UNCHANGED <<world, chain, stores>>

(* A vendor's bundle is unavailable when it is neither cached nor to be    *)
(* fetched, or has no certificate in it.  Issuers are not fetched here.    *)
VendorVerdict(vendor) ==
  CASE vendor \notin DOMAIN world.vendors -> "unavailable"
    [] OTHER -> IF Paths(ToSet(world.peer), world.vendors[vendor]) # {} THEN "yes" ELSE "no"

CheckVendor ==
  /\ build.at = "built" /\ Len(stores) < Len(Vendors)
  /\ stores' = Append(stores, VendorVerdict(Vendors[Len(stores) + 1]))
  /\ UNCHANGED <<world, build, chain>>

ChainNext == VerifyPath \/ VerifyFails \/ FetchFrontier \/ CheckVendor

ChainDone == build.at = "built" /\ Len(stores) = Len(Vendors)

Verdicts == SelectSeq(stores, LAMBDA v : v # "unavailable")
Consistent ==
  IF Len(Verdicts) < 2 THEN "unknown"
  ELSE IF Cardinality(ToSet(Verdicts)) = 1 THEN "yes" ELSE "no"
===============================================================================
