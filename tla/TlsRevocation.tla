----------------------------- MODULE TlsRevocation -----------------------------
(***************************************************************************)
(* check_revocation (ssl_check/revocation.py) after the chain was built:   *)
(* the issuer comes from the chain or from its CA Issuers URL, then the    *)
(* CRLs are tried in turn and after them the OCSP responders, each until   *)
(* one gives a definitive answer.  CRLs are kept in the directory of       *)
(* CrlCache: a cached one is used up to its age limit.                     *)
(*                                                                         *)
(* Time is a clock of a few ticks.  A CRL is what the code looks at: its   *)
(* signature, its next update, the leaf's entry and its size.              *)
(***************************************************************************)
EXTENDS TlsChain, CrlCache

CONSTANTS
  Responders,
  Replies,             \* [signed, next_update, status], what a responder may say
  CacheMaxAge,         \* max_age
  MaxClock             \* bound of the clock

ASSUME CacheAssumption == CacheMaxAge \in Nat /\ MaxClock \in Nat

ASSUME AnswersAssumption ==
  /\ Replies \subseteq [signed : BOOLEAN, next_update : Int,
                        status : {"good", "revoked", "unknown"}]
  /\ None \notin CrlUrls \cup Responders

VARIABLES
  check,       \* where check_revocation is
  revocation,  \* RevocationAudit
  crls_heard,     \* history: the CRL that each URL gave, or the reply
  replies_heard

heard == <<crls_heard, replies_heard>>
revocationVars == <<clock, diskVars, check, revocation, heard>>
evidenceVars == <<chainVars, revocationVars>>

NoCheck == [at |-> "idle", now |-> 0, urls |-> <<>>, last |-> "none", read |-> 0]

NoRevocation ==
  [issuer_source |-> "none",
   crl_status |-> "not_checked", crl_url |-> None, crl_from_cache |-> FALSE,
   crl_next_update |-> 0,
   ocsp_status |-> "not_checked", ocsp_responder_url |-> None]

(* The URLs in the certificate, and the files that earlier scans left.      *)
ASSUME EvidenceAssumption ==
  \A w \in Worlds :
    /\ w.crls \in Seq(CrlUrls) /\ w.ocsps \in Seq(Responders)
    /\ w.served \subseteq CRLs /\ w.others \subseteq Neighbours
    /\ \A files \in w.cached :
         /\ DOMAIN files \subseteq CrlUrls
         /\ files \in [DOMAIN files -> [crl : CRLs \cup {Corrupt}, mtime : {0}]]
         /\ Bytes(files) <= CacheMaxBytes

(* The CRLs of earlier scans may be on disk.                               *)
InitRevocation ==
  /\ clock = 0
  /\ cache \in world.cached /\ InitDisk
  /\ check = NoCheck
  /\ revocation = NoRevocation
  /\ crls_heard = [u \in {} |-> None] /\ replies_heard = [u \in {} |-> None]

-------------------------------------------------------------------------------
(* CRLCache.get, and the file parses.                                      *)
Hit(url) ==
  /\ url \in DOMAIN cache
  /\ clock - cache[url].mtime <= CacheMaxAge
  /\ Sane(cache[url].crl)

-------------------------------------------------------------------------------
(* check_revocation.                                                       *)
ToCRLs(c) ==
  IF world.crls # <<>> THEN [c EXCEPT !.at = "crl", !.urls = world.crls]
  ELSE [c EXCEPT !.at = "ocsp", !.urls = world.ocsps]

Begin ==
  /\ ChainDone /\ check.at = "idle"
  /\ LET started == [NoCheck EXCEPT !.now = clock] IN
     CASE world.crls = <<>> /\ world.ocsps = <<>> ->
            check' = [started EXCEPT !.at = "done"] /\ UNCHANGED revocation
       [] OTHER ->
            IF chain.links # <<>>
            THEN /\ check' = ToCRLs(started)
                 /\ revocation' = [revocation EXCEPT !.issuer_source = "provided"]
            ELSE /\ check' = [started EXCEPT !.at = IF Leaf \in world.with_aia
                                                    THEN "issuer" ELSE "done"]
                 /\ UNCHANGED revocation
  /\ UNCHANGED <<chainVars, clock, diskVars, heard>>

FetchOwnIssuer ==
  /\ check.at = "issuer"
  /\ \/ /\ check' = ToCRLs(check)
        /\ revocation' = [revocation EXCEPT !.issuer_source = "aia_fetch"]
     \/ check' = [check EXCEPT !.at = "done"] /\ UNCHANGED revocation
  /\ UNCHANGED <<chainVars, clock, diskVars, heard>>

Definitive == {"good", "revoked"}

(* The status of a channel without a definitive answer: the last that was  *)
(* inconclusive, or that nothing was reachable.                            *)
Conclude(last) == IF last = "none" THEN "unreachable" ELSE last

NextChannel(c) ==
  IF c.at = "crl" /\ world.ocsps # <<>>
  THEN [c EXCEPT !.at = "ocsp", !.urls = world.ocsps, !.last = "none"]
  ELSE [c EXCEPT !.at = "done", !.urls = <<>>, !.last = "none"]

\* Mutant: the URL that failed is tried again.
OthersOrSame(c, verdict) == IF verdict = "nothing" THEN c.urls ELSE Tail(c.urls)
Others(c, verdict) == Tail(c.urls)

LastInconclusive(c, verdict) == IF verdict = "nothing" THEN c.last ELSE verdict

(* After one URL: the check as it goes on and the status of the channel,   *)
(* which is still open ("not_checked") while there are others to try.      *)
After(c, verdict) ==
  LET last == LastInconclusive(c, verdict)
      rest == [c EXCEPT !.urls = Others(c, verdict), !.last = last,
                        !.at = IF @ = "ocsp" THEN @ ELSE "crl"] IN
  IF verdict \in Definitive THEN [check |-> NextChannel(rest), status |-> verdict]
  ELSE IF rest.urls = <<>>
       THEN [check |-> NextChannel(rest), status |-> Conclude(last)]
       ELSE [check |-> rest, status |-> "not_checked"]

-------------------------------------------------------------------------------
(* check_crl.  Freshness is judged by the clock of the start of the check. *)
ClassifyCRL(crl) ==
  CASE ~crl.signed -> "invalid_signature"
    [] crl.signed /\ check.now > crl.next_update -> "stale"
    [] OTHER -> crl.status

JudgeCRL(url, crl, from_cache, age) ==
  LET after == After(check, ClassifyCRL(crl)) IN
  /\ check' = [after.check EXCEPT !.read = age]
  /\ revocation' = [revocation EXCEPT !.crl_status = after.status,
                                      !.crl_url = url,
                                      !.crl_from_cache = from_cache,
                                      !.crl_next_update = crl.next_update]
  /\ crls_heard' = With(crls_heard, url, crl)
  /\ UNCHANGED replies_heard

ReadCache ==
  /\ check.at = "crl"
  /\ LET url == Head(check.urls) IN
     IF Hit(url) THEN JudgeCRL(url, cache[url].crl, TRUE, clock - cache[url].mtime)
     ELSE check' = [check EXCEPT !.at = "download"] /\ UNCHANGED <<revocation, heard>>
  /\ UNCHANGED <<chainVars, clock, diskVars>>

(* The download fails, is too large or does not parse.                     *)
DownloadFails ==
  /\ check.at = "download"
  /\ LET after == After(check, "nothing") IN
     /\ check' = after.check
     /\ revocation' = [revocation EXCEPT !.crl_status = after.status]
  /\ UNCHANGED <<chainVars, clock, diskVars, heard>>

(* A CRL is put on disk first, if there is a cache and its file opens.     *)
Download ==
  /\ check.at = "download"
  /\ \E crl \in world.served :
       \/ JudgeCRL(Head(check.urls), crl, FALSE, 0) /\ UNCHANGED diskVars
       \/ /\ Open(Self, Head(check.urls), crl)
          /\ check' = [check EXCEPT !.at = "putting"]
          /\ UNCHANGED <<revocation, heard>>
  /\ UNCHANGED <<chainVars, clock>>

PutOn ==
  /\ check.at = "putting"
  /\ PutStep(Self)
  /\ UNCHANGED <<chainVars, clock, check, revocation, heard>>

JudgeDownload ==
  /\ check.at = "putting" /\ put[Self].at = "idle"
  /\ JudgeCRL(Head(check.urls), put[Self].crl, FALSE, 0)
  /\ Becomes(Self, NoPut)
  /\ UNCHANGED <<chainVars, clock, cache, excused>>

(* check_ocsp.  A response that is not signed by the issuer or by its      *)
(* delegate is kept for its details only.                                  *)
ClassifyOCSP(reply) ==
  CASE ~reply.signed -> "invalid_signature"
    [] reply.signed /\ check.now > reply.next_update -> "stale"
    [] OTHER -> reply.status

AskResponder ==
  /\ check.at = "ocsp"
  /\ \E reply \in Replies :
       LET url == Head(check.urls)
           after == After(check, ClassifyOCSP(reply)) IN
       /\ check' = after.check
       /\ revocation' = [revocation EXCEPT !.ocsp_status = after.status,
                                           !.ocsp_responder_url = url]
       /\ replies_heard' = With(replies_heard, url, reply)
  /\ UNCHANGED <<chainVars, clock, diskVars, crls_heard>>

(* Unreachable, unparseable, or not a successful response.                 *)
ResponderFails ==
  /\ check.at = "ocsp"
  /\ LET after == After(check, "nothing") IN
     /\ check' = after.check
     /\ revocation' = [revocation EXCEPT !.ocsp_status = after.status]
  /\ UNCHANGED <<chainVars, clock, diskVars, heard>>

\* Mutant: the primary channel decides.
RevokedByPrimary ==
  CASE revocation.crl_status = "good" -> "no"
    [] "revoked" \in {revocation.ocsp_status, revocation.crl_status} -> "yes"
    [] OTHER -> "unknown"

(* RevocationAudit.revoked.                                                *)
Revoked ==
  IF "revoked" \in {revocation.ocsp_status, revocation.crl_status} THEN "yes"
  ELSE IF revocation.crl_status = "good" THEN "no" ELSE "unknown"

-------------------------------------------------------------------------------
(* Other processes of the world put into the directory while this one      *)
(* downloads and puts, and time passes.                                    *)
AnotherPuts(p) ==
  /\ p \in world.others /\ check.at \in {"download", "putting"}
  /\ (\E url \in CrlUrls, crl \in world.served : Open(p, url, crl)) \/ PutStep(p)
  /\ UNCHANGED <<chainVars, clock, check, revocation, heard>>

Tick ==
  /\ ChainDone /\ check.at \in {"idle", "download"} /\ clock < MaxClock
  /\ clock' = clock + 1
  /\ UNCHANGED <<chainVars, diskVars, check, revocation, heard>>

Step ==
  \/ ChainNext /\ UNCHANGED revocationVars
  \/ Begin \/ FetchOwnIssuer
  \/ ReadCache \/ DownloadFails \/ Download \/ PutOn \/ JudgeDownload
  \/ AskResponder \/ ResponderFails

InitEvidence == InitChain /\ InitRevocation
NextEvidence == Step \/ (\E p \in Neighbours : AnotherPuts(p)) \/ Tick

EvidenceSpec == InitEvidence /\ [][NextEvidence]_evidenceVars
FairEvidenceSpec == EvidenceSpec /\ WF_evidenceVars(Step)

-------------------------------------------------------------------------------
Statuses == {"not_checked", "good", "revoked", "unreachable", "stale", "invalid_signature"}

(* Every variable has its type, and AIA is followed to its depth at most.  *)
EvidenceTypeOK ==
  /\ world \in Worlds
  /\ build \in [at : {"verify", "fetch", "built"}, purpose : {"audit", "cross_sign"},
                round : 0 .. MaxDepth + 1, candidates : SUBSET Certs,
                fetched : SUBSET Certs, frontier : Certs]
  /\ chain.verified \in BOOLEAN /\ chain.links \in Seq([cert : Certs, source : {"peer", "aia_fetch"}])
  /\ stores \in Seq({"yes", "no", "unavailable"}) /\ Len(stores) <= Len(Vendors)
  /\ clock \in 0 .. MaxClock
  /\ DiskTypeOK
  /\ check.at \in {"idle", "issuer", "crl", "download", "putting", "ocsp", "done"}
  /\ check.now <= clock
  /\ revocation.crl_status \in Statuses
  /\ revocation.ocsp_status \in Statuses \cup {"unknown"}

(* What is reported as verified is a path: each certificate is issued by   *)
(* the next, all are valid, and the last is an anchor of the store.        *)
VerifiedIsAPath ==
  chain.verified =>
    LET path == <<Leaf>> \o [i \in DOMAIN chain.links |-> chain.links[i].cert] IN
    /\ \A i \in 1 .. Len(path) - 1 : IssuerOf[path[i]] = SubjectOf[path[i + 1]]
    /\ ToSet(path) \subseteq world.valid
    /\ Last(path) \in world.store

(* A chain is said to miss an intermediate exactly when what the peer sent *)
(* leads to no anchor by itself; a chain that does not can be in any       *)
(* order, and the anchor need not be sent.                                 *)
MissingMeansNotSent ==
  chain.verified => (chain.missing <=> Paths(ToSet(world.peer), world.store) = {})

(* A vendor's store and the engine's disagree for a reason: one that does  *)
(* not trust a chain that missed nothing has no anchor for it, and one     *)
(* that trusts a leaf of which the engine found no path has an anchor that *)
(* the engine's store lacks.                                               *)
StoresDisagreeForAReason ==
  ChainDone =>
    \A i \in DOMAIN stores :
      LET anchors == world.vendors[Vendors[i]] IN
      /\ stores[i] = "no" /\ chain.verified /\ ~chain.missing =>
           Last(chain.links).cert \notin anchors
      /\ stores[i] = "yes" /\ ~chain.verified => ~ (anchors \subseteq world.store)

(* Chains are reported as they were found.                                 *)
ChainsAreHonest ==
  VerifiedIsAPath /\ MissingMeansNotSent /\ StoresDisagreeForAReason

(* A leaf is revoked exactly when a CRL or a reply says so that is signed  *)
(* and fresh, whichever channel it came by and whatever the other says;    *)
(* it is not revoked only by a signed and fresh CRL without it, and one    *)
(* from the cache is recent.                                               *)
SignedAndFresh(reply) == reply.signed /\ check.now <= reply.next_update

VerdictIsEarned ==
  /\ (Revoked = "yes") <=>
       \E answers \in {crls_heard, replies_heard} : \E url \in DOMAIN answers :
         SignedAndFresh(answers[url]) /\ answers[url].status = "revoked"
  /\ Revoked = "no" =>
       LET crl == crls_heard[revocation.crl_url] IN
       /\ SignedAndFresh(crl) /\ crl.status = "good"
       /\ revocation.crl_from_cache => check.read <= CacheMaxAge

(* The URL and the times that are reported are those of the answer that    *)
(* the status stands for, after any number of other URLs.                  *)
StatusOf(reply) ==
  IF ~reply.signed THEN "invalid_signature"
  ELSE IF ~SignedAndFresh(reply) THEN "stale" ELSE reply.status

DetailsMatchStatus ==
  check.at = "done" =>
    /\ IF revocation.crl_status \in {"not_checked", "unreachable"}
       THEN revocation.crl_url = None
       ELSE LET crl == crls_heard[revocation.crl_url] IN
            /\ revocation.crl_status = StatusOf(crl)
            /\ revocation.crl_next_update = crl.next_update
    /\ IF revocation.ocsp_status \in {"not_checked", "unreachable"}
       THEN revocation.ocsp_responder_url = None
       ELSE revocation.ocsp_status = StatusOf(replies_heard[revocation.ocsp_responder_url])

(* Revocation is reported as it was heard: the verdict is earned, and the  *)
(* details are those of the answer that gave it.                           *)
RevocationIsHonest == VerdictIsEarned /\ DetailsMatchStatus

(* Checks keep their state, and those that share a directory its budget,   *)
(* as far as the disk lets them.                                           *)
WithinBounds == EvidenceTypeOK /\ CacheWithinBudget

(* The audits of a target end, whatever AIA and the URLs answer.           *)
AllChecked == <>(check.at = "done")
===============================================================================
