------------------------------- MODULE CrlCache -------------------------------
(***************************************************************************)
(* CRLCache (ssl_check/revocation.py): CRLs on disk by URL, in a directory *)
(* that every process of the user shares.  A put writes its file, lists    *)
(* the directory and unlinks the oldest files while what it listed is more *)
(* than the budget.  Nothing locks the directory, so the steps of several  *)
(* puts interleave, and each of them can fail: a failed write leaves a     *)
(* partial file and evicts nothing, a listing that fails (also because a   *)
(* file went between the glob and its stat) gives up, and a file that      *)
(* cannot be unlinked is skipped.                                          *)
(***************************************************************************)
EXTENDS Integers, FiniteSets

CONSTANTS
  CrlUrls,
  CRLs,                \* [signed, next_update, status, size], what a URL may serve
  CacheMaxBytes,       \* max_total_bytes
  Self, Neighbours     \* this process, and the others that put

Processes == {Self} \cup Neighbours

ASSUME ProcessesAssumption == Self \notin Neighbours
ASSUME BudgetAssumption == CacheMaxBytes \in Nat /\ IsFiniteSet(CrlUrls)
ASSUME CRLsAssumption ==
  CRLs \subseteq [signed : BOOLEAN, next_update : Int,
                  status : {"good", "revoked"}, size : Nat]

VARIABLES
  clock,
  cache,       \* the files, a function from URLs
  put,         \* where each process is in its put
  excused      \* history: a put was cut short since the last listing

diskVars == <<cache, put, excused>>

(* A file that does not parse.                                             *)
Corrupt == [size |-> 1, corrupt |-> TRUE]
Sane(crl) == crl # Corrupt

(* What files take: as many as there are bytes in them.                    *)
Bytes(files) ==
  Cardinality(UNION {{u} \X (1 .. files[u].crl.size) : u \in DOMAIN files})

(* A file of the URL, in the place of an older one; and without it.        *)
With(files, url, file) ==
  [u \in DOMAIN files \cup {url} |-> IF u = url THEN file ELSE files[u]]

WithoutFile(files, url) == [u \in DOMAIN files \ {url} |-> files[u]]

NoFiles == [u \in {} |-> Corrupt]

(* A put: the files it listed and still counts, those it has not come to,  *)
(* whether one refused to go, and (history) whether nobody wrote since.    *)
Idle(crl) ==
  [at |-> "idle", url |-> "none", crl |-> crl,
   counted |-> NoFiles, left |-> {}, refused |-> FALSE, current |-> FALSE]
NoPut == Idle(Corrupt)

InitDisk ==
  /\ put = [p \in Processes |-> NoPut]
  /\ excused = FALSE

Becomes(p, new) == put' = [put EXCEPT ![p] = new]

(* What p writes is not in what others have listed.                        *)
Writes(p, new) ==
  put' = [q \in Processes |-> IF q = p THEN new ELSE [put[q] EXCEPT !.current = FALSE]]

(* The check of this process goes on with the CRL it put.                  *)
Over(p) == Idle(IF p = Self THEN put[p].crl ELSE Corrupt)

-------------------------------------------------------------------------------
(* put: the file is opened and truncated, then written.                    *)
Open(p, url, crl) ==
  /\ put[p].at = "idle"
  /\ cache' = With(cache, url, [crl |-> Corrupt, mtime |-> clock])
  /\ Writes(p, [Idle(crl) EXCEPT !.at = "writing", !.url = url])
  /\ UNCHANGED excused

(* What is written to a file that was unlinked meanwhile is not on disk.   *)
Write(p) ==
  /\ put[p].at = "writing"
  /\ \/ /\ cache' = IF put[p].url \in DOMAIN cache
                    THEN With(cache, put[p].url, [crl |-> put[p].crl, mtime |-> clock])
                    ELSE cache
        /\ Writes(p, [Over(p) EXCEPT !.at = "listing"])
        /\ UNCHANGED excused
     \/ Becomes(p, Over(p)) /\ excused' = TRUE /\ UNCHANGED cache

(* _evict_if_needed: the directory is listed, or it gives up.              *)
ListFiles(p) ==
  /\ put[p].at = "listing"
  /\ \/ /\ Becomes(p, [put[p] EXCEPT !.at = "evicting", !.counted = cache,
                                     !.left = DOMAIN cache, !.current = TRUE])
        /\ excused' = FALSE
     \/ Becomes(p, Over(p)) /\ excused' = TRUE
  /\ UNCHANGED cache

Fits(p) == Bytes(put[p].counted) <= CacheMaxBytes

Oldest(p) ==
  {u \in put[p].left :
     \A v \in put[p].left : put[p].counted[u].mtime <= put[p].counted[v].mtime}

\* Mutant: one file makes room enough.
UnlinkedOne(p, u) == [put[p] EXCEPT !.counted = WithoutFile(@, u), !.left = {}]

Unlinked(p, u) == [put[p] EXCEPT !.counted = WithoutFile(@, u), !.left = @ \ {u}]

Skipped(p, u) == [put[p] EXCEPT !.left = @ \ {u}]

(* A file goes, went already or refuses to go; files of one tick in any    *)
(* order.                                                                  *)
Unlink(p) ==
  /\ put[p].at = "evicting" /\ ~Fits(p)
  /\ \E u \in Oldest(p) :
       \/ /\ u \in DOMAIN cache
          /\ cache' = WithoutFile(cache, u)
          /\ Becomes(p, Unlinked(p, u))
       \/ u \notin DOMAIN cache /\ Becomes(p, Skipped(p, u)) /\ UNCHANGED cache
       \/ /\ u \in DOMAIN cache /\ UNCHANGED cache
          /\ Becomes(p, [Skipped(p, u) EXCEPT !.refused = TRUE])
  /\ UNCHANGED excused

EndEviction(p) ==
  /\ put[p].at = "evicting" /\ (Fits(p) \/ put[p].left = {})
  /\ Becomes(p, Over(p))
  /\ excused' = (excused \/ (put[p].current /\ put[p].refused /\ ~Fits(p)))
  /\ UNCHANGED cache

PutStep(p) == Write(p) \/ ListFiles(p) \/ Unlink(p) \/ EndEviction(p)
-------------------------------------------------------------------------------
Files == [crl : CRLs \cup {Corrupt}, mtime : 0 .. clock]
IsDirectory(files) == DOMAIN files \subseteq CrlUrls /\ files \in [DOMAIN files -> Files]

DiskTypeOK ==
  /\ IsDirectory(cache) /\ excused \in BOOLEAN
  /\ DOMAIN put = Processes
  /\ \A p \in Processes :
       /\ put[p] \in [at : {"idle", "writing", "listing", "evicting"},
                      url : CrlUrls \cup {"none"}, crl : CRLs \cup {Corrupt},
                      counted : {put[p].counted}, left : SUBSET CrlUrls,
                      refused : BOOLEAN, current : BOOLEAN]
       /\ IsDirectory(put[p].counted)

(* The budget of a directory that nobody locks: when no process is putting *)
(* the files fit, however the steps of the puts went together, unless the  *)
(* last eviction was cut short: by a write or a listing that failed, or by *)
(* a file that refused to go.  The next put that lists and may unlink the  *)
(* files ends the excuse.                                                  *)
CacheWithinBudget ==
  (\A p \in Processes : put[p].at = "idle") /\ ~excused => Bytes(cache) <= CacheMaxBytes

===============================================================================
