------------------------------ MODULE TlsEngine ------------------------------
(***************************************************************************)
(* SSLCheckEngine (ssl_check/core.py): check_targets and what it runs for  *)
(* each target.  A target takes the lock of its host, when hosts are       *)
(* serialised, and then a slot; it waits out the backoff of its host,      *)
(* probes for warm-up and for its samples with bounded retries, and then   *)
(* goes through the checks that are asked for and due.  The log registry   *)
(* and the profile guidelines are fetched on first use and kept by the     *)
(* engine.  What raises ends the target with an error result.              *)
(*                                                                         *)
(* A handshake is the machine of TlsProbe; the handshakes of the later     *)
(* checks are part of the step that runs the check.  The audits are names, *)
(* what they find is modelled apart.                                       *)
(***************************************************************************)
EXTENDS TlsProbe, SequencesExt

CONSTANTS
  Hosts,
  None,
  Scenarios      \* targets with their hosts and ports, and the engine's options

BackoffStatuses == {"tcp_timeout", "handshake_timeout", "handshake_abandoned"}

(* The checks of _check_locked in their order.                             *)
Checks ==
  <<"resumption", "chain", "multi_store", "revocation", "enumeration",
    "preference", "ct", "lint", "san", "zero_rtt", "dual_stack", "deep",
    "clients", "jarm", "grade", "pins", "profiles">>

Options ==
  [targets : SUBSET Targets, host : [Targets -> Hosts],
   starttls : [Targets -> StartTLSProtocols],
   serial : BOOLEAN,                        \* per_host_serial
   slots : Nat \ {0},                       \* max_concurrent
   warmups : Nat, samples : Nat \ {0},      \* warmup_handshakes, handshake_samples
   retries : Nat,                           \* max_retries
   checks : SUBSET ToSet(Checks)]

ASSUME ScenariosAssumption == Scenarios \subseteq Options
ASSUME TargetsAssumption == IsFiniteSet(Targets) /\ None \notin Targets

VARIABLES
  opts,
  task,              \* what check_target is doing for each target
  result,            \* its SSLResult
  hostLock,          \* _host_locks: the target that holds each one
  failedHosts,       \* failed_hosts
  registry,          \* _ct_registry was fetched
  guidelines,        \* _mozilla_guidelines, with its fetched flag and error
  checkCounter       \* check_counter

shared == <<hostLock, failedHosts, registry, guidelines, checkCounter>>
vars == <<opts, probe, task, result, shared>>

NoTask ==
  [at |-> "waiting", left |-> 0, index |-> 0, attempt |-> 1, todo |-> {}]

NoResult ==
  [status |-> "none", measured |-> FALSE, samples |-> 0, attempt |-> 1,
   certificate |-> FALSE, audits |-> {}, ct |-> "none", profile |-> "none"]

Init ==
  /\ opts \in Scenarios
  /\ InitProbe
  /\ task = [t \in Targets |-> NoTask]
  /\ result = [t \in Targets |-> NoResult]
  /\ hostLock = [h \in Hosts |-> None]
  /\ failedHosts = [h \in Hosts |-> 0]
  /\ registry = FALSE
  /\ guidelines = [fetched |-> FALSE, known |-> FALSE, error |-> FALSE]
  /\ checkCounter = 0

Host(t) == opts.host[t]
At(t, place) == t \in opts.targets /\ task[t].at = place
Move(t, new) == task' = [task EXCEPT ![t] = new]

Ended == {"returned", "failed"}
Inside == {t \in opts.targets :
             task[t].at \notin {"waiting", "queued"} \cup Ended}

-------------------------------------------------------------------------------
(* The host's lock comes before the slot, so a target that waits for its   *)
(* host keeps no slot.                                                     *)
TakeLock(t) ==
  /\ At(t, "waiting")
  /\ \/ /\ opts.serial
        /\ hostLock[Host(t)] = None
        /\ hostLock' = [hostLock EXCEPT ![Host(t)] = t]
     \/ ~opts.serial /\ UNCHANGED hostLock
  /\ Move(t, [task[t] EXCEPT !.at = "queued"])
  /\ UNCHANGED <<opts, probe, result, failedHosts, registry, guidelines, checkCounter>>

SlotFree == Cardinality(Inside) < opts.slots

(* From warm-up to the first sample.                                       *)
FirstHandshake ==
  [NoTask EXCEPT !.at = IF opts.warmups > 0 THEN "warmup" ELSE "sampling",
                 !.left = opts.warmups]

(* The backoff of the host is waited out with the slot and the lock held.  *)
TakeSlot(t) ==
  /\ At(t, "queued") /\ SlotFree
  /\ IF failedHosts[Host(t)] > 0
     THEN Move(t, [task[t] EXCEPT !.at = "backoff"]) /\ UNCHANGED probe
     ELSE Move(t, FirstHandshake) /\ BeginProbe(t, opts.starttls[t])
  /\ UNCHANGED <<opts, result, shared>>

EndBackoff(t) ==
  /\ At(t, "backoff")
  /\ Move(t, FirstHandshake)
  /\ BeginProbe(t, opts.starttls[t])
  /\ UNCHANGED <<opts, result, shared>>

\* Mutant: the lock of every host is given back.
ReleasedForAll(t) == [h \in Hosts |-> None]

\* Mutant: no lock is given back.
ReleasedNever(t) == hostLock

Released(t) == [h \in Hosts |-> IF hostLock[h] = t THEN None ELSE hostLock[h]]

\* Mutant: the error is set on the result as far as it had come.
FailKeepingEvidence(t) ==
  /\ Move(t, [NoTask EXCEPT !.at = "failed"])
  /\ result' = [result EXCEPT ![t].status = "tcp_error"]
  /\ hostLock' = Released(t)
  /\ UNCHANGED <<failedHosts, registry, guidelines, checkCounter>>

(* An exception leaves both context managers and is gathered: its target   *)
(* gets an error result in place of whatever it had, and no progress tick. *)
Fail(t) ==
  /\ Move(t, [NoTask EXCEPT !.at = "failed"])
  /\ result' = [result EXCEPT ![t] = [NoResult EXCEPT !.status = "tcp_error"]]
  /\ hostLock' = Released(t)
  /\ UNCHANGED <<failedHosts, registry, guidelines, checkCounter>>

Handshaking(t) ==
  /\ t \in opts.targets
  /\ task[t].at \in {"warmup", "sampling"}
  /\ ProbeStep(t)
  /\ UNCHANGED <<opts, task, result, shared>>

(* Warm-ups are discarded; one that raises ends the warm-up.               *)
EndWarmup(t) ==
  LET left == IF probe[t].at = "raised" THEN 0 ELSE task[t].left - 1 IN
  /\ At(t, "warmup") /\ ProbeEnded(t)
  /\ Move(t, [task[t] EXCEPT !.left = left,
                             !.at = IF left > 0 THEN @ ELSE "sampling"])
  /\ BeginProbe(t, opts.starttls[t])
  /\ UNCHANGED <<opts, result, shared>>

-------------------------------------------------------------------------------
(* A sample.                                                               *)
SampleRaises(t) ==
  /\ At(t, "sampling") /\ probe[t].at = "raised"
  /\ Become(t, NoProbe)
  /\ Fail(t)
  /\ UNCHANGED opts

(* Only a timeout is tried again.                                          *)

ToBeRetried(t) ==
  probe[t].status \in BackoffStatuses /\ task[t].attempt <= opts.retries

RetrySample(t) ==
  /\ At(t, "sampling") /\ probe[t].at = "returned" /\ ToBeRetried(t)
  /\ Move(t, [task[t] EXCEPT !.at = "retrying", !.attempt = @ + 1])
  /\ Become(t, NoProbe)
  /\ UNCHANGED <<opts, result, shared>>

EndRetrySleep(t) ==
  /\ At(t, "retrying")
  /\ Move(t, [task[t] EXCEPT !.at = "sampling"])
  /\ BeginProbe(t, opts.starttls[t])
  /\ UNCHANGED <<opts, result, shared>>

(* The first sample decides whether there are others.                      *)
LastSample(t) ==
  \/ task[t].index + 1 = opts.samples
  \/ task[t].index = 0 /\ probe[t].status # "ok"

Larger(a, b) == IF a > b THEN a ELSE b
Sampled(t) ==
  [result[t] EXCEPT !.samples = IF probe[t].status = "ok" THEN @ + 1 ELSE @,
                    !.attempt = Larger(@, task[t].attempt)]

NextSample(t) ==
  /\ At(t, "sampling") /\ probe[t].at = "returned"
  /\ ~ToBeRetried(t) /\ ~LastSample(t)
  /\ result' = [result EXCEPT ![t] = Sampled(t)]
  /\ Move(t, [task[t] EXCEPT !.index = @ + 1, !.attempt = 1])
  /\ BeginProbe(t, opts.starttls[t])
  /\ UNCHANGED <<opts, shared>>

(* _record_outcome: timeouts add up until the host answers.                *)
FailuresAfter(h, status) ==
  CASE status \in BackoffStatuses -> failedHosts[h] + 1
    [] status = "ok" -> 0
    [] OTHER -> failedHosts[h]

(* _build_result: the last sample is the result.                           *)
Built(t, parsed) ==
  [Sampled(t) EXCEPT !.status = probe[t].status,
                     !.measured = probe[t].status = "ok",
                     !.certificate = probe[t].leaf /\ parsed]

(* The guard of each check.  A check that speaks TLS through another       *)
(* library knows no STARTTLS.                                              *)
Due(check, t, built, leaf) ==
  /\ check = "resumption" => built.measured
  /\ check \in {"chain", "revocation", "ct", "san"} => built.certificate
  /\ check = "multi_store" => "chain" \in opts.checks /\ built.certificate /\ leaf
  /\ check = "preference" => "enumeration" \in opts.checks
  /\ check = "lint" => leaf
  /\ check \in {"zero_rtt", "deep", "clients", "jarm"} => opts.starttls[t] = "none"

EndSamples(t) ==
  /\ At(t, "sampling") /\ probe[t].at = "returned"
  /\ ~ToBeRetried(t) /\ LastSample(t)
  /\ failedHosts' = [failedHosts EXCEPT ![Host(t)] = FailuresAfter(Host(t), probe[t].status)]
  /\ \E parsed \in (IF probe[t].leaf THEN BOOLEAN ELSE {FALSE}) :
       LET built == Built(t, parsed) IN
       /\ result' = [result EXCEPT ![t] = built]
       /\ Move(t, [NoTask EXCEPT
                     !.at = "checking",
                     !.todo = {c \in opts.checks : Due(c, t, built, probe[t].leaf)}])
  /\ Become(t, NoProbe)
  /\ UNCHANGED <<opts, hostLock, registry, guidelines, checkCounter>>

-------------------------------------------------------------------------------
(* The checks.                                                             *)
Rank == [c \in ToSet(Checks) |-> CHOOSE i \in DOMAIN Checks : Checks[i] = c]

NextCheck(t, check) ==
  /\ At(t, "checking") /\ check \in task[t].todo
  /\ \A other \in task[t].todo : Rank[check] <= Rank[other]

(* The audit of a check is on the result, and the check after it is next.  *)
AuditedAs(t, check, r) ==
  /\ Move(t, [task[t] EXCEPT !.at = "checking", !.todo = @ \ {check}])
  /\ result' = [result EXCEPT ![t] = [r EXCEPT !.audits = @ \cup {check}]]

Audited(t, check) == AuditedAs(t, check, result[t])

(* Those whose probes let a hang-up in a STARTTLS dialogue through; the    *)
(* resumption probe catches it.                                            *)
MayRaise(t, check) ==
  /\ check \in {"enumeration", "preference", "san", "dual_stack"}
  /\ \E i \in DOMAIN Dialogue(opts.starttls[t]) :
       Dialogue(opts.starttls[t])[i].eof = "raises"

RunCheck(t) ==
  \E check \in opts.checks \ {"ct", "profiles"} :
    /\ NextCheck(t, check)
    /\ \/ Audited(t, check) /\ UNCHANGED shared
       \/ MayRaise(t, check) /\ Fail(t)
    /\ UNCHANGED <<opts, probe>>

(* check_ct_logs is given the registry that the engine has at that time.   *)
(* It asks for none when the certificate has no timestamps, and when it    *)
(* got none it tries once more for itself.                                 *)
Timestamped(t, by) == AuditedAs(t, "ct", [result[t] EXCEPT !.ct = by])

ResolveTrust(t, held) ==
  \/ Timestamped(t, "no_scts")
  \/ held /\ Timestamped(t, "held")
  \/ ~held /\ Move(t, [task[t] EXCEPT !.at = "refetching_registry"]) /\ UNCHANGED result

(* The registry is tested, fetched, and kept when the fetch succeeds.      *)
CheckCtLogs(t) ==
  /\ NextCheck(t, "ct")
  /\ IF registry THEN ResolveTrust(t, TRUE)
     ELSE Move(t, [task[t] EXCEPT !.at = "fetching_registry"]) /\ UNCHANGED result
  /\ UNCHANGED <<opts, probe, shared>>

\* Mutant: what was fetched, or was not, replaces the registry.
RegistryReplaced(fetched) == fetched

RegistryAfter(fetched) == registry \/ fetched

FetchRegistry(t) ==
  /\ At(t, "fetching_registry")
  /\ \E fetched \in BOOLEAN : registry' = RegistryAfter(fetched)
  /\ ResolveTrust(t, registry')
  /\ UNCHANGED <<opts, probe, hostLock, failedHosts, guidelines, checkCounter>>

RefetchRegistry(t) ==
  /\ At(t, "refetching_registry")
  /\ \E by \in {"own", "unavailable"} : Timestamped(t, by)
  /\ UNCHANGED <<opts, probe, shared>>

(* check_mozilla_profiles assesses at once by a document that it is given, *)
(* and fetches one for itself when it is given none.                       *)
Assessed(t, profile) == AuditedAs(t, "profiles", [result[t] EXCEPT !.profile = profile])

Assess(t, g) ==
  IF g.known THEN Assessed(t, "assessed")
  ELSE Move(t, [task[t] EXCEPT !.at = "refetching_guidelines"]) /\ UNCHANGED result

CheckProfiles(t) ==
  /\ NextCheck(t, "profiles")
  /\ IF guidelines.fetched THEN Assess(t, guidelines)
     ELSE Move(t, [task[t] EXCEPT !.at = "fetching_guidelines"]) /\ UNCHANGED result
  /\ UNCHANGED <<opts, probe, shared>>

(* The flag was tested before the fetch; the answer replaces whatever      *)
(* another target fetched meanwhile.                                       *)
FetchGuidelines(t) ==
  /\ At(t, "fetching_guidelines")
  /\ \E known \in BOOLEAN :
       guidelines' = [fetched |-> TRUE, known |-> known, error |-> ~known]
  /\ Assess(t, guidelines')
  /\ UNCHANGED <<opts, probe, hostLock, failedHosts, registry, checkCounter>>

(* The error of the engine's own fetch, if it has no document by now, is   *)
(* put over what the second fetch came to.                                 *)
Profile(refetched) ==
  CASE ~refetched -> "error"
    [] refetched /\ guidelines.error -> "assessed_and_error"
    [] refetched /\ ~guidelines.error -> "assessed"

RefetchGuidelines(t) ==
  /\ At(t, "refetching_guidelines")
  /\ \E refetched \in BOOLEAN : Assessed(t, Profile(refetched))
  /\ UNCHANGED <<opts, probe, shared>>

(* _update_progress, and the result is returned.                           *)
Return(t) ==
  /\ At(t, "checking") /\ task[t].todo = {}
  /\ checkCounter' = checkCounter + 1
  /\ Move(t, [NoTask EXCEPT !.at = "returned"])
  /\ hostLock' = Released(t)
  /\ UNCHANGED <<opts, probe, result, failedHosts, registry, guidelines>>

TargetStep(t) ==
  \/ TakeLock(t) \/ TakeSlot(t) \/ EndBackoff(t) \/ EndWarmup(t)
  \/ SampleRaises(t) \/ RetrySample(t) \/ EndRetrySleep(t)
  \/ NextSample(t) \/ EndSamples(t)
  \/ RunCheck(t)
  \/ CheckCtLogs(t) \/ FetchRegistry(t) \/ RefetchRegistry(t)
  \/ CheckProfiles(t) \/ FetchGuidelines(t) \/ RefetchGuidelines(t)
  \/ Return(t)

Next == \E t \in Targets : TargetStep(t) \/ Handshaking(t)

Spec == Init /\ [][Next]_vars

(* The event loop runs every ready task; a probe's deadlines are timers.   *)
FairSpec ==
  /\ Spec
  /\ \A t \in Targets : WF_vars(TargetStep(t)) /\ WF_vars(Handshaking(t) /\ ProbeDeadline(t))
-------------------------------------------------------------------------------
Tasks ==
  [at : {"waiting", "queued", "backoff", "warmup", "sampling", "retrying",
         "checking", "fetching_registry", "refetching_registry",
         "fetching_guidelines", "refetching_guidelines"} \cup Ended,
   left : 0 .. opts.warmups, index : 0 .. opts.samples - 1,
   attempt : 1 .. opts.retries + 1, todo : SUBSET opts.checks]

Results ==
  [status : HandshakeStatuses \cup {"none"}, measured : BOOLEAN,
   samples : 0 .. opts.samples, attempt : 1 .. opts.retries + 1,
   certificate : BOOLEAN, audits : SUBSET opts.checks,
   ct : {"none", "no_scts", "held", "own", "unavailable"},
   profile : {"none", "assessed", "error", "assessed_and_error"}]

(* Every variable has its type; a handshake keeps within its byte budget   *)
(* and a sample within its retries.                                        *)
TypeOK ==
  /\ probe \in [Targets -> Probes]
  /\ task \in [Targets -> Tasks]
  /\ result \in [Targets -> Results]
  /\ hostLock \in [Hosts -> Targets \cup {None}]
  /\ failedHosts \in [Hosts -> Nat]
  /\ registry \in BOOLEAN
  /\ guidelines \in [fetched : BOOLEAN, known : BOOLEAN, error : BOOLEAN]
  /\ checkCounter \in 0 .. Cardinality(opts.targets)

(* A connection is open only for a target that holds a slot; when hosts    *)
(* are serialised no host sees two targets at a time, and the failures     *)
(* that a target waits out are still there when it has waited: nobody else *)
(* could have cleared them.  The lock of check_target around the slot, and *)
(* _backoff_delay under both.                                              *)
OnePerHost ==
  /\ \A t \in Targets : probe[t].open => t \in Inside
  /\ opts.serial =>
       /\ \A t, u \in Inside : Host(t) = Host(u) => t = u
       /\ \A t \in Inside : task[t].at = "backoff" => failedHosts[Host(t)] > 0

(* Hosts are served in turn, by targets in a legal state.                  *)
HostsInTurn == TypeOK /\ OnePerHost

(* What is sent as a ClientHello was agreed to: the timings of a probe     *)
(* name the phases it went through without a gap, and no handshake follows *)
(* a dialogue that did not offer STARTTLS where it has to (RFC 3207).      *)
PhasesInOrder ==
  \A t \in Targets :
    LET p == probe[t] IN
    p.sent > 0 =>
      /\ {"dns", "tcp"} \subseteq p.timed
      /\ ("starttls" \in p.timed) <=> (p.starttls # "none")
      /\ p.starttls \in {"smtp", "imap"} => p.advertised

(* What a settled target reports belongs together: it is measured exactly  *)
(* when its status is ok, and then by at least one sample; a target that   *)
(* raised has nothing but its error; evidence that needs a certificate is  *)
(* there only with one; and the progress counts the targets that returned. *)
SettledOutcome ==
  /\ checkCounter = Cardinality({t \in Targets : task[t].at = "returned"})
  /\ \A t \in Targets :
       LET r == result[t] IN
       /\ task[t].at = "returned" =>
            /\ r.measured <=> r.status = "ok"
            /\ r.measured => r.samples > 0
            /\ r.audits \cap {"chain", "revocation", "ct", "san"} # {} => r.certificate
            /\ ("profiles" \in r.audits) <=> (r.profile # "none")
       /\ task[t].at = "failed" => r = [NoResult EXCEPT !.status = "tcp_error"]

(* Fetches that meet.  Once a target was judged by the engine's registry   *)
(* no other sets out to fetch one or goes without: neither one that comes  *)
(* later nor one whose own fetch, under way meanwhile, fails.  Of the      *)
(* guidelines less is true, as a failing fetch that was under way takes a  *)
(* document away; but when the flag is set and no fetch is under way, what *)
(* the engine has is settled for the rest of the run.                      *)
SharedOnceFetched ==
  [][/\ (\E u \in Targets : result[u].ct = "held") =>
          \A t \in Targets :
            task'[t].at \in {"fetching_registry", "refetching_registry"} =>
              task'[t].at = task[t].at
     /\ guidelines.fetched /\ (\A t \in Targets : task[t].at # "fetching_guidelines") =>
          guidelines' = guidelines]_vars

(* Every target settles, on a peer that sends for ever as on a silent one. *)
AllSettle == <>(\A t \in opts.targets : task[t].at \in Ended)

===============================================================================
