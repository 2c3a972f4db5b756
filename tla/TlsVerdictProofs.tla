--------------------------- MODULE TlsVerdictProofs ---------------------------
(***************************************************************************)
(* Proofs about what is told of a certificate.                             *)
(*                                                                         *)
(* TlsVerdict, for all endpoints, options and instants: the alarm comes in *)
(* time, a renewal is foretold and the judgements agree, whatever the      *)
(* dates of the certificates; and an endpoint that becomes weaker never    *)
(* gets a better grade, nor passes what it failed (at the end).            *)
(*                                                                         *)
(* TlsRevocation and TlsChain, for all certificates, stores and answers:   *)
(* chains and revocation are reported as they were found.  The modules     *)
(* share no variable: they are two specifications in one place.            *)
(***************************************************************************)
EXTENDS TlsVerdict, TlsRevocation, SequenceTheorems, FiniteSetTheorems,
        WellFoundedInduction, TLAPS

(* The cap in force at an instant, in half days.                           *)
LimitAt(at) ==
  IF at < 1830 THEN 1650
  ELSE IF at < 5872 THEN 796
  ELSE IF at < 6602 THEN 400
  ELSE IF at < 8064 THEN 200 ELSE 94

(* The rules of the schedule, by their first day.                          *)
LEMMA ScheduleFacts ==
  \A a, b \in CAB_LIFETIME_SCHEDULE :
    /\ a.from \in Int /\ a.days \in Int
    /\ a.from = b.from => a = b
BY DEF CAB_LIFETIME_SCHEDULE

(* A rule that has begun, when no later one has, is the one in force.      *)
LEMMA OnlyRule ==
  ASSUME NEW at \in Int, NEW rule \in CAB_LIFETIME_SCHEDULE,
         at >= 2 * rule.from,
         \A later \in CAB_LIFETIME_SCHEDULE :
           later.from > rule.from => at < 2 * later.from,
         NEW span \in Int
  PROVE  /\ InForce(CAB_LIFETIME_SCHEDULE, at) # {}
         /\ Exceeds(span, InForce(CAB_LIFETIME_SCHEDULE, at))
              <=> span > 2 * rule.days
<1>1. rule \in InForce(CAB_LIFETIME_SCHEDULE, at)
  BY DEF InForce, Day
<1>2. ASSUME NEW other \in InForce(CAB_LIFETIME_SCHEDULE, at)
      PROVE  other = rule
  <2>1. /\ other \in CAB_LIFETIME_SCHEDULE
        /\ at >= 2 * other.from
        /\ rule.from > other.from => at < 2 * rule.from
    BY <1>2 DEF InForce, Day
  <2>2. /\ other.from \in Int /\ rule.from \in Int
        /\ other.from = rule.from => other = rule
    BY <2>1, ScheduleFacts
  <2>3. ~ (rule.from > other.from) /\ ~ (other.from > rule.from)
    BY <2>1, <2>2
  <2>4. QED
    BY <2>2, <2>3
<1>3. QED
  BY <1>1, <1>2 DEF Exceeds, Day

(* The schedule has a rule from its first day on, and it is that cap.      *)
LEMMA CapAt ==
  ASSUME NEW at \in Int, NEW span \in Int
  PROVE  /\ InForce(CAB_LIFETIME_SCHEDULE, at) = {} <=> at < 0
         /\ at >= 0 => (Exceeds(span, InForce(CAB_LIFETIME_SCHEDULE, at))
                          <=> span > LimitAt(at))
<1>1. CASE at < 0
  BY <1>1 DEF InForce, CAB_LIFETIME_SCHEDULE, Day
<1>2. CASE at >= 0 /\ at < 1830
  <2>1. PICK rule \in CAB_LIFETIME_SCHEDULE : rule.from = 0 /\ rule.days = 825
    BY DEF CAB_LIFETIME_SCHEDULE
  <2>2. /\ at >= 2 * rule.from
        /\ \A later \in CAB_LIFETIME_SCHEDULE :
             later.from > rule.from => at < 2 * later.from
    BY <1>2, <2>1 DEF CAB_LIFETIME_SCHEDULE
  <2>3. /\ InForce(CAB_LIFETIME_SCHEDULE, at) # {}
        /\ Exceeds(span, InForce(CAB_LIFETIME_SCHEDULE, at))
             <=> span > 2 * rule.days
    BY <2>2, OnlyRule
  <2>4. LimitAt(at) = 2 * rule.days /\ at >= 0
    BY <1>2, <2>1 DEF LimitAt
  <2>5. QED
    BY <2>3, <2>4
<1>3. CASE at >= 1830 /\ at < 5872
  <2>1. PICK rule \in CAB_LIFETIME_SCHEDULE : rule.from = 915 /\ rule.days = 398
    BY DEF CAB_LIFETIME_SCHEDULE
  <2>2. /\ at >= 2 * rule.from
        /\ \A later \in CAB_LIFETIME_SCHEDULE :
             later.from > rule.from => at < 2 * later.from
    BY <1>3, <2>1 DEF CAB_LIFETIME_SCHEDULE
  <2>3. /\ InForce(CAB_LIFETIME_SCHEDULE, at) # {}
        /\ Exceeds(span, InForce(CAB_LIFETIME_SCHEDULE, at))
             <=> span > 2 * rule.days
    BY <2>2, OnlyRule
  <2>4. LimitAt(at) = 2 * rule.days /\ at >= 0
    BY <1>3, <2>1 DEF LimitAt
  <2>5. QED
    BY <2>3, <2>4
<1>4. CASE at >= 5872 /\ at < 6602
  <2>1. PICK rule \in CAB_LIFETIME_SCHEDULE : rule.from = 2936 /\ rule.days = 200
    BY DEF CAB_LIFETIME_SCHEDULE
  <2>2. /\ at >= 2 * rule.from
        /\ \A later \in CAB_LIFETIME_SCHEDULE :
             later.from > rule.from => at < 2 * later.from
    BY <1>4, <2>1 DEF CAB_LIFETIME_SCHEDULE
  <2>3. /\ InForce(CAB_LIFETIME_SCHEDULE, at) # {}
        /\ Exceeds(span, InForce(CAB_LIFETIME_SCHEDULE, at))
             <=> span > 2 * rule.days
    BY <2>2, OnlyRule
  <2>4. LimitAt(at) = 2 * rule.days /\ at >= 0
    BY <1>4, <2>1 DEF LimitAt
  <2>5. QED
    BY <2>3, <2>4
<1>5. CASE at >= 6602 /\ at < 8064
  <2>1. PICK rule \in CAB_LIFETIME_SCHEDULE : rule.from = 3301 /\ rule.days = 100
    BY DEF CAB_LIFETIME_SCHEDULE
  <2>2. /\ at >= 2 * rule.from
        /\ \A later \in CAB_LIFETIME_SCHEDULE :
             later.from > rule.from => at < 2 * later.from
    BY <1>5, <2>1 DEF CAB_LIFETIME_SCHEDULE
  <2>3. /\ InForce(CAB_LIFETIME_SCHEDULE, at) # {}
        /\ Exceeds(span, InForce(CAB_LIFETIME_SCHEDULE, at))
             <=> span > 2 * rule.days
    BY <2>2, OnlyRule
  <2>4. LimitAt(at) = 2 * rule.days /\ at >= 0
    BY <1>5, <2>1 DEF LimitAt
  <2>5. QED
    BY <2>3, <2>4
<1>6. CASE at >= 8064
  <2>1. PICK rule \in CAB_LIFETIME_SCHEDULE : rule.from = 4032 /\ rule.days = 47
    BY DEF CAB_LIFETIME_SCHEDULE
  <2>2. /\ at >= 2 * rule.from
        /\ \A later \in CAB_LIFETIME_SCHEDULE :
             later.from > rule.from => at < 2 * later.from
    BY <1>6, <2>1 DEF CAB_LIFETIME_SCHEDULE
  <2>3. /\ InForce(CAB_LIFETIME_SCHEDULE, at) # {}
        /\ Exceeds(span, InForce(CAB_LIFETIME_SCHEDULE, at))
             <=> span > 2 * rule.days
    BY <2>2, OnlyRule
  <2>4. LimitAt(at) = 2 * rule.days /\ at >= 0
    BY <1>6, <2>1 DEF LimitAt
  <2>5. QED
    BY <2>3, <2>4
<1>7. QED
  BY <1>1, <1>2, <1>3, <1>4, <1>5, <1>6

(* The first cap that has not begun, while there is one.                   *)
NextFrom(at) ==
  IF at < 1830 THEN 1830
  ELSE IF at < 5872 THEN 5872
  ELSE IF at < 6602 THEN 6602 ELSE 8064

NextBinding(at, end) == {rule \in next_cap_after(at) : end >= Day * rule.from}

LEMMA OnlyNext ==
  ASSUME NEW at \in Int, NEW rule \in CAB_LIFETIME_SCHEDULE,
         at < 2 * rule.from,
         \A sooner \in CAB_LIFETIME_SCHEDULE :
           sooner.from < rule.from => at >= 2 * sooner.from,
         NEW span \in Int, NEW end \in Int
  PROVE  Exceeds(span, NextBinding(at, end))
           <=> end >= 2 * rule.from /\ span > 2 * rule.days
<1>1. rule \in next_cap_after(at)
  BY DEF next_cap_after, Day
<1>2. ASSUME NEW other \in next_cap_after(at)
      PROVE  other = rule
  <2>1. /\ other \in CAB_LIFETIME_SCHEDULE
        /\ at < 2 * other.from
        /\ rule.from < other.from => at >= 2 * rule.from
    BY <1>2 DEF next_cap_after, Day
  <2>2. /\ other.from \in Int /\ rule.from \in Int
        /\ other.from = rule.from => other = rule
    BY <2>1, ScheduleFacts
  <2>3. ~ (rule.from > other.from) /\ ~ (other.from > rule.from)
    BY <2>1, <2>2
  <2>4. QED
    BY <2>2, <2>3
<1>3. QED
  BY <1>1, <1>2 DEF Exceeds, NextBinding, Day

LEMMA NextAt ==
  ASSUME NEW at \in Int, at >= 0, NEW span \in Int, NEW end \in Int
  PROVE  Exceeds(span, NextBinding(at, end))
           <=> /\ at < 8064
               /\ end >= NextFrom(at)
               /\ span > LimitAt(NextFrom(at))
<1>1. CASE at >= 0 /\ at < 1830
  <2>1. PICK rule \in CAB_LIFETIME_SCHEDULE : rule.from = 915 /\ rule.days = 398
    BY DEF CAB_LIFETIME_SCHEDULE
  <2>2. /\ at < 2 * rule.from
        /\ \A sooner \in CAB_LIFETIME_SCHEDULE :
             sooner.from < rule.from => at >= 2 * sooner.from
    BY <1>1, <2>1 DEF CAB_LIFETIME_SCHEDULE
  <2>3. Exceeds(span, NextBinding(at, end))
          <=> end >= 2 * rule.from /\ span > 2 * rule.days
    BY <2>2, OnlyNext
  <2>4. /\ NextFrom(at) = 2 * rule.from /\ at < 8064
        /\ LimitAt(NextFrom(at)) = 2 * rule.days
    BY <1>1, <2>1 DEF NextFrom, LimitAt
  <2>5. QED
    BY <2>3, <2>4
<1>2. CASE at >= 1830 /\ at < 5872
  <2>1. PICK rule \in CAB_LIFETIME_SCHEDULE : rule.from = 2936 /\ rule.days = 200
    BY DEF CAB_LIFETIME_SCHEDULE
  <2>2. /\ at < 2 * rule.from
        /\ \A sooner \in CAB_LIFETIME_SCHEDULE :
             sooner.from < rule.from => at >= 2 * sooner.from
    BY <1>2, <2>1 DEF CAB_LIFETIME_SCHEDULE
  <2>3. Exceeds(span, NextBinding(at, end))
          <=> end >= 2 * rule.from /\ span > 2 * rule.days
    BY <2>2, OnlyNext
  <2>4. /\ NextFrom(at) = 2 * rule.from /\ at < 8064
        /\ LimitAt(NextFrom(at)) = 2 * rule.days
    BY <1>2, <2>1 DEF NextFrom, LimitAt
  <2>5. QED
    BY <2>3, <2>4
<1>3. CASE at >= 5872 /\ at < 6602
  <2>1. PICK rule \in CAB_LIFETIME_SCHEDULE : rule.from = 3301 /\ rule.days = 100
    BY DEF CAB_LIFETIME_SCHEDULE
  <2>2. /\ at < 2 * rule.from
        /\ \A sooner \in CAB_LIFETIME_SCHEDULE :
             sooner.from < rule.from => at >= 2 * sooner.from
    BY <1>3, <2>1 DEF CAB_LIFETIME_SCHEDULE
  <2>3. Exceeds(span, NextBinding(at, end))
          <=> end >= 2 * rule.from /\ span > 2 * rule.days
    BY <2>2, OnlyNext
  <2>4. /\ NextFrom(at) = 2 * rule.from /\ at < 8064
        /\ LimitAt(NextFrom(at)) = 2 * rule.days
    BY <1>3, <2>1 DEF NextFrom, LimitAt
  <2>5. QED
    BY <2>3, <2>4
<1>4. CASE at >= 6602 /\ at < 8064
  <2>1. PICK rule \in CAB_LIFETIME_SCHEDULE : rule.from = 4032 /\ rule.days = 47
    BY DEF CAB_LIFETIME_SCHEDULE
  <2>2. /\ at < 2 * rule.from
        /\ \A sooner \in CAB_LIFETIME_SCHEDULE :
             sooner.from < rule.from => at >= 2 * sooner.from
    BY <1>4, <2>1 DEF CAB_LIFETIME_SCHEDULE
  <2>3. Exceeds(span, NextBinding(at, end))
          <=> end >= 2 * rule.from /\ span > 2 * rule.days
    BY <2>2, OnlyNext
  <2>4. /\ NextFrom(at) = 2 * rule.from /\ at < 8064
        /\ LimitAt(NextFrom(at)) = 2 * rule.days
    BY <1>4, <2>1 DEF NextFrom, LimitAt
  <2>5. QED
    BY <2>3, <2>4
<1>5. CASE at >= 8064
  <2>1. next_cap_after(at) = {}
    BY <1>5 DEF next_cap_after, CAB_LIFETIME_SCHEDULE, Day
  <2>2. QED
    BY <1>5, <2>1 DEF Exceeds, NextBinding
<1>6. QED
  BY <1>1, <1>2, <1>3, <1>4, <1>5

(* The verdict in numbers.                                                 *)
LEMMA VerdictAt ==
  ASSUME NEW nb \in Int, NEW na \in Int
  PROVE  LET v == Verdict(nb, na)
             over == na - nb > LimitAt(nb)
             overNext == /\ nb < 8064 /\ na >= NextFrom(nb)
                         /\ na - nb > LimitAt(NextFrom(nb))
         IN /\ nb < 0 => v = "unknown"
            /\ nb >= 0 /\ over => v = "non_compliant"
            /\ nb >= 0 /\ ~ over /\ overNext => v = "fails_at_next_renewal"
            /\ nb >= 0 /\ ~ over /\ ~ overNext => v = "compliant"
<1>. DEFINE cap == InForce(CAB_LIFETIME_SCHEDULE, nb)
            span == na - nb
<1>1. span \in Int
  OBVIOUS
<1>2. /\ cap = {} <=> nb < 0
      /\ nb >= 0 => (Exceeds(span, cap) <=> span > LimitAt(nb))
  BY <1>1, CapAt
<1>3. nb >= 0 => (Exceeds(span, NextBinding(nb, na))
                   <=> /\ nb < 8064 /\ na >= NextFrom(nb)
                       /\ span > LimitAt(NextFrom(nb)))
  BY <1>1, NextAt
<1>4. Verdict(nb, na) =
        CASE cap = {} -> "unknown"
          [] Exceeds(span, cap) -> "non_compliant"
          [] cap # {} /\ ~ Exceeds(span, cap) /\ Exceeds(span, NextBinding(nb, na))
               -> "fails_at_next_renewal"
          [] OTHER -> "compliant"
  BY DEF Verdict, NextBinding
<1>5. ~ (nb < 0) <=> nb >= 0
  OBVIOUS
<1>6. cap = {} => ~ Exceeds(span, cap)
  BY DEF Exceeds
<1>. HIDE DEF cap, span
<1>7. QED
  <2>1. nb < 0 => Verdict(nb, na) = "unknown"
    BY <1>2, <1>4, <1>5, <1>6
  <2>2. nb >= 0 /\ span > LimitAt(nb) => Verdict(nb, na) = "non_compliant"
    BY <1>2, <1>4, <1>5
  <2>3. ASSUME nb >= 0, ~ (span > LimitAt(nb)), nb < 8064, na >= NextFrom(nb),
               span > LimitAt(NextFrom(nb))
        PROVE  Verdict(nb, na) = "fails_at_next_renewal"
    BY <1>2, <1>3, <1>4, <1>5, <2>3
  <2>4. ASSUME nb >= 0, ~ (span > LimitAt(nb)),
               ~ (/\ nb < 8064 /\ na >= NextFrom(nb)
                  /\ span > LimitAt(NextFrom(nb)))
        PROVE  Verdict(nb, na) = "compliant"
    BY <1>2, <1>3, <1>4, <1>5, <2>4
  <2>5. QED
    BY <2>1, <2>2, <2>3, <2>4 DEF span

(* Between a cap and the next but one a certificate of the next cannot     *)
(* last: the schedule leaves every cap in force for longer than it allows. *)
LEMMA RenewalLemma ==
  ASSUME NEW nb \in Int, NEW na \in Int, NEW nb2 \in Int, NEW na2 \in Int,
         nb2 >= nb, na2 - nb2 = na - nb
  PROVE  /\ Verdict(nb, na) = "compliant" /\ nb2 <= na
              => Verdict(nb2, na2) \in {"compliant", "fails_at_next_renewal"}
         /\ Verdict(nb, na) = "fails_at_next_renewal" /\ nb2 >= na
              => Verdict(nb2, na2) = "non_compliant"
<1>. DEFINE over(b, a) == a - b > LimitAt(b)
            overNext(b, a) == /\ b < 8064 /\ a >= NextFrom(b)
                              /\ a - b > LimitAt(NextFrom(b))
<1>1. ASSUME Verdict(nb, na) = "compliant", nb2 <= na
      PROVE  Verdict(nb2, na2) \in {"compliant", "fails_at_next_renewal"}
  <2>1. nb >= 0 /\ ~ over(nb, na) /\ ~ overNext(nb, na)
    BY <1>1, VerdictAt
  <2>2. nb2 >= 0 /\ ~ over(nb2, na2)
    BY <1>1, <2>1 DEF LimitAt, NextFrom
  <2>3. QED
    BY <2>2, VerdictAt
<1>2. ASSUME Verdict(nb, na) = "fails_at_next_renewal", nb2 >= na
      PROVE  Verdict(nb2, na2) = "non_compliant"
  <2>1. nb >= 0 /\ ~ over(nb, na) /\ overNext(nb, na)
    BY <1>2, VerdictAt
  <2>2. nb2 >= 0 /\ over(nb2, na2)
    BY <1>2, <2>1 DEF LimitAt, NextFrom
  <2>3. QED
    BY <2>2, VerdictAt
<1>3. QED
  BY <1>1, <1>2

(* Time only moves a certificate to a tighter tier, and the days of its    *)
(* last day are none.                                                      *)
LEMMA DaysPass ==
  ASSUME NEW na \in Int, NEW early \in Int, NEW late \in Int, early <= late
  PROVE  /\ Days(na - late) \in Int /\ Days(na - early) \in Int
         /\ Days(na - late) <= Days(na - early)
         /\ na < early + Day => Days(na - early) <= 0
         /\ na < early <=> Days(na - early) < 0
  BY DEF Days, Day

LEMMA TiersTighten ==
  ASSUME NEW l, NEW k, NEW tier \in {Critical, Warning, Notice},
         l.lifetime_days \in Int, k.lifetime_days = l.lifetime_days,
         l.days_remaining \in Int, k.days_remaining \in Int,
         k.days_remaining <= l.days_remaining, Reaches(l, tier)
  PROVE  Reaches(k, tier)
<1>1. PICK part \in {12, 6, 3}, floor \in {1, 2}, fixed \in {7, 14, 30} :
        tier.part = part /\ tier.floor_days = floor /\ tier.fixed_days = fixed
  BY DEF Critical, Warning, Notice
<1>2. PICK r \in Int, q \in Int, total \in Int :
        /\ l.days_remaining = r /\ k.days_remaining = q /\ q <= r
        /\ total = IF l.lifetime_days > 1 THEN l.lifetime_days ELSE 1
  OBVIOUS
<1>3. r <= fixed /\ (r <= floor \/ part * r <= total)
  BY <1>1, <1>2 DEF Reaches
<1>4. q <= fixed /\ (q <= floor \/ part * q <= total)
  <2>1. CASE part = 12
    BY <1>1, <1>2, <1>3, <2>1
  <2>2. CASE part = 6
    BY <1>1, <1>2, <1>3, <2>2
  <2>3. CASE part = 3
    BY <1>1, <1>2, <1>3, <2>3
  <2>4. QED
    BY <2>1, <2>2, <2>3
<1>5. QED
  BY <1>1, <1>2, <1>4 DEF Reaches

(* An alarm never abates, and comes a day before the expiry at the latest. *)
LEMMA AlarmLemma ==
  ASSUME NEW nb \in Int, NEW na \in Int, NEW early \in Int, NEW late \in Int,
         early <= late
  PROVE  LET was == expiry_alert(audit_lifetime(nb, na, early))
             is == expiry_alert(audit_lifetime(nb, na, late))
         IN /\ SEVERITY[was] <= SEVERITY[is]
            /\ is = "expired" /\ late <= early + Day
                 => was \in {"critical", "expired"}
<1>. DEFINE l == audit_lifetime(nb, na, early)
            k == audit_lifetime(nb, na, late)
<1>1. /\ l.lifetime_days = Days(na - nb) /\ k.lifetime_days = Days(na - nb)
      /\ l.days_remaining = Days(na - early) /\ k.days_remaining = Days(na - late)
      /\ (l.expired <=> early > na) /\ (k.expired <=> late > na)
  BY DEF audit_lifetime
<1>2. Days(na - nb) \in Int
  BY DEF Days, Day
<1>3. /\ Days(na - late) \in Int /\ Days(na - early) \in Int
      /\ Days(na - late) <= Days(na - early)
      /\ na < early + Day => Days(na - early) <= 0
  BY DaysPass
<1>4. l.expired => k.expired
  BY <1>1
<1>5. \A tier \in {Critical, Warning, Notice} : Reaches(l, tier) => Reaches(k, tier)
  BY <1>1, <1>2, <1>3, TiersTighten
<1>6. k.expired /\ late <= early + Day => l.expired \/ Reaches(l, Critical)
  <2>1. SUFFICES ASSUME k.expired, late <= early + Day
                 PROVE  Reaches(l, Critical)
    OBVIOUS
  <2>2. Days(na - early) <= 0
    BY <1>1, <1>3, <2>1 DEF Day
  <2>3. QED
    BY <1>1, <1>2, <1>3, <2>2 DEF Reaches, Critical
<1>. HIDE DEF l, k
<1>7. SEVERITY["ok"] = 0 /\ SEVERITY["notice"] = 1 /\ SEVERITY["warning"] = 2
      /\ SEVERITY["critical"] = 3 /\ SEVERITY["expired"] = 4
  BY DEF SEVERITY
<1>8. SEVERITY[expiry_alert(l)] <= SEVERITY[expiry_alert(k)]
  BY <1>4, <1>5, <1>7 DEF expiry_alert
<1>9. expiry_alert(k) = "expired" /\ late <= early + Day
        => expiry_alert(l) \in {"critical", "expired"}
  BY <1>4, <1>6 DEF expiry_alert
<1>10. QED
  BY <1>8, <1>9 DEF l, k

(* What is kept of a handshake, also once it was graded and judged: each   *)
(* lifetime is that of some pair of dates, audited at the instant of the   *)
(* result, and the alarm is the one of that lifetime.                      *)
Dated(r) ==
  /\ {"at", "certificate", "alert"} \subseteq DOMAIN r
  /\ r.at \in Int
  /\ \A c \in r.certificate :
       \E nb \in Int, na \in Int :
         /\ c.lifetime = audit_lifetime(nb, na, r.at)
         /\ r.alert = expiry_alert(c.lifetime)

DatedInv ==
  /\ now \in Int
  /\ options \in Options
  /\ result = [t \in Targets |-> result[t]]
  /\ \A t \in Targets : \A r \in result[t] : Dated(r)

(* What scans, grading and audits add to a handshake touches some fields of *)
(* the result and no others.                                               *)
Changes(q, r, fields) ==
  /\ DOMAIN q = DOMAIN r
  /\ \A f \in DOMAIN r \ fields : q[f] = r[f]

LEMMA ScannedChanges ==
  ASSUME NEW r, NEW e
  PROVE  Changes(Scanned(r, e), r, {"enumeration", "cipher_preference", "deep"})
BY DEF Changes, Scanned

LEMMA GradedChanges ==
  ASSUME NEW r
  PROVE  Changes(Graded(r), r, {"grade"})
BY DEF Changes, Graded

LEMMA ProfiledChanges ==
  ASSUME NEW r, NEW found, NEW error
  PROVE  Changes(Profiled(r, found, error), r, {"profile_audit"})
BY DEF Changes, Profiled

LEMMA JudgedChanges ==
  ASSUME NEW r, NEW policy
  PROVE  Changes(evaluate_policy(r, policy), r, {"failures", "compliant"})
BY DEF Changes, evaluate_policy

(* A check leaves one result of its target, and the others alone.          *)
CheckedAs(t, r) ==
  /\ result' = [u \in Targets |-> result'[u]]
  /\ result'[t] = {r}
  /\ \A u \in Targets \ {t} : result'[u] = result[u]
  /\ UNCHANGED <<now, options, stage, ended>>

LEMMA CheckLeaves ==
  ASSUME result = [t \in Targets |-> result[t]], NEW t \in Targets, Check(t)
  PROVE  \E e \in Presents[t] : \E own, error :
           CheckedAs(t, Profiled(Result(t, e), own, error))
<1>1. PICK e \in Presents[t] : \E own :
        result' = [result EXCEPT ![t] =
                     {Profiled(Result(t, e), own, guidelines'.held = {})}]
  BY DEF Check
<1>2. UNCHANGED <<now, options, stage, ended>>
  BY DEF Check
<1>3. PICK own : result' = [result EXCEPT ![t] =
                     {Profiled(Result(t, e), own, guidelines'.held = {})}]
  BY <1>1
<1>4. CheckedAs(t, Profiled(Result(t, e), own, guidelines'.held = {}))
  BY <1>2, <1>3 DEF CheckedAs
<1>5. QED
  BY <1>4

LEMMA KeptIsDated ==
  ASSUME NEW r, NEW q, NEW fields, Dated(r), Changes(q, r, fields),
         fields \cap {"at", "certificate", "alert"} = {}
  PROVE  Dated(q)
<1>1. /\ {"at", "certificate", "alert"} \subseteq DOMAIN q
      /\ q.at = r.at /\ q.certificate = r.certificate /\ q.alert = r.alert
  BY DEF Dated, Changes
<1>2. QED
  BY <1>1 DEF Dated

LEMMA ObservedIsDated ==
  ASSUME NEW t \in Targets, NEW e \in Presents[t], NEW at \in Int
  PROVE  Dated(Observed(t, e, at))
<1>. DEFINE info == {parse_certificate(wire, at) : wire \in e.wire}
            o == Observed(t, e, at)
<1>1. \A c, d \in info : c = d
  BY PresentsAssumption
<1>2. \A c \in info :
        \E nb \in Int, na \in Int : c.lifetime = audit_lifetime(nb, na, at)
  <2>1. SUFFICES ASSUME NEW wire \in e.wire
                 PROVE  \E nb \in Int, na \in Int :
                          parse_certificate(wire, at).lifetime
                            = audit_lifetime(nb, na, at)
    OBVIOUS
  <2>2. /\ wire.not_before \in Int /\ wire.not_after \in Int
        /\ parse_certificate(wire, at).lifetime
             = audit_lifetime(wire.not_before, wire.not_after, at)
    BY PresentsAssumption DEF parse_certificate
  <2>3. QED
    BY <2>2
<1>3. /\ {"at", "certificate", "alert"} \subseteq DOMAIN o
      /\ o.at = at /\ o.certificate = info
  BY DEF Observed
<1>4. o.alert = IF info = {} THEN "unknown"
                ELSE LET c == CHOOSE c \in info : TRUE IN expiry_alert(c.lifetime)
  BY DEF Observed
<1>. HIDE DEF info, o
<1>5. \A c \in info : o.alert = expiry_alert(c.lifetime)
  <2>1. SUFFICES ASSUME NEW c \in info
                 PROVE  o.alert = expiry_alert(c.lifetime)
    OBVIOUS
  <2>2. (CHOOSE d \in info : TRUE) \in info
    OBVIOUS
  <2>3. (CHOOSE d \in info : TRUE) = c
    BY <1>1, <2>2
  <2>4. QED
    BY <1>4, <2>3
<1>6. QED
  BY <1>2, <1>3, <1>5 DEF Dated, o

LEMMA UnmeasuredIsDated ==
  ASSUME NEW at \in Int
  PROVE  Dated(Unmeasured(at))
BY DEF Dated, Unmeasured

LEMMA AsOfIsInt ==
  ASSUME DatedInv
  PROVE  AsOf \in Int
<1>1. options.as_of \subseteq Int
  BY OptionsAssumption DEF DatedInv
<1>2. CASE options.as_of = {}
  BY <1>2 DEF AsOf, DatedInv
<1>3. CASE options.as_of # {}
  <2>1. (CHOOSE at \in options.as_of : TRUE) \in options.as_of
    BY <1>3
  <2>2. QED
    BY <1>1, <1>3, <2>1 DEF AsOf
<1>4. QED
  BY <1>2, <1>3

LEMMA ResultIsDated ==
  ASSUME DatedInv, NEW t \in Targets, NEW e \in Presents[t]
  PROVE  Dated(Result(t, e))
<1>. DEFINE handshake == IF Negotiable(e) = {} THEN Unmeasured(AsOf)
                         ELSE Observed(t, e, AsOf)
<1>1. Dated(handshake)
  BY AsOfIsInt, ObservedIsDated, UnmeasuredIsDated
<1>. HIDE DEF handshake
<1>2. Dated(Scanned(handshake, e))
  BY <1>1, ScannedChanges, KeptIsDated
<1>3. Dated(Graded(Scanned(handshake, e)))
  BY <1>2, GradedChanges, KeptIsDated
<1>4. QED
  BY <1>3 DEF Result, handshake

LEMMA InitDated == Init => DatedInv
<1>. SUFFICES ASSUME Init
              PROVE  DatedInv
  OBVIOUS
<1>1. now \in Int
  <2>1. \E first \in Instants : \A at \in Instants : first <= at
    BY InstantsAssumption
  <2>2. Min(Instants) \in Instants
    BY <2>1 DEF Min
  <2>3. QED
    BY <2>2, InstantsAssumption DEF Init
<1>2. result = [t \in Targets |-> {}]
  BY DEF Init
<1>3. result = [t \in Targets |-> result[t]] /\ \A t \in Targets : result[t] = {}
  BY <1>2
<1>4. QED
  BY <1>1, <1>3 DEF Init, DatedInv

LEMMA NextDated == DatedInv /\ [Next]_vars => DatedInv'
<1>. SUFFICES ASSUME DatedInv, [Next]_vars
              PROVE  DatedInv'
  OBVIOUS
<1>1. ASSUME UNCHANGED <<now, options, result>>
      PROVE  DatedInv'
  BY <1>1 DEF DatedInv
<1>2. CASE Launch
  BY <1>1, <1>2 DEF Launch
<1>3. ASSUME NEW t \in Targets, Check(t)
      PROVE  DatedInv'
  <2>1. PICK e \in Presents[t] : \E own, error :
          CheckedAs(t, Profiled(Result(t, e), own, error))
    BY <1>3, CheckLeaves DEF DatedInv
  <2>2. PICK own, error : CheckedAs(t, Profiled(Result(t, e), own, error))
    BY <2>1
  <2>3. Dated(Profiled(Result(t, e), own, error))
    BY ResultIsDated, ProfiledChanges, KeptIsDated
  <2>4. QED
    BY <2>2, <2>3 DEF DatedInv, CheckedAs
<1>4. CASE Judge
  <2>1. /\ result' = [t \in Targets |->
                        {evaluate_policy(r, options.policy) : r \in result[t]}]
        /\ now' = now /\ options' = options
    BY <1>4 DEF Judge
  <2>2. \A t \in Targets : \A r \in result'[t] : Dated(r)
    BY <2>1, JudgedChanges, KeptIsDated DEF DatedInv
  <2>3. QED
    BY <2>1, <2>2 DEF DatedInv
<1>5. CASE Gate
  BY <1>1, <1>5 DEF Gate, Ends
<1>6. CASE Interrupt
  BY <1>1, <1>6 DEF Interrupt, Ends
<1>7. CASE Break
  BY <1>1, <1>7 DEF Break, Ends
<1>8. CASE Later
  <2>1. now' \in Int /\ UNCHANGED <<options, result>>
    BY <1>8, InstantsAssumption DEF Later
  <2>2. QED
    BY <2>1 DEF DatedInv
<1>9. CASE UNCHANGED vars
  BY <1>1, <1>9 DEF vars
<1>10. QED
  BY <1>2, <1>3, <1>4, <1>5, <1>6, <1>7, <1>8, <1>9 DEF Next

(* What a result says of the lifetime of a certificate, and the alarm about *)
(* it, are those of the instant of the check.                              *)
THEOREM DatedResults == Spec => []DatedInv
<1>1. QED
  BY InitDated, NextDated, PTL DEF Spec

(* Whatever certificates the targets present, at whatever instants they    *)
(* are checked: no alarm abates, and none is first raised by the expiry.   *)
THEOREM AlarmsComeInTime == Spec => AlarmsInTime
<1>1. ASSUME DatedInv, DatedInv', NEW t \in Targets,
             NEW r \in result[t], NEW q \in result'[t],
             NEW l \in Lifetimes(r), NEW k \in Lifetimes(q),
             l.not_before = k.not_before, l.not_after = k.not_after,
             r.at <= q.at
      PROVE  /\ SEVERITY[r.alert] <= SEVERITY[q.alert]
             /\ q.alert = "expired" /\ q.at <= r.at + Day
                  => r.alert \in {"critical", "expired"}
  <2>1. Dated(r) /\ Dated(q)
    BY <1>1 DEF DatedInv
  <2>2. PICK nb \in Int, na \in Int :
          l = audit_lifetime(nb, na, r.at) /\ r.alert = expiry_alert(l)
    BY <1>1, <2>1 DEF Dated, Lifetimes
  <2>3. PICK mb \in Int, ma \in Int :
          k = audit_lifetime(mb, ma, q.at) /\ q.alert = expiry_alert(k)
    BY <1>1, <2>1 DEF Dated, Lifetimes
  <2>4. mb = nb /\ ma = na
    BY <1>1, <2>2, <2>3 DEF audit_lifetime
  <2>5. r.at \in Int /\ q.at \in Int
    BY <2>1 DEF Dated
  <2>6. QED
    BY <1>1, <2>2, <2>3, <2>4, <2>5, AlarmLemma
<1>2. DatedInv /\ DatedInv' =>
        \A t \in Targets : \A r \in result[t], q \in result'[t] :
          \A l \in Lifetimes(r), k \in Lifetimes(q) :
            (/\ l.not_before = k.not_before
             /\ l.not_after = k.not_after
             /\ r.at <= q.at)
            => /\ SEVERITY[r.alert] <= SEVERITY[q.alert]
               /\ (q.alert = "expired" /\ q.at <= r.at + Day)
                    => r.alert \in {"critical", "expired"}
  BY <1>1
<1>3. QED
  BY <1>2, DatedResults, PTL DEF AlarmsInTime

(* Whatever caps begin between two checks: a certificate found compliant   *)
(* can be renewed for as long, one said to fail cannot.                    *)
THEOREM RenewalsAreForetold == Spec => RenewalIsForetold
<1>1. ASSUME DatedInv, DatedInv', NEW t \in Targets,
             NEW r \in result[t], NEW q \in result'[t],
             NEW l \in Lifetimes(r), NEW k \in Lifetimes(q), Renewed(l, k)
      PROVE  /\ (l.verdict = "compliant" /\ k.not_before <= l.not_after)
                   => k.verdict \in {"compliant", "fails_at_next_renewal"}
             /\ (l.verdict = "fails_at_next_renewal" /\ k.not_before >= l.not_after)
                   => k.verdict = "non_compliant"
  <2>1. Dated(r) /\ Dated(q)
    BY <1>1 DEF DatedInv
  <2>2. PICK nb \in Int, na \in Int : l = audit_lifetime(nb, na, r.at)
    BY <1>1, <2>1 DEF Dated, Lifetimes
  <2>3. PICK mb \in Int, ma \in Int : k = audit_lifetime(mb, ma, q.at)
    BY <1>1, <2>1 DEF Dated, Lifetimes
  <2>4. /\ l.not_before = nb /\ l.not_after = na /\ l.verdict = Verdict(nb, na)
        /\ k.not_before = mb /\ k.not_after = ma /\ k.verdict = Verdict(mb, ma)
    BY <2>2, <2>3 DEF audit_lifetime
  <2>5. mb >= nb /\ ma - mb = na - nb
    BY <1>1, <2>4 DEF Renewed
  <2>6. QED
    BY <2>4, <2>5, RenewalLemma
<1>2. DatedInv /\ DatedInv' =>
        \A t \in Targets : \A r \in result[t], q \in result'[t] :
          \A l \in Lifetimes(r), k \in Lifetimes(q) :
            Renewed(l, k)
            => /\ (l.verdict = "compliant" /\ k.not_before <= l.not_after)
                    => k.verdict \in {"compliant", "fails_at_next_renewal"}
               /\ (l.verdict = "fails_at_next_renewal" /\ k.not_before >= l.not_after)
                    => k.verdict = "non_compliant"
  BY <1>1
<1>3. QED
  BY <1>2, DatedResults, PTL DEF RenewalIsForetold

-------------------------------------------------------------------------------
(* What the grade says of the certificate. *)

LEMMA MaxOfGrades ==
  ASSUME NEW S \in SUBSET (1 .. 7), S # {}
  PROVE  Max(S) \in S
<1>1. S \subseteq {1, 2, 3, 4, 5, 6, 7} /\ \A y \in S : y \in Int
  OBVIOUS
<1>2. \E x \in S : \A y \in S : x >= y
  <2>1. CASE 7 \in S
    BY <1>1, <2>1
  <2>2. CASE 7 \notin S /\ 6 \in S
    BY <1>1, <2>2
  <2>3. CASE {7, 6} \cap S = {} /\ 5 \in S
    BY <1>1, <2>3
  <2>4. CASE {7, 6, 5} \cap S = {} /\ 4 \in S
    BY <1>1, <2>4
  <2>5. CASE {7, 6, 5, 4} \cap S = {} /\ 3 \in S
    BY <1>1, <2>5
  <2>6. CASE {7, 6, 5, 4, 3} \cap S = {} /\ 2 \in S
    BY <1>1, <2>6
  <2>7. CASE {7, 6, 5, 4, 3, 2} \cap S = {}
    <3>1. 1 \in S /\ \A y \in S : y = 1
      BY <1>1, <2>7
    <3>2. QED
      BY <3>1
  <2>8. QED
    BY <2>1, <2>2, <2>3, <2>4, <2>5, <2>6, <2>7
<1>3. QED
  BY <1>2 DEF Max

LEMMA ScoreGrades == \A score : score_to_grade(score) \in 1 .. 7
  BY DEF score_to_grade, A, B, C, D, E, F

LEMMA CeilingGrades ==
  ASSUME NEW r
  PROVE  Ceilings(r) \subseteq 1 .. 7
<1>1. ProtocolCeilings(Versions(r)) \subseteq 1 .. 7
  BY DEF ProtocolCeilings, A_MINUS, B, C, F
<1>2. \A f \in DOMAIN CeilingOf : CeilingOf[f] \in 1 .. 7
  BY DEF CeilingOf, B, C, F
<1>3. FlawCeilings(r) \subseteq 1 .. 7
  BY <1>2 DEF FlawCeilings, B, C, F
<1>4. QED
  BY <1>1, <1>3 DEF Ceilings, B, C

(* T, M and F are given for a reason, and a certificate that fails         *)
(* outright or is revoked gets nothing better, whatever the ceilings.      *)
LEMMA GradeFacts ==
  ASSUME NEW r, NEW c
  PROVE  /\ FailsOutright(c) \/ r.revoked => GradeOf(r, c) \in {F, T, M}
         /\ GradeOf(r, c) = M => r.hostname_match = "mismatch"
         /\ GradeOf(r, c) = T => Untrusted(r, c)
<1>. DEFINE S == {score_to_grade(Score(r, c))} \cup Ceilings(r)
<1>1. Max(S) \in 1 .. 7
  <2>1. S \subseteq 1 .. 7 /\ S # {}
    BY ScoreGrades, CeilingGrades
  <2>2. QED
    BY <2>1, MaxOfGrades
<1>2. CASE r.hostname_match = "mismatch"
  BY <1>2 DEF GradeOf, M, T
<1>3. CASE r.hostname_match # "mismatch" /\ Untrusted(r, c)
  BY <1>3 DEF GradeOf, M, T
<1>4. CASE /\ r.hostname_match # "mismatch" /\ ~ Untrusted(r, c)
           /\ FailsOutright(c)
  BY <1>4 DEF GradeOf, M, T, F
<1>5. CASE /\ r.hostname_match # "mismatch" /\ ~ Untrusted(r, c)
           /\ ~ FailsOutright(c)
  <2>1. ~ r.revoked
    BY <1>5 DEF Untrusted
  <2>2. GradeOf(r, c) \in {Ungraded, Max(S)}
    BY <1>5 DEF GradeOf
  <2>3. GradeOf(r, c) # M /\ GradeOf(r, c) # T
    BY <1>1, <2>2 DEF Ungraded, M, T
  <2>4. QED
    BY <1>5, <2>1, <2>3
<1>6. QED
  BY <1>2, <1>3, <1>4, <1>5

(* The failures of a policy, one by one. *)
LEMMA FailureFacts ==
  ASSUME NEW r, NEW c, NEW policy, r.certificate = {c}
  PROVE  LET failures == PolicyFailures(r, policy)
         IN /\ "expired" \in failures <=> c.lifetime.expired
            /\ failures \cap OutrightFailures # {} => FailsOutright(c) \/ r.revoked
            /\ r.hostname_match = "mismatch"
                 => "hostname" \in failures \cup policy.allowed
            /\ r.revoked => "revoked" \in failures \cup policy.allowed
            /\ (/\ r.chain_audit.attempted /\ ~ r.chain_audit.verified
                /\ "valid_chain" \in policy.required)
                 => "invalid_chain" \in failures
<1>. DEFINE connection == ConnectionFailures(r, policy)
            found == CertificateFailures(r, c, policy)
<1>1. PolicyFailures(r, policy) = connection \cup found
  BY DEF PolicyFailures
<1>2. connection \cap OutrightFailures = {}
  BY DEF ConnectionFailures, OutrightFailures
<1>3. r.hostname_match = "mismatch" => "hostname" \in connection \cup policy.allowed
  BY DEF ConnectionFailures
<1>4. "expired" \in found <=> c.lifetime.expired
  BY DEF CertificateFailures
<1>5. /\ "weak_key" \in found => c.weak_key
      /\ "weak_signature" \in found => c.signature_weak
      /\ "not_yet_valid" \in found => c.lifetime.not_yet_valid
      /\ "revoked" \in found => r.revoked
  BY DEF CertificateFailures
<1>6. r.revoked => "revoked" \in found \cup policy.allowed
  BY DEF CertificateFailures
<1>7. (/\ r.chain_audit.attempted /\ ~ r.chain_audit.verified
       /\ "valid_chain" \in policy.required)
        => "invalid_chain" \in found
  BY DEF CertificateFailures
<1>. HIDE DEF connection, found
<1>8. "expired" \notin connection
  BY <1>2 DEF OutrightFailures
<1>9. found \cap OutrightFailures # {} => FailsOutright(c) \/ r.revoked
  BY <1>4, <1>5 DEF OutrightFailures, FailsOutright
<1>10. QED
  BY <1>1, <1>2, <1>3, <1>4, <1>6, <1>7, <1>8, <1>9

(* A measured result is a whole one, with one certificate or none.         *)
WholeResult(r) ==
  /\ {"measured", "certificate", "grade", "compliant", "failures"} \subseteq DOMAIN r
  /\ \A c \in r.certificate : r.certificate = {c}
  /\ ~ r.measured => r.certificate = {} /\ r.compliant = {}
  /\ r.measured => {"hostname_match", "chain_audit", "revoked"} \subseteq DOMAIN r

GradedFairly(r) ==
  \A c \in r.certificate :
    /\ FailsOutright(c) \/ r.revoked => r.grade \in {F, T, M}
    /\ r.grade = M => r.hostname_match = "mismatch"
    /\ r.grade = T => Untrusted(r, c)

JudgedFairly(r, policy) ==
  r.compliant # {} =>
    \A c \in r.certificate :
      /\ "expired" \in r.failures <=> c.lifetime.expired
      /\ r.failures \cap OutrightFailures # {} => FailsOutright(c) \/ r.revoked
      /\ r.hostname_match = "mismatch"
           => "hostname" \in r.failures \cup policy.allowed
      /\ r.revoked => "revoked" \in r.failures \cup policy.allowed
      /\ (/\ r.chain_audit.attempted /\ ~ r.chain_audit.verified
          /\ "valid_chain" \in policy.required)
           => "invalid_chain" \in r.failures

Fair(r, grading, policy) ==
  /\ WholeResult(r)
  /\ grading => GradedFairly(r)
  /\ JudgedFairly(r, policy)

FairInv ==
  /\ result = [t \in Targets |-> result[t]]
  /\ \A t \in Targets : \A r \in result[t] : Fair(r, options.grade, options.policy)

LEMMA ObservedIsWhole ==
  ASSUME NEW t \in Targets, NEW e \in Presents[t], NEW at
  PROVE  /\ WholeResult(Observed(t, e, at))
         /\ Observed(t, e, at).measured
         /\ Observed(t, e, at).compliant = {}
<1>. DEFINE info == {parse_certificate(wire, at) : wire \in e.wire}
            o == Observed(t, e, at)
<1>1. \A c \in info : info = {c}
  BY PresentsAssumption
<1>2. /\ {"measured", "certificate", "grade", "compliant", "failures"} \subseteq DOMAIN o
      /\ {"hostname_match", "chain_audit", "revoked"} \subseteq DOMAIN o
      /\ o.certificate = info /\ o.measured /\ o.compliant = {}
  BY DEF Observed
<1>. HIDE DEF info, o
<1>3. QED
  BY <1>1, <1>2 DEF WholeResult, o

LEMMA WholeIsKept ==
  ASSUME NEW r, NEW q, NEW fields, WholeResult(r), Changes(q, r, fields),
         fields \cap {"measured", "certificate", "compliant", "hostname_match",
                      "chain_audit", "revoked"} = {}
  PROVE  WholeResult(q)
<1>1. /\ DOMAIN q = DOMAIN r
      /\ q.measured = r.measured /\ q.certificate = r.certificate
      /\ q.compliant = r.compliant
  BY DEF WholeResult, Changes
<1>2. QED
  BY <1>1 DEF WholeResult

LEMMA GradedIsFair ==
  ASSUME NEW o, WholeResult(o), o.compliant = {}, NEW policy
  PROVE  Fair(Graded(o), options.grade, policy)
<1>. DEFINE q == Graded(o)
<1>1. WholeResult(q)
  BY GradedChanges, WholeIsKept
<1>2. /\ DOMAIN q = DOMAIN o
      /\ q.certificate = o.certificate /\ q.compliant = {}
      /\ options.grade => q.grade = grade_certificate(o)
      /\ o.measured => /\ q.hostname_match = o.hostname_match
                      /\ q.chain_audit = o.chain_audit
                      /\ q.revoked = o.revoked
  BY DEF Graded, WholeResult
<1>. HIDE DEF q
<1>3. ASSUME options.grade
      PROVE  GradedFairly(q)
  <2>1. SUFFICES ASSUME NEW c \in o.certificate
                 PROVE  /\ FailsOutright(c) \/ q.revoked => q.grade \in {F, T, M}
                        /\ q.grade = M => q.hostname_match = "mismatch"
                        /\ q.grade = T => Untrusted(q, c)
    BY <1>2 DEF GradedFairly
  <2>2. o.certificate = {c} /\ o.measured
    BY <2>1 DEF WholeResult
  <2>3. (CHOOSE d \in {c} : TRUE) = c
    OBVIOUS
  <2>4. q.grade = GradeOf(o, c)
    BY <1>2, <1>3, <2>2, <2>3 DEF grade_certificate
  <2>5. Untrusted(o, c) => Untrusted(q, c)
    BY <1>2, <2>2 DEF Untrusted
  <2>6. QED
    BY <1>2, <2>2, <2>4, <2>5, GradeFacts
<1>4. JudgedFairly(q, policy)
  BY <1>2 DEF JudgedFairly
<1>5. QED
  BY <1>1, <1>3, <1>4 DEF Fair, q

LEMMA ResultIsFair ==
  ASSUME NEW t \in Targets, NEW e \in Presents[t]
  PROVE  Fair(Result(t, e), options.grade, options.policy)
<1>. DEFINE handshake == IF Negotiable(e) = {} THEN Unmeasured(AsOf)
                         ELSE Observed(t, e, AsOf)
            scan == Scanned(handshake, e)
<1>1. WholeResult(Unmeasured(AsOf)) /\ Unmeasured(AsOf).compliant = {}
  BY DEF Unmeasured, WholeResult
<1>2. WholeResult(handshake) /\ handshake.compliant = {}
  BY <1>1, ObservedIsWhole
<1>. HIDE DEF handshake
<1>3. WholeResult(scan)
  BY <1>2, ScannedChanges, WholeIsKept
<1>4. scan.compliant = {}
  BY <1>2, ScannedChanges DEF Changes, WholeResult
<1>5. QED
  BY <1>3, <1>4, GradedIsFair DEF Result, handshake

LEMMA ProfiledIsFair ==
  ASSUME NEW r, NEW grading, NEW policy, Fair(r, grading, policy),
         NEW found, NEW error
  PROVE  Fair(Profiled(r, found, error), grading, policy)
<1>. DEFINE q == Profiled(r, found, error)
<1>1. WholeResult(q)
  BY ProfiledChanges, WholeIsKept DEF Fair
<1>2. /\ q.certificate = r.certificate /\ q.compliant = r.compliant
      /\ q.failures = r.failures /\ q.grade = r.grade
      /\ r.measured => /\ q.hostname_match = r.hostname_match
                      /\ q.chain_audit = r.chain_audit
                      /\ q.revoked = r.revoked
  BY ProfiledChanges DEF Changes, Fair, WholeResult
<1>. HIDE DEF q
<1>3. r.certificate # {} => r.measured
  BY DEF Fair, WholeResult
<1>4. grading => GradedFairly(q)
  BY <1>2, <1>3 DEF Fair, GradedFairly, Untrusted
<1>5. JudgedFairly(q, policy)
  BY <1>2, <1>3 DEF Fair, JudgedFairly
<1>6. QED
  BY <1>1, <1>4, <1>5 DEF Fair, q

LEMMA JudgedIsFair ==
  ASSUME NEW r, NEW grading, NEW policy, Fair(r, grading, policy)
  PROVE  Fair(evaluate_policy(r, policy), grading, policy)
<1>1. CASE ~ r.measured
  BY <1>1 DEF evaluate_policy
<1>2. CASE r.measured
  <2>. DEFINE q == evaluate_policy(r, policy)
  <2>1. /\ DOMAIN q = DOMAIN r
        /\ q.certificate = r.certificate /\ (q.measured <=> r.measured)
        /\ q.hostname_match = r.hostname_match /\ q.chain_audit = r.chain_audit
        /\ (q.revoked <=> r.revoked) /\ q.grade = r.grade
        /\ q.failures = PolicyFailures(r, policy)
    BY <1>2 DEF evaluate_policy, Fair, WholeResult
  <2>. HIDE DEF q
  <2>2. WholeResult(q)
    BY <1>2, <2>1 DEF Fair, WholeResult
  <2>3. grading => GradedFairly(q)
    BY <2>1 DEF Fair, GradedFairly, Untrusted
  <2>4. JudgedFairly(q, policy)
    <3>1. SUFFICES ASSUME NEW c \in r.certificate
                   PROVE  /\ "expired" \in q.failures <=> c.lifetime.expired
                          /\ q.failures \cap OutrightFailures # {}
                               => FailsOutright(c) \/ q.revoked
                          /\ q.hostname_match = "mismatch"
                               => "hostname" \in q.failures \cup policy.allowed
                          /\ q.revoked => "revoked" \in q.failures \cup policy.allowed
                          /\ (/\ q.chain_audit.attempted /\ ~ q.chain_audit.verified
                              /\ "valid_chain" \in policy.required)
                               => "invalid_chain" \in q.failures
      BY <2>1 DEF JudgedFairly
    <3>2. r.certificate = {c}
      BY <3>1 DEF Fair, WholeResult
    <3>3. QED
      BY <2>1, <3>2, FailureFacts
  <2>5. QED
    BY <2>2, <2>3, <2>4 DEF Fair, q
<1>3. QED
  BY <1>1, <1>2

LEMMA InitFair == Init => FairInv
<1>. SUFFICES ASSUME Init
              PROVE  FairInv
  OBVIOUS
<1>1. result = [t \in Targets |-> result[t]] /\ \A t \in Targets : result[t] = {}
  BY DEF Init
<1>2. QED
  BY <1>1 DEF FairInv

LEMMA NextFair == FairInv /\ [Next]_vars => FairInv'
<1>. SUFFICES ASSUME FairInv, [Next]_vars
              PROVE  FairInv'
  OBVIOUS
<1>1. ASSUME UNCHANGED <<options, result>>
      PROVE  FairInv'
  BY <1>1 DEF FairInv
<1>2. CASE Launch
  BY <1>1, <1>2 DEF Launch
<1>3. ASSUME NEW t \in Targets, Check(t)
      PROVE  FairInv'
  <2>1. PICK e \in Presents[t] : \E own, error :
          CheckedAs(t, Profiled(Result(t, e), own, error))
    BY <1>3, CheckLeaves DEF FairInv
  <2>2. PICK own, error : CheckedAs(t, Profiled(Result(t, e), own, error))
    BY <2>1
  <2>3. Fair(Profiled(Result(t, e), own, error), options.grade, options.policy)
    BY ResultIsFair, ProfiledIsFair
  <2>4. QED
    BY <2>2, <2>3 DEF FairInv, CheckedAs
<1>4. CASE Judge
  <2>1. /\ result' = [t \in Targets |->
                        {evaluate_policy(r, options.policy) : r \in result[t]}]
        /\ options' = options
    BY <1>4 DEF Judge
  <2>2. \A t \in Targets : \A r \in result'[t] :
          Fair(r, options.grade, options.policy)
    BY <2>1, JudgedIsFair DEF FairInv
  <2>3. QED
    BY <2>1, <2>2 DEF FairInv
<1>5. CASE Gate
  BY <1>1, <1>5 DEF Gate, Ends
<1>6. CASE Interrupt
  BY <1>1, <1>6 DEF Interrupt, Ends
<1>7. CASE Break
  BY <1>1, <1>7 DEF Break, Ends
<1>8. CASE Later
  BY <1>1, <1>8 DEF Later
<1>9. CASE UNCHANGED vars
  BY <1>1, <1>9 DEF vars
<1>10. QED
  BY <1>2, <1>3, <1>4, <1>5, <1>6, <1>7, <1>8, <1>9 DEF Next

(* The grade and the policy agree on a fair result.                        *)
LEMMA FairAgrees ==
  ASSUME NEW r, Fair(r, options.grade, options.policy)
  PROVE  GradeFollowsPolicy(r)
<1>1. SUFFICES ASSUME options.grade, r.compliant # {}, r.certificate # {}
               PROVE  /\ r.failures \cap OutrightFailures # {} => r.grade \in {F, T, M}
                      /\ r.grade = M
                           => "hostname" \in r.failures \cup options.policy.allowed
                      /\ r.grade = T
                           => \/ \E c \in r.certificate : c.self_issued
                              \/ "revoked" \in r.failures \cup options.policy.allowed
                              \/ "invalid_chain" \in r.failures
                              \/ "valid_chain" \notin options.policy.required
  BY DEF GradeFollowsPolicy
<1>2. GradedFairly(r) /\ JudgedFairly(r, options.policy)
  BY <1>1 DEF Fair
<1>3. PICK c \in r.certificate : TRUE
  BY <1>1
<1>4. /\ FailsOutright(c) \/ r.revoked => r.grade \in {F, T, M}
      /\ r.grade = M => r.hostname_match = "mismatch"
      /\ r.grade = T => Untrusted(r, c)
  BY <1>2, <1>3 DEF GradedFairly
<1>5. /\ r.failures \cap OutrightFailures # {} => FailsOutright(c) \/ r.revoked
      /\ r.hostname_match = "mismatch"
           => "hostname" \in r.failures \cup options.policy.allowed
      /\ r.revoked => "revoked" \in r.failures \cup options.policy.allowed
      /\ (/\ r.chain_audit.attempted /\ ~ r.chain_audit.verified
          /\ "valid_chain" \in options.policy.required)
           => "invalid_chain" \in r.failures
  BY <1>1, <1>2, <1>3 DEF JudgedFairly
<1>6. QED
  BY <1>3, <1>4, <1>5 DEF Untrusted

(* What two offers, and one suite alone, tell of the order of an endpoint. *)
LEMMA AgreedPair ==
  ASSUME NEW e, NEW first, NEW second
  PROVE  Agreed(e, <<first, second>>) =
           IF Accepts(e, first) /\ Accepts(e, second)
           THEN IF {first, second} \cap e.favourite # {}
                THEN e.favourite ELSE {first}
           ELSE IF Accepts(e, first)
           THEN IF first \in e.favourite THEN e.favourite ELSE {first}
           ELSE IF Accepts(e, second)
           THEN IF second \in e.favourite THEN e.favourite ELSE {second}
           ELSE {}
<1>. DEFINE offered == <<first, second>>
            accepted == {i \in DOMAIN offered : Accepts(e, offered[i])}
<1>1. /\ DOMAIN offered = {1, 2} /\ offered[1] = first /\ offered[2] = second
      /\ 1 \in accepted <=> Accepts(e, first)
      /\ 2 \in accepted <=> Accepts(e, second)
      /\ accepted \subseteq {1, 2}
  OBVIOUS
<1>2. Agreed(e, offered) =
        IF accepted = {} THEN {}
        ELSE IF \E i \in accepted : offered[i] \in e.favourite
        THEN e.favourite ELSE {offered[Min(accepted)]}
  BY DEF Agreed
<1>. HIDE DEF offered, accepted
<1>3. ASSUME NEW low \in accepted, \A i \in accepted : low <= i
      PROVE  Min(accepted) = low
  <2>1. Min(accepted) \in accepted /\ \A i \in accepted : Min(accepted) <= i
    BY <1>3 DEF Min
  <2>2. \A i \in accepted : i \in Int
    BY <1>1
  <2>3. QED
    BY <1>3, <2>1, <2>2
<1>4. 1 \in accepted => Min(accepted) = 1
  BY <1>1, <1>3
<1>5. 1 \notin accepted /\ 2 \in accepted => Min(accepted) = 2
  BY <1>1, <1>3
<1>6. QED
  BY <1>1, <1>2, <1>4, <1>5 DEF offered

LEMMA PreferenceFacts ==
  ASSUME NEW r, NEW e, r.cipher_preference \in {{}, detect_cipher_preference(e)}
  PROVE  DisorderIsReal(r, e)
<1>. DEFINE a == Agreed(e, <<CipherA, CipherB>>)
            b == Agreed(e, <<CipherB, CipherA>>)
            found == detect_cipher_preference(e)
            insists == e.favourite \cap {CipherA, CipherB} # {}
<1>1. found = IF {} \in {a, b} THEN {}
              ELSE IF a # b THEN {FALSE} ELSE {TRUE : confirmed \in Agreed(e, <<CipherB>>)}
  BY DEF detect_cipher_preference
<1>2. CASE Accepts(e, CipherA) /\ Accepts(e, CipherB) /\ ~ insists
  BY <1>2 DEF DisorderIsReal
<1>3. CASE ~ (Accepts(e, CipherA) /\ Accepts(e, CipherB) /\ ~ insists)
  <2>1. a = b
    <3>1. CipherA \in e.favourite \/ CipherB \in e.favourite <=> insists
      OBVIOUS
    <3>2. {CipherA, CipherB} = {CipherB, CipherA}
      OBVIOUS
    <3>. HIDE DEF insists
    <3>3. CASE Accepts(e, CipherA) /\ Accepts(e, CipherB)
      BY <1>3, <3>1, <3>2, <3>3, AgreedPair
    <3>4. CASE Accepts(e, CipherA) /\ ~ Accepts(e, CipherB)
      BY <3>4, AgreedPair
    <3>5. CASE ~ Accepts(e, CipherA) /\ Accepts(e, CipherB)
      BY <3>5, AgreedPair
    <3>6. CASE ~ Accepts(e, CipherA) /\ ~ Accepts(e, CipherB)
      BY <3>6, AgreedPair
    <3>7. QED
      BY <3>3, <3>4, <3>5, <3>6
  <2>. HIDE DEF a, b
  <2>2. found # {FALSE}
    BY <1>1, <2>1
  <2>3. r.cipher_preference # {FALSE}
    BY <2>2
  <2>4. QED
    BY <2>3 DEF DisorderIsReal
<1>4. QED
  BY <1>2, <1>3

(* What was found of the order of suites belongs to the endpoint seen, and *)
(* a target's audit, once it is checked, to the guidelines of the run.     *)
Scans == {"seen", "enumeration", "cipher_preference", "deep", "certificate",
          "profile_audit"}

Preferred(r) ==
  /\ Scans \subseteq DOMAIN r
  /\ \A e \in r.seen : DisorderIsReal(r, e)

OneGuide(t) ==
  options.check_profiles /\ t \in checked =>
    /\ guidelines.fetched
    /\ \A r \in result[t] : ~ r.profile_audit.error =>
         r.profile_audit =
           check_mozilla_profiles(r, guidelines.held, options.requested_profiles)

ScanInv ==
  /\ result = [t \in Targets |-> result[t]]
  /\ \A t \in Targets :
       /\ \A r \in result[t] : Preferred(r)
       /\ OneGuide(t)

LEMMA PreferenceIsKept ==
  ASSUME NEW r, NEW q, NEW fields, Preferred(r), Changes(q, r, fields),
         fields \cap {"seen", "cipher_preference"} = {}
  PROVE  Preferred(q)
<1>1. /\ DOMAIN q = DOMAIN r
      /\ q.seen = r.seen /\ q.cipher_preference = r.cipher_preference
  BY DEF Preferred, Changes, Scans
<1>2. QED
  BY <1>1 DEF Preferred, DisorderIsReal

LEMMA ResultIsPreferred ==
  ASSUME NEW t \in Targets, NEW e \in Presents[t]
  PROVE  Preferred(Result(t, e))
<1>. DEFINE handshake == IF Negotiable(e) = {} THEN Unmeasured(AsOf)
                         ELSE Observed(t, e, AsOf)
            scan == Scanned(handshake, e)
<1>1. /\ Scans \subseteq DOMAIN handshake
      /\ handshake.seen \subseteq {e} /\ handshake.cipher_preference = {}
  BY DEF Unmeasured, Observed, Scans
<1>. HIDE DEF handshake
<1>2. /\ Scans \subseteq DOMAIN scan /\ scan.seen \subseteq {e}
      /\ scan.cipher_preference \in {{}, detect_cipher_preference(e)}
  BY <1>1 DEF Scanned, Scans
<1>3. DisorderIsReal(scan, e)
  BY <1>2, PreferenceFacts
<1>4. Preferred(scan)
  BY <1>2, <1>3 DEF Preferred
<1>5. QED
  BY <1>4, GradedChanges, PreferenceIsKept DEF Result, handshake

(* An audit reads nothing that it, or the policy, writes.                  *)
LEMMA AuditReads ==
  ASSUME NEW r, NEW q, NEW fields, Scans \subseteq DOMAIN r, Changes(q, r, fields),
         fields \subseteq {"profile_audit", "failures", "compliant"},
         NEW guide, NEW requested
  PROVE  check_mozilla_profiles(q, guide, requested)
           = check_mozilla_profiles(r, guide, requested)
<1>1. /\ q.enumeration = r.enumeration /\ q.deep = r.deep
      /\ q.certificate = r.certificate
      /\ q.cipher_preference = r.cipher_preference
  BY DEF Changes, Scans
<1>2. Versions(q) = Versions(r)
  BY <1>1 DEF Versions
<1>3. ASSUME NEW profile
      PROVE  evaluate_profile(profile, q) = evaluate_profile(profile, r)
  <2>1. VersionViolations(profile, q) = VersionViolations(profile, r)
    BY <1>2 DEF VersionViolations
  <2>2. CipherViolations(profile, q) = CipherViolations(profile, r)
    BY <1>1 DEF CipherViolations
  <2>3. GroupViolations(profile, q) = GroupViolations(profile, r)
    BY <1>1 DEF GroupViolations
  <2>4. Violations(profile, q) = Violations(profile, r)
    BY <1>1, <2>1, <2>2, <2>3 DEF Violations
  <2>5. EvaluatedAnything(profile, q) <=> EvaluatedAnything(profile, r)
    BY <1>1, <1>2 DEF EvaluatedAnything
  <2>6. QED
    BY <2>4, <2>5 DEF evaluate_profile
<1>4. QED
  BY <1>3 DEF check_mozilla_profiles

(* Without an error, the audit is the one by the guidelines it was given.  *)
LEMMA CheckedIsOnGuide ==
  ASSUME NEW r, Scans \subseteq DOMAIN r, options.check_profiles,
         NEW own, NEW error \in BOOLEAN, ~ error => own # {},
         NEW q, q = Profiled(r, own, error)
  PROVE  /\ q.profile_audit.error = error
         /\ ~ error => q.profile_audit =
              check_mozilla_profiles(q, own, options.requested_profiles)
<1>. DEFINE audit == check_mozilla_profiles(r, own, options.requested_profiles)
<1>1. q.profile_audit = [audit EXCEPT !.error = error]
  BY DEF Profiled, Scans
<1>2. audit = [error |-> own = {}, results |-> audit.results]
  BY DEF check_mozilla_profiles
<1>3. Changes(q, r, {"profile_audit"})
  BY ProfiledChanges
<1>. HIDE DEF audit
<1>4. ASSUME ~ error
      PROVE  q.profile_audit = audit
  BY <1>1, <1>2, <1>4
<1>5. audit = check_mozilla_profiles(q, own, options.requested_profiles)
  BY <1>3, AuditReads DEF audit
<1>6. QED
  BY <1>1, <1>2, <1>4, <1>5

(* Whatever a check came by itself, it reports the error of the engine.    *)
LEMMA CheckedBy ==
  ASSUME NEW t \in Targets, Check(t)
  PROVE  \E e \in Presents[t] : \E own : \E error \in BOOLEAN :
           /\ result' = [result EXCEPT ![t] = {Profiled(Result(t, e), own, error)}]
           /\ ~ error => own = guidelines'.held /\ own # {}
<1>1. PICK e \in Presents[t] :
        \E own \in IF guidelines'.fetched /\ guidelines'.held = {}
                  THEN Fetched ELSE {guidelines'.held} :
          result' = [result EXCEPT ![t] =
                       {Profiled(Result(t, e), own, guidelines'.held = {})}]
  BY DEF Check
<1>2. PICK own \in IF guidelines'.fetched /\ guidelines'.held = {}
                   THEN Fetched ELSE {guidelines'.held} :
        result' = [result EXCEPT ![t] =
                     {Profiled(Result(t, e), own, guidelines'.held = {})}]
  BY <1>1
<1>. DEFINE error == guidelines'.held = {}
<1>3. error \in BOOLEAN /\ (~ error => own = guidelines'.held /\ own # {})
  BY <1>2
<1>4. result' = [result EXCEPT ![t] = {Profiled(Result(t, e), own, error)}]
  BY <1>2
<1>. HIDE DEF error
<1>5. QED
  BY <1>3, <1>4

LEMMA CheckKeepsScans ==
  ASSUME ScanInv, NEW t \in Targets, Check(t)
  PROVE  ScanInv'
<1>1. PICK e \in Presents[t] : \E own : \E error \in BOOLEAN :
        /\ result' = [result EXCEPT ![t] = {Profiled(Result(t, e), own, error)}]
        /\ ~ error => own = guidelines'.held /\ own # {}
  BY CheckedBy
<1>2. PICK own : \E error \in BOOLEAN :
        /\ result' = [result EXCEPT ![t] = {Profiled(Result(t, e), own, error)}]
        /\ ~ error => own = guidelines'.held /\ own # {}
  BY <1>1
<1>3. PICK error \in BOOLEAN :
        /\ result' = [result EXCEPT ![t] = {Profiled(Result(t, e), own, error)}]
        /\ ~ error => own = guidelines'.held /\ own # {}
  BY <1>2
<1>. DEFINE r == Result(t, e)
            q == Profiled(r, own, error)
<1>4. /\ result' = [u \in Targets |-> result'[u]]
      /\ result'[t] = {q}
      /\ \A u \in Targets \ {t} : result'[u] = result[u]
  BY <1>3 DEF ScanInv
<1>5. /\ checked' = checked \cup {t} /\ options' = options
      /\ options.check_profiles => guidelines'.fetched
      /\ options.check_profiles /\ guidelines.fetched => guidelines' = guidelines
  BY DEF Check
<1>6. Preferred(r) /\ Preferred(q)
  BY ResultIsPreferred, ProfiledChanges, PreferenceIsKept
<1>7. Scans \subseteq DOMAIN r
  BY <1>6 DEF Preferred
<1>. HIDE DEF r
<1>8. options.check_profiles =>
        /\ q.profile_audit.error = error
        /\ ~ error => q.profile_audit =
             check_mozilla_profiles(q, own, options.requested_profiles)
  BY <1>3, <1>7, CheckedIsOnGuide
<1>. HIDE DEF q
<1>9. OneGuide(t)'
  BY <1>3, <1>4, <1>5, <1>8 DEF OneGuide
<1>10. \A u \in Targets \ {t} : OneGuide(u)'
  BY <1>4, <1>5 DEF OneGuide, ScanInv
<1>11. QED
  BY <1>4, <1>6, <1>9, <1>10 DEF ScanInv

LEMMA NextScans == ScanInv /\ [Next]_vars => ScanInv'
<1>. SUFFICES ASSUME ScanInv, [Next]_vars
              PROVE  ScanInv'
  OBVIOUS
<1>1. ASSUME UNCHANGED <<options, result, guidelines, checked>>
      PROVE  ScanInv'
  BY <1>1 DEF ScanInv, OneGuide
<1>2. CASE Launch
  <2>1. checked' = {} /\ result' = result
    BY <1>2 DEF Launch
  <2>2. QED
    BY <2>1 DEF ScanInv, OneGuide
<1>3. ASSUME NEW t \in Targets, Check(t)
      PROVE  ScanInv'
  BY <1>3, CheckKeepsScans
<1>4. CASE Judge
  <2>1. /\ result' = [t \in Targets |->
                        {evaluate_policy(r, options.policy) : r \in result[t]}]
        /\ UNCHANGED <<options, guidelines, checked>>
    BY <1>4 DEF Judge
  <2>2. ASSUME NEW t \in Targets, NEW r \in result[t]
        PROVE  LET q == evaluate_policy(r, options.policy) IN
               /\ Preferred(q)
               /\ q.profile_audit = r.profile_audit
               /\ check_mozilla_profiles(q, guidelines.held, options.requested_profiles)
                    = check_mozilla_profiles(r, guidelines.held,
                                             options.requested_profiles)
    <3>. DEFINE q == evaluate_policy(r, options.policy)
    <3>1. Preferred(r)
      BY <2>2 DEF ScanInv
    <3>2. Changes(q, r, {"failures", "compliant"})
      BY JudgedChanges
    <3>. HIDE DEF q
    <3>3. Preferred(q)
      BY <3>1, <3>2, PreferenceIsKept
    <3>4. q.profile_audit = r.profile_audit
      BY <3>1, <3>2 DEF Preferred, Changes, Scans
    <3>5. check_mozilla_profiles(q, guidelines.held, options.requested_profiles)
            = check_mozilla_profiles(r, guidelines.held, options.requested_profiles)
      BY <3>1, <3>2, AuditReads DEF Preferred
    <3>6. QED
      BY <3>3, <3>4, <3>5 DEF q
  <2>3. \A t \in Targets : \A q \in result'[t] : Preferred(q)
    BY <2>1, <2>2
  <2>4. ASSUME NEW t \in Targets
        PROVE  OneGuide(t)'
    <3>1. SUFFICES ASSUME options.check_profiles, t \in checked
                   PROVE  /\ guidelines.fetched
                          /\ \A q \in result'[t] : ~ q.profile_audit.error =>
                               q.profile_audit =
                                 check_mozilla_profiles(q, guidelines.held,
                                                        options.requested_profiles)
      BY <2>1 DEF OneGuide
    <3>2. OneGuide(t)
      BY DEF ScanInv
    <3>3. QED
      BY <2>1, <2>2, <3>1, <3>2 DEF OneGuide
  <2>5. QED
    BY <2>1, <2>3, <2>4 DEF ScanInv
<1>5. CASE Gate
  BY <1>1, <1>5 DEF Gate, Ends
<1>6. CASE Interrupt
  BY <1>1, <1>6 DEF Interrupt, Ends
<1>7. CASE Break
  BY <1>1, <1>7 DEF Break, Ends
<1>8. CASE Later
  BY <1>1, <1>8 DEF Later
<1>9. CASE UNCHANGED vars
  BY <1>1, <1>9 DEF vars
<1>10. QED
  BY <1>2, <1>3, <1>4, <1>5, <1>6, <1>7, <1>8, <1>9 DEF Next

LEMMA InitScans == Init => ScanInv
<1>. SUFFICES ASSUME Init
              PROVE  ScanInv
  OBVIOUS
<1>1. result = [t \in Targets |-> result[t]] /\ \A t \in Targets : result[t] = {}
  BY DEF Init
<1>2. checked = {}
  BY DEF Init
<1>3. QED
  BY <1>1, <1>2 DEF ScanInv, OneGuide

(* Whatever the endpoints and the options: what the policy rejects         *)
(* outright is never graded better than F, a grade of M or T fails the     *)
(* policy that asks about it, the targets of a run are held to the same    *)
(* guidelines, and a server said to have no order of suites has none.      *)
THEOREM PolicyAndGradeAgree == Spec => []JudgementsAgree
<1>1. Spec => []FairInv
  BY InitFair, NextFair, PTL DEF Spec
<1>2. Spec => []ScanInv
  BY InitScans, NextScans, PTL DEF Spec
<1>3. ASSUME FairInv, ScanInv
      PROVE  JudgementsAgree
  <2>1. \A t \in Targets : \A r \in result[t] : GradeFollowsPolicy(r)
    BY <1>3, FairAgrees DEF FairInv
  <2>2. \A t \in Targets : \A r \in result[t] :
          \A e \in r.seen : DisorderIsReal(r, e)
    BY <1>3 DEF ScanInv, Preferred
  <2>3. \A t \in Targets : \A r \in result[t] :
          (t \in checked /\ options.check_profiles /\ ~ r.profile_audit.error)
          => r.profile_audit =
               check_mozilla_profiles(r, guidelines.held, options.requested_profiles)
    BY <1>3 DEF ScanInv, OneGuide
  <2>4. QED
    BY <2>1, <2>2, <2>3 DEF JudgementsAgree
<1>4. QED
  BY <1>1, <1>2, <1>3, PTL

(* One lifetime, told by instants, by the alarm, by days and by the        *)
(* timeline.                                                               *)
LEMMA ExpiryLemma ==
  ASSUME NEW c, NEW nb \in Int, NEW na \in Int, NEW at \in Int,
         c.lifetime = audit_lifetime(nb, na, at)
  PROVE  /\ c.lifetime.expired <=> expiry_alert(c.lifetime) = "expired"
         /\ c.lifetime.expired <=> c.lifetime.days_remaining < 0
         /\ c.lifetime.expired <=> TimelineBucket(c) = 0
<1>. DEFINE l == audit_lifetime(nb, na, at)
            edges == {edge \in {0, 7, 14, 30, 60, 90} : l.days_remaining < edge}
<1>1. /\ l.days_remaining = Days(na - at)
      /\ l.expired <=> at > na
  BY DEF audit_lifetime
<1>2. /\ Days(na - at) \in Int
      /\ na < at <=> Days(na - at) < 0
  BY DaysPass
<1>3. TimelineBucket(c) = IF edges = {} THEN 91 ELSE Min(edges)
  BY DEF TimelineBucket
<1>. HIDE DEF l
<1>4. c.lifetime = l
  BY DEF l
<1>5. l.expired <=> expiry_alert(l) = "expired"
  BY DEF expiry_alert
<1>6. l.days_remaining < 0 => edges # {} /\ Min(edges) = 0
  <2>1. SUFFICES ASSUME l.days_remaining < 0
                 PROVE  edges # {} /\ Min(edges) = 0
    OBVIOUS
  <2>2. 0 \in edges /\ \A edge \in edges : edge \in Int /\ 0 <= edge
    BY <2>1
  <2>. HIDE DEF edges
  <2>3. \E low \in edges : \A edge \in edges : low <= edge
    BY <2>2
  <2>4. Min(edges) \in edges /\ \A edge \in edges : Min(edges) <= edge
    BY <2>3 DEF Min
  <2>5. QED
    BY <2>2, <2>4
<1>7. ~ (l.days_remaining < 0) /\ edges # {} => Min(edges) # 0
  <2>1. SUFFICES ASSUME ~ (l.days_remaining < 0), edges # {}
                 PROVE  Min(edges) # 0
    OBVIOUS
  <2>2. 0 \notin edges
    BY <2>1
  <2>3. edges \in SUBSET {7, 14, 30, 60, 90}
    BY <2>2
  <2>. HIDE DEF edges
  <2>4. \E low \in edges : \A edge \in edges : low <= edge
    <3>1. \A edge \in edges : edge \in {7, 14, 30, 60, 90}
      BY <2>3
    <3>2. CASE 7 \in edges
      BY <3>1, <3>2
    <3>3. CASE 7 \notin edges /\ 14 \in edges
      BY <3>1, <3>3
    <3>4. CASE {7, 14} \cap edges = {} /\ 30 \in edges
      BY <3>1, <3>4
    <3>5. CASE {7, 14, 30} \cap edges = {} /\ 60 \in edges
      BY <3>1, <3>5
    <3>6. CASE {7, 14, 30, 60} \cap edges = {}
      BY <2>1, <3>1, <3>6
    <3>7. QED
      BY <3>2, <3>3, <3>4, <3>5, <3>6
  <2>5. Min(edges) \in edges
    BY <2>4 DEF Min
  <2>6. QED
    BY <2>2, <2>5
<1>8. QED
  BY <1>1, <1>2, <1>3, <1>5, <1>6, <1>7, <1>4

LEMMA TypesKept == TypeOK /\ [Next]_vars => TypeOK'
<1>. SUFFICES ASSUME TypeOK, [Next]_vars
              PROVE  TypeOK'
  OBVIOUS
<1>1. ASSUME NEW how \in {"passed", "failed", "usage", "interrupted", "broken"},
             Ends(how)
      PROVE  TypeOK'
  BY <1>1 DEF TypeOK, Ends
<1>2. CASE Launch
  BY <1>2 DEF TypeOK, Launch
<1>3. ASSUME NEW t \in Targets, Check(t)
      PROVE  TypeOK'
  BY <1>3 DEF TypeOK, Check
<1>4. CASE Judge
  BY <1>4 DEF TypeOK, Judge
<1>5. CASE Gate
  <2>1. PICK how \in {"passed", "failed", "usage"} : Ends(how)
    BY <1>5 DEF Gate
  <2>2. QED
    BY <1>1, <2>1
<1>6. CASE Interrupt
  BY <1>1, <1>6 DEF Interrupt
<1>7. CASE Break
  BY <1>1, <1>7 DEF Break
<1>8. CASE Later
  BY <1>8 DEF TypeOK, Later
<1>9. CASE UNCHANGED vars
  BY <1>9 DEF TypeOK, vars
<1>10. QED
  BY <1>2, <1>3, <1>4, <1>5, <1>6, <1>7, <1>8, <1>9 DEF Next

LEMMA InitTyped == Init => TypeOK
<1>1. \E first \in Instants : \A at \in Instants : first <= at
  BY InstantsAssumption
<1>2. Min(Instants) \in Instants
  BY <1>1 DEF Min
<1>3. QED
  BY <1>2 DEF Init, TypeOK

(* Whatever the dates and the instants: the flag, the alarm, the days left,*)
(* the timeline and the policy tell the same certificates expired.         *)
THEOREM ExpiryIsOneFact == Spec => []ExpiryViewsAgree
<1>1. Spec => []TypeOK
  BY InitTyped, TypesKept, PTL DEF Spec
<1>2. Spec => []FairInv
  BY InitFair, NextFair, PTL DEF Spec
<1>3. ASSUME TypeOK, DatedInv, FairInv
      PROVE  ExpiryViewsAgree
  <2>1. ASSUME NEW t \in Targets, NEW r \in result[t], NEW c \in r.certificate
        PROVE  /\ c.lifetime.expired <=> r.alert = "expired"
               /\ c.lifetime.expired <=> c.lifetime.days_remaining < 0
               /\ c.lifetime.expired <=> TimelineBucket(c) = 0
    <3>1. Dated(r)
      BY <1>3, <2>1 DEF DatedInv
    <3>2. PICK nb \in Int, na \in Int :
            /\ c.lifetime = audit_lifetime(nb, na, r.at)
            /\ r.alert = expiry_alert(c.lifetime)
      BY <2>1, <3>1 DEF Dated
    <3>3. r.at \in Int
      BY <3>1 DEF Dated
    <3>4. QED
      BY <3>2, <3>3, ExpiryLemma
  <2>2. ASSUME NEW t \in Targets, NEW r \in result[t], NEW c \in r.certificate,
               r.compliant # {}
        PROVE  c.lifetime.expired <=> "expired" \in r.failures
    <3>1. JudgedFairly(r, options.policy)
      BY <1>3, <2>2 DEF FairInv, Fair
    <3>2. QED
      BY <2>2, <3>1 DEF JudgedFairly
  <2>3. QED
    BY <1>3, <2>1, <2>2 DEF ExpiryViewsAgree
<1>4. QED
  BY <1>1, <1>2, <1>3, DatedResults, PTL

-------------------------------------------------------------------------------
(* The gate. *)

Ascending(s) ==
  /\ s \in Seq(Int) /\ s # << >>
  /\ \A i, j \in DOMAIN s : i <= j => s[i] <= s[j]

(* A result has samples exactly if its target was measured.                *)
Sampled(r) ==
  /\ {"measured", "samples", "certificate", "compliant"} \subseteq DOMAIN r
  /\ r.measured => Ascending(r.samples)
  /\ ~ r.measured => r.certificate = {} /\ r.compliant = {}

Judged(r) == r.measured => r.compliant # {}

AllJudged == \A t \in Targets : \A r \in result[t] : Judged(r)

GateInv ==
  /\ result = [t \in Targets |-> result[t]]
  /\ \A t \in Targets : \A r \in result[t] : Sampled(r)
  /\ stage = "gating" => AllJudged
  /\ ended = {"passed"} => stage = "idle" /\ Passed /\ AllJudged

LEMMA SampledIsKept ==
  ASSUME NEW r, NEW q, NEW fields, Sampled(r), Changes(q, r, fields),
         fields \cap {"measured", "samples", "certificate", "compliant"} = {}
  PROVE  Sampled(q)
<1>1. /\ DOMAIN q = DOMAIN r
      /\ q.measured = r.measured /\ q.samples = r.samples
      /\ q.certificate = r.certificate /\ q.compliant = r.compliant
  BY DEF Sampled, Changes
<1>2. QED
  BY <1>1 DEF Sampled

LEMMA ResultIsSampled ==
  ASSUME NEW t \in Targets, NEW e \in Presents[t]
  PROVE  Sampled(Result(t, e))
<1>. DEFINE handshake == IF Negotiable(e) = {} THEN Unmeasured(AsOf)
                         ELSE Observed(t, e, AsOf)
<1>1. Sampled(Unmeasured(AsOf))
  BY DEF Unmeasured, Sampled
<1>2. /\ {"measured", "samples", "certificate", "compliant"}
           \subseteq DOMAIN Observed(t, e, AsOf)
      /\ Observed(t, e, AsOf).measured
      /\ Observed(t, e, AsOf).samples = e.samples
  BY DEF Observed
<1>3. Ascending(e.samples)
  BY SamplesAssumption DEF Ascending
<1>4. Sampled(handshake)
  BY <1>1, <1>2, <1>3 DEF Sampled
<1>. HIDE DEF handshake
<1>5. Sampled(Scanned(handshake, e))
  BY <1>4, ScannedChanges, SampledIsKept
<1>6. Sampled(Graded(Scanned(handshake, e)))
  BY <1>5, GradedChanges, SampledIsKept
<1>7. QED
  BY <1>6 DEF Result, handshake

LEMMA JudgedIsSampled ==
  ASSUME NEW r, NEW policy, Sampled(r)
  PROVE  Sampled(evaluate_policy(r, policy)) /\ Judged(evaluate_policy(r, policy))
<1>1. CASE ~ r.measured
  BY <1>1 DEF evaluate_policy, Judged
<1>2. CASE r.measured
  <2>. DEFINE q == evaluate_policy(r, policy)
  <2>1. /\ DOMAIN q = DOMAIN r /\ (q.measured <=> r.measured)
        /\ q.samples = r.samples /\ q.compliant # {}
    BY <1>2 DEF evaluate_policy, Sampled
  <2>. HIDE DEF q
  <2>2. QED
    BY <1>2, <2>1 DEF Sampled, Judged, q
<1>3. QED
  BY <1>1, <1>2

LEMMA InitGate == Init => GateInv
<1>. SUFFICES ASSUME Init
              PROVE  GateInv
  OBVIOUS
<1>1. result = [t \in Targets |-> result[t]] /\ \A t \in Targets : result[t] = {}
  BY DEF Init
<1>2. stage = "idle" /\ ended = {}
  BY DEF Init
<1>3. QED
  BY <1>1, <1>2 DEF GateInv

LEMMA NextGate == GateInv /\ [Next]_vars => GateInv'
<1>. SUFFICES ASSUME GateInv, [Next]_vars
              PROVE  GateInv'
  OBVIOUS
<1>1. ASSUME UNCHANGED <<options, result>>
      PROVE  /\ Passed' = Passed /\ AllJudged' = AllJudged
             /\ (\A t \in Targets : \A r \in result[t] : Sampled(r))'
             /\ (result = [t \in Targets |-> result[t]])'
  BY <1>1 DEF GateInv, Passed, AllJudged
<1>2. CASE Launch
  <2>1. ended' = {} /\ stage' = "checking" /\ UNCHANGED <<options, result>>
    BY <1>2 DEF Launch
  <2>2. QED
    BY <1>1, <2>1 DEF GateInv
<1>3. ASSUME NEW t \in Targets, Check(t)
      PROVE  GateInv'
  <2>1. PICK e \in Presents[t] : \E own, error :
          CheckedAs(t, Profiled(Result(t, e), own, error))
    BY <1>3, CheckLeaves DEF GateInv
  <2>2. PICK own, error : CheckedAs(t, Profiled(Result(t, e), own, error))
    BY <2>1
  <2>3. Sampled(Profiled(Result(t, e), own, error))
    BY ResultIsSampled, ProfiledChanges, SampledIsKept
  <2>4. \A u \in Targets : \A r \in result'[u] : Sampled(r)
    BY <2>2, <2>3 DEF GateInv, CheckedAs
  <2>5. stage' = "checking" /\ ended' # {"passed"}
    BY <1>3 DEF Check, GateInv
  <2>6. QED
    BY <2>2, <2>4, <2>5 DEF GateInv, CheckedAs
<1>4. CASE Judge
  <2>1. /\ result' = [t \in Targets |->
                        {evaluate_policy(r, options.policy) : r \in result[t]}]
        /\ ended' # {"passed"}
    BY <1>4 DEF Judge, GateInv
  <2>2. \A t \in Targets : \A r \in result'[t] : Sampled(r) /\ Judged(r)
    BY <2>1, JudgedIsSampled DEF GateInv
  <2>3. QED
    BY <2>1, <2>2 DEF GateInv, AllJudged
<1>5. CASE Gate
  <2>1. /\ stage = "gating" /\ stage' = "idle" /\ UNCHANGED <<options, result>>
        /\ ended' = {"passed"} => Passed
    BY <1>5 DEF Gate, Ends
  <2>2. QED
    BY <1>1, <2>1 DEF GateInv
<1>6. CASE Interrupt \/ Break
  <2>1. stage' = "idle" /\ ended' # {"passed"} /\ UNCHANGED <<options, result>>
    BY <1>6 DEF Interrupt, Break, Ends
  <2>2. QED
    BY <1>1, <2>1 DEF GateInv
<1>7. CASE Later
  <2>1. UNCHANGED <<options, result, stage, ended>>
    BY <1>7 DEF Later
  <2>2. QED
    BY <1>1, <2>1 DEF GateInv
<1>8. CASE UNCHANGED vars
  <2>1. UNCHANGED <<options, result, stage, ended>>
    BY <1>8 DEF vars
  <2>2. QED
    BY <1>1, <2>1 DEF GateInv
<1>9. QED
  BY <1>2, <1>3, <1>4, <1>5, <1>6, <1>7, <1>8 DEF Next

(* What a threshold that passed says of a result.                          *)
LEMMA PassSays ==
  ASSUME NEW r, Sampled(r), Judged(r), NEW th, th.limit \in Int,
         Passes(th, Namespace(r))
  PROVE  /\ th.metric \in SSL_SAMPLE_DEPENDENT_METRICS => r.samples # << >>
         /\ (th.metric \in {"p95_latency", "p95_handshake_ms"} /\ r.measured)
              => Len(r.samples) >= MinSamples
         /\ (th.metric = "max_handshake_ms" /\ th.op = "<=")
              => \A i \in DOMAIN r.samples : r.samples[i] <= th.limit
         /\ th.metric = "cert_expiry_days" => r.certificate # {}
         /\ (th.metric = "success_rate" /\ th.op = ">=" /\ th.limit = 100)
              => r.compliant = {TRUE}
<1>1. /\ th.metric \notin Missing(r) /\ th.metric \in DOMAIN Statistics(r)
      /\ Holds(th.op, Statistics(r)[th.metric], <<th.limit, 1>>)
  BY DEF Passes, Namespace, Without
<1>2. th.metric \in SSL_SAMPLE_DEPENDENT_METRICS => r.measured
  BY <1>1 DEF Missing
<1>3. th.metric \in SSL_SAMPLE_DEPENDENT_METRICS => r.samples # << >>
  BY <1>2 DEF Sampled, Ascending
<1>4. th.metric = "cert_expiry_days" => r.certificate # {}
  BY <1>1 DEF Missing
<1>5. ASSUME th.metric = "max_handshake_ms", th.op = "<="
      PROVE  \A i \in DOMAIN r.samples : r.samples[i] <= th.limit
  <2>1. Ascending(r.samples)
    BY <1>2, <1>5 DEF SSL_SAMPLE_DEPENDENT_METRICS, Sampled
  <2>. DEFINE n == Len(r.samples)
  <2>2. n \in Nat /\ n # 0 /\ DOMAIN r.samples = 1 .. n
        /\ \A i \in 1 .. n : r.samples[i] \in Int
    BY <2>1 DEF Ascending
  <2>3. Statistics(r).max_handshake_ms = <<r.samples[n], 1>>
    BY <2>2 DEF Statistics
  <2>4. Holds("<=", <<r.samples[n], 1>>, <<th.limit, 1>>)
    BY <1>1, <1>5, <2>3
  <2>5. r.samples[n] <= th.limit
    BY <2>2, <2>4 DEF Holds, Below
  <2>6. QED
    BY <2>1, <2>2, <2>5 DEF Ascending
<1>6. ASSUME th.metric = "success_rate", th.op = ">=", th.limit = 100
      PROVE  r.compliant = {TRUE}
  <2>. DEFINE good == IF r.compliant # {} THEN r.compliant = {TRUE} ELSE r.measured
  <2>1. Statistics(r).success_rate = <<IF good THEN 100 ELSE 0, 1>>
    BY DEF Statistics, Rate
  <2>2. Holds(">=", <<IF good THEN 100 ELSE 0, 1>>, <<100, 1>>)
    BY <1>1, <1>6, <2>1
  <2>3. good
    <3>1. ~ Holds(">=", <<0, 1>>, <<100, 1>>)
      BY DEF Holds, Below
    <3>. HIDE DEF good
    <3>2. SUFFICES ASSUME ~ good PROVE FALSE
      OBVIOUS
    <3>3. <<IF good THEN 100 ELSE 0, 1>> = <<0, 1>>
      BY <3>2
    <3>4. QED
      BY <2>2, <3>1, <3>3
  <2>4. QED
    BY <2>3 DEF Judged, Sampled
<1>7. ASSUME th.metric \in {"p95_latency", "p95_handshake_ms"}, r.measured
      PROVE  Len(r.samples) >= MinSamples
  <2>1. ~ Refused(r)
    BY <1>1, <1>7 DEF Missing
  <2>2. Len(r.samples) \in Nat
    BY <1>7, LenProperties DEF Sampled, Ascending
  <2>3. QED
    BY <1>7, <2>1, <2>2, PercentilesAssumption DEF Refused
<1>8. QED
  BY <1>3, <1>4, <1>5, <1>6, <1>7

(* Whatever the endpoints, thresholds and policy, and however often the    *)
(* command runs: an exit code of success was earned by every target.       *)
THEOREM PassingIsEarned == Spec => []GateIsEarned
<1>1. Spec => []GateInv
  BY InitGate, NextGate, PTL DEF Spec
<1>2. ASSUME GateInv, DatedInv
      PROVE  GateIsEarned
  <2>1. SUFFICES ASSUME ended = {"passed"}, NEW t \in Targets, NEW r \in result[t],
                        NEW th \in options.thresholds
                 PROVE  Sampled(r) /\ Judged(r) /\ th.limit \in Int
                        /\ Passes(th, Namespace(r))
    BY PassSays DEF GateIsEarned
  <2>2. Sampled(r) /\ Judged(r) /\ AllPass(options.thresholds, Namespace(r))
    BY <1>2, <2>1 DEF GateInv, AllJudged, Passed
  <2>3. th.limit \in Int
    BY <1>2, OptionsAssumption DEF DatedInv
  <2>4. QED
    BY <2>2, <2>3 DEF AllPass
<1>3. QED
  BY <1>1, <1>2, DatedResults, PTL

(*-------------------------------------------------------------------------*)
(* Chains and revocation.                                                  *)
(*-------------------------------------------------------------------------*)
(* A set of naturals has a least element.                                  *)
LEMMA LeastNatural ==
  ASSUME NEW S, S \subseteq Nat, S # {}
  PROVE  \E x \in S : \A y \in S : x <= y
<1>1. PICK x \in S : \A y \in S : ~ (<<y, x>> \in OpToRel(<, Nat))
  BY NatLessThanWellFounded, WFMin
<1>2. \A y \in S : ~ (y < x)
  BY <1>1 DEF OpToRel
<1>3. QED
  BY <1>2

(* The least of some positions in a sequence.                              *)
LEMMA FirstOf ==
  ASSUME NEW n \in Nat, NEW P \in SUBSET (1 .. n), P # {}
  PROVE  Min(P) \in P
<1>1. P \in SUBSET Nat
  OBVIOUS
<1>2. PICK k \in P : \A m \in P : k <= m
  BY <1>1, LeastNatural
<1>3. QED
  BY <1>2 DEF Min

(* What an answer is parsed as is a certificate, or nothing.               *)
LEMMA ParsedIsCert ==
  ASSUME NEW bundle \in Responses, NEW expected
  PROVE  ParseFetched(bundle, expected) \in Certs \cup {None}
<1> DEFINE fitting == {i \in DOMAIN bundle : SubjectOf[bundle[i]] = expected}
<1>1. bundle \in Seq(Certs)
  BY ChainAssumption
<1>2. Len(bundle) \in Nat /\ DOMAIN bundle = 1 .. Len(bundle)
  BY <1>1, LenProperties
<1>3. fitting # {} => Min(fitting) \in DOMAIN bundle
  BY <1>2, FirstOf
<1>4. \A i \in DOMAIN bundle : bundle[i] \in Certs
  BY <1>1, <1>2, ElementOfSeq
<1>5. bundle # << >> => 1 \in DOMAIN bundle
  BY <1>1, <1>2, EmptySeq
<1>6. QED
  BY <1>3, <1>4, <1>5 DEF ParseFetched

LEMMA FetchedIsCert ==
  ASSUME NEW answers \in SeqOf(Responses, 2), NEW expected
  PROVE  FetchIssuer(answers, expected) \in Certs \cup {None}
<1> DEFINE usable == {i \in DOMAIN answers : ParseFetched(answers[i], expected) # None}
<1>1. PICK n \in 0 .. 2 : answers \in [1 .. n -> Responses]
  BY DEF SeqOf
<1>2. usable # {} => Min(usable) \in usable
  BY <1>1, FirstOf
<1>3. QED
  BY <1>1, <1>2, ParsedIsCert DEF FetchIssuer

(* A path begins with the leaf and goes on to its anchor.                  *)
LEMMA PathFacts ==
  ASSUME NEW path \in Ladders
  PROVE  /\ path \in Seq(Certs)
         /\ Tail(path) \in Seq(Certs) /\ Tail(path) # << >>
         /\ path = <<Leaf>> \o Tail(path)
         /\ Last(path) = Last(Tail(path))
         /\ \A i \in 1 .. Len(path) - 1 : IssuerOf[path[i]] = SubjectOf[path[i + 1]]
<1>1. PICK q \in SeqOf(Certs \ {Leaf}, 3) \ {<<>>} : path = <<Leaf>> \o q
  BY DEF Ladders
<1>2. q \in Seq(Certs) /\ q # << >> /\ <<Leaf>> \in Seq(Certs) /\ Len(<<Leaf>>) = 1
  <2>1. PICK n \in 0 .. 3 : q \in [1 .. n -> Certs \ {Leaf}]
    BY <1>1 DEF SeqOf
  <2>2. q \in [1 .. n -> Certs]
    BY <2>1
  <2>3. q \in Seq(Certs)
    BY <2>2, SeqDef
  <2>4. QED
    BY <2>3, <1>1, ChainAssumption
<1>3. /\ path \in Seq(Certs) /\ Len(path) = 1 + Len(q)
      /\ \A i \in 1 .. 1 + Len(q) : path[i] = IF i <= 1 THEN <<Leaf>>[i] ELSE q[i - 1]
  BY <1>1, <1>2, ConcatProperties
<1>4. Len(q) \in Nat \ {0} /\ path # << >>
  BY <1>2, <1>3, EmptySeq
<1>5. Tail(path) = q
  <2>1. /\ Tail(path) \in Seq(Certs) /\ Len(Tail(path)) = Len(q)
        /\ \A i \in 1 .. Len(q) : Tail(path)[i] = path[i + 1]
    BY <1>3, <1>4, HeadTailProperties
  <2>2. \A i \in 1 .. Len(q) : Tail(path)[i] = q[i]
    BY <2>1, <1>3, <1>4
  <2>3. QED
    BY <2>1, <2>2, <1>2, SeqEqual
<1>6. path[Len(path)] = q[Len(q)]
  BY <1>3, <1>4
<1>7. \A i \in 1 .. Len(path) - 1 : IssuerOf[path[i]] = SubjectOf[path[i + 1]]
  BY DEF Ladders
<1>8. QED
  BY <1>1, <1>2, <1>3, <1>5, <1>6, <1>7 DEF Last

(* More certificates allow for more paths.                                 *)
LEMMA PathsGrow ==
  ASSUME NEW among, NEW more, among \subseteq more, NEW anchors
  PROVE  Paths(among, anchors) \subseteq Paths(more, anchors)
BY DEF Paths

(*-------------------------------------------------------------------------*)
(* The chain.  As long as no path was found there is none of what the peer *)
(* sent, once an issuer was fetched or the walk is over.                   *)
PeerPaths == Paths(ToSet(world.peer), world.store)

Link == [cert : Certs, source : {"peer", "aia_fetch"}]
Above(links) == [i \in DOMAIN links |-> links[i].cert]

BuildTypeOK ==
  /\ world \in Worlds
  /\ build \in [at : {"verify", "fetch", "built"}, purpose : {"audit", "cross_sign"},
                round : 0 .. MaxDepth + 1, candidates : SUBSET Certs,
                fetched : SUBSET Certs, frontier : Certs]
  /\ chain \in [verified : BOOLEAN, links : Seq(Link), missing : BOOLEAN, weak : BOOLEAN,
                cross_signed : {"yes", "no", "unknown"}, ordered : {"yes", "no", "unknown"}]
  /\ stores \in Seq({"yes", "no", "unavailable"}) /\ Len(stores) <= Len(Vendors)
  /\ build.at # "built" => build.round <= MaxDepth

Candidates ==
  build.purpose = "audit" => build.candidates = ToSet(world.peer) \cup build.fetched

NotFoundYet ==
  /\ build.purpose = "audit" /\ build.at # "built" => ~ chain.verified
  /\ build.purpose = "audit" /\ (build.at = "fetch" \/ build.fetched # {}) => PeerPaths = {}
  /\ build.at = "built" /\ ~ chain.verified => PeerPaths = {}

FoundPath(path) ==
  /\ path \in Ladders /\ Tail(path) = Above(chain.links)
  /\ ToSet(path) \subseteq world.valid
  /\ Last(path) \in world.store
  /\ Last(path) = Last(chain.links).cert
  /\ chain.missing <=> PeerPaths = {}
  /\ ~ chain.missing => ToSet(Front(Tail(path))) \subseteq ToSet(world.peer)

Found ==
  /\ build.purpose = "cross_sign" => chain.verified
  /\ chain.verified => \E path \in Ladders : FoundPath(path)

Judged1 == \A i \in DOMAIN stores : stores[i] = VendorVerdict(Vendors[i])

ChainInv == BuildTypeOK /\ Candidates /\ NotFoundYet /\ Found /\ Judged1

LEMMA OrderIsKnown == \A sent : ChainOrder(sent) \in {"yes", "no", "unknown"}
BY DEF ChainOrder

LEMMA VerdictIsKnown == \A v : VendorVerdict(v) \in {"yes", "no", "unavailable"}
BY DEF VendorVerdict

LEMMA PeerIsCerts == world \in Worlds => ToSet(world.peer) \subseteq Certs
<1> SUFFICES ASSUME world \in Worlds
             PROVE  ToSet(world.peer) \subseteq Certs
  OBVIOUS
<1>1. world.peer \in Seq(Certs)
  BY ChainAssumption
<1>2. QED
  BY <1>1, LenProperties, ElementOfSeq DEF ToSet

LEMMA InitChainInv == InitChain => ChainInv
<1> SUFFICES ASSUME InitChain
             PROVE  ChainInv
  OBVIOUS
<1> USE DEF InitChain
<1>1. BuildTypeOK
  <2>1. build \in [at : {"verify", "fetch", "built"}, purpose : {"audit", "cross_sign"},
                   round : 0 .. MaxDepth + 1, candidates : SUBSET Certs,
                   fetched : SUBSET Certs, frontier : Certs]
    BY PeerIsCerts, ChainAssumption DEF Building
  <2>2. chain \in [verified : BOOLEAN, links : Seq(Link), missing : BOOLEAN, weak : BOOLEAN,
                   cross_signed : {"yes", "no", "unknown"}, ordered : {"yes", "no", "unknown"}]
    BY OrderIsKnown DEF NoChain
  <2>3. Len(stores) <= Len(Vendors)
    BY ChainAssumption, LenProperties
  <2>4. QED
    BY <2>1, <2>2, <2>3, ChainAssumption DEF BuildTypeOK, Building
<1>2. Candidates /\ NotFoundYet /\ Found
  BY DEF Candidates, NotFoundYet, Found, Building, NoChain
<1>3. Judged1
  BY DEF Judged1
<1>4. QED
  BY <1>1, <1>2, <1>3 DEF ChainInv

(* What is reported of a path says of it what there is to say.             *)
LEMMA AuditFinds ==
  ASSUME ChainInv, build.purpose = "audit", build.at = "verify",
         NEW path \in Paths(build.candidates, world.store),
         chain' = AuditOf(path), UNCHANGED world
  PROVE  /\ chain' \in [verified : BOOLEAN, links : Seq(Link), missing : BOOLEAN,
                        weak : BOOLEAN, cross_signed : {"yes", "no", "unknown"},
                        ordered : {"yes", "no", "unknown"}]
         /\ chain'.verified
         /\ FoundPath(path)'
<1>0. PICK above : above = Tail(path)
  OBVIOUS
<1> DEFINE links == [i \in DOMAIN above |-> [cert |-> above[i], source |-> Source(above[i])]]
<1>1. path \in Ladders /\ ToSet(path) \subseteq world.valid /\ Last(path) \in world.store
      /\ ToSet(Front(above)) \subseteq build.candidates
  BY <1>0 DEF Paths
<1>2. above \in Seq(Certs) /\ above # << >> /\ Last(path) = Last(above)
  BY <1>0, <1>1, PathFacts
<1>3. Len(above) \in Nat \ {0} /\ DOMAIN above = 1 .. Len(above)
      /\ \A i \in DOMAIN above : above[i] \in Certs
  BY <1>2, LenProperties, EmptySeq, ElementOfSeq
<1>4. \A c : Source(c) \in {"peer", "aia_fetch"} /\ (Source(c) = "aia_fetch" <=> c \in build.fetched)
  BY DEF Source
<1>5. links \in Seq(Link) /\ Len(links) = Len(above) /\ DOMAIN links = DOMAIN above
  <2>1. links \in [1 .. Len(above) -> Link]
    BY <1>3, <1>4 DEF Link
  <2>2. links \in Seq(Link)
    BY <2>1, <1>3, SeqDef
  <2>3. QED
    BY <2>1, <2>2, <1>3, LenProperties
<1>6. /\ chain'.verified = TRUE /\ chain'.links = links
      /\ chain'.missing = (\E i \in DOMAIN above : Source(above[i]) = "aia_fetch")
      /\ chain' \in [verified : BOOLEAN, links : Seq(Link), missing : BOOLEAN,
                     weak : BOOLEAN, cross_signed : {"yes", "no", "unknown"},
                     ordered : {"yes", "no", "unknown"}]
  <2>1. chain \in [verified : BOOLEAN, links : Seq(Link), missing : BOOLEAN, weak : BOOLEAN,
                   cross_signed : {"yes", "no", "unknown"}, ordered : {"yes", "no", "unknown"}]
    BY DEF ChainInv, BuildTypeOK
  <2> HIDE DEF links
  <2>2. chain' = [chain EXCEPT !.verified = TRUE, !.links = links,
                    !.missing = \E i \in DOMAIN above : Source(above[i]) = "aia_fetch",
                    !.weak = \E i \in DOMAIN above : above[i] \in world.weak]
    BY <1>0 DEF AuditOf, links
  <2>3. QED
    BY <2>1, <2>2, <1>5
<1>7. above = Above(links) /\ Last(links).cert = Last(path)
  <2>1. \A i \in DOMAIN above : links[i].cert = above[i]
    OBVIOUS
  <2>2. Above(links) = [i \in DOMAIN above |-> above[i]]
    BY <2>1, <1>5 DEF Above
  <2>3. above = [i \in DOMAIN above |-> above[i]]
    BY <1>2, <1>3, LenProperties
  <2>4. QED
    BY <2>1, <2>2, <2>3, <1>2, <1>3, <1>5 DEF Last
<1>8. chain'.missing => PeerPaths = {}
  BY <1>4, <1>6 DEF ChainInv, NotFoundYet
<1>9. ~ chain'.missing => ToSet(Front(above)) \subseteq ToSet(world.peer)
  <2>1. SUFFICES ASSUME ~ chain'.missing, NEW c \in ToSet(Front(above))
                 PROVE  c \in ToSet(world.peer)
    OBVIOUS
  <2>2. PICK i \in DOMAIN Front(above) : c = Front(above)[i]
    BY <2>1 DEF ToSet
  <2>3. /\ Front(above) \in Seq(Certs) /\ Len(Front(above)) = Len(above) - 1
        /\ \A j \in 1 .. Len(above) - 1 : Front(above)[j] = above[j]
    <3>1. \A j \in 1 .. Len(above) - 1 : above[j] \in Certs
      BY <1>3
    <3>2. SubSeq(above, 1, Len(above) - 1) \in Seq(Certs)
          /\ Len(SubSeq(above, 1, Len(above) - 1))
               = (IF 1 <= Len(above) - 1 THEN Len(above) - 1 - 1 + 1 ELSE 0)
          /\ \A j \in 1 .. Len(above) - 1 - 1 + 1 : SubSeq(above, 1, Len(above) - 1)[j] = above[1 + j - 1]
      BY <3>1, <1>3, SubSeqProperties
    <3>3. QED
      BY <3>2, <1>3 DEF Front
  <2>4. i \in DOMAIN above /\ c = above[i]
    BY <2>2, <2>3, <1>3, LenProperties
  <2>5. c \notin build.fetched
    BY <2>1, <2>4, <1>4, <1>6
  <2>6. c \in build.candidates
    BY <1>1, <2>1
  <2>7. QED
    BY <2>5, <2>6 DEF ChainInv, Candidates
<1>10. ~ chain'.missing => path \in PeerPaths
  BY <1>0, <1>1, <1>9 DEF PeerPaths, Paths
<1>. PeerPaths' = PeerPaths
  BY DEF PeerPaths, Paths
<1>11. FoundPath(path)'
  BY <1>0, <1>1, <1>6, <1>7, <1>8, <1>9, <1>10 DEF FoundPath
<1>12. QED
  BY <1>6, <1>11

LEMMA NextChainInv ==
  ChainInv /\ [ChainNext]_chainVars => ChainInv'
<1> SUFFICES ASSUME ChainInv, [ChainNext]_chainVars
             PROVE  ChainInv'
  OBVIOUS
<1> USE DEF ChainInv
<1>0. ASSUME world' = world
      PROVE  /\ PeerPaths' = PeerPaths
             /\ \A v : VendorVerdict(v)' = VendorVerdict(v)
  BY <1>0 DEF PeerPaths, Paths, VendorVerdict
<1>1. CASE VerifyPath
  <2>0. build.at = "verify" /\ UNCHANGED <<world, stores>>
    BY <1>1 DEF VerifyPath
  <2>1. PICK path \in Paths(build.candidates, world.store) :
          IF build.purpose = "audit" THEN Audited(path) ELSE Compared(path)
    BY <1>1 DEF VerifyPath
  <2>2. CASE build.purpose = "audit"
    <3>1. chain' = AuditOf(path)
          /\ (build' = Building("cross_sign", {}) \/ build' = EndBuild)
      BY <2>1, <2>2 DEF Audited
    <3>2. path \in Ladders
      BY DEF Paths
    <3>3. /\ chain' \in [verified : BOOLEAN, links : Seq(Link), missing : BOOLEAN,
                         weak : BOOLEAN, cross_signed : {"yes", "no", "unknown"},
                         ordered : {"yes", "no", "unknown"}]
          /\ chain'.verified
          /\ FoundPath(path)'
      BY <2>0, <2>2, <3>1, AuditFinds
    <3>4. CASE build' = Building("cross_sign", {})
      <4>1. BuildTypeOK'
        BY <2>0, <3>3, <3>4, ChainAssumption DEF BuildTypeOK, Building
      <4>2. (Candidates /\ NotFoundYet /\ Found /\ Judged1)'
        BY <2>0, <3>2, <3>3, <3>4, <1>0
        DEF Candidates, NotFoundYet, Found, Judged1, Building
      <4>3. QED
        BY <4>1, <4>2
    <3>5. CASE build' = EndBuild
      <4>0. build' = [build EXCEPT !.at = "built"]
        BY <3>5 DEF EndBuild
      <4>1. BuildTypeOK'
        BY <2>0, <3>3, <4>0 DEF BuildTypeOK
      <4>2. build'.at = "built" /\ build'.purpose = "audit"
            /\ build'.fetched = build.fetched /\ build'.candidates = build.candidates
        BY <4>0, <2>2 DEF BuildTypeOK
      <4>3. (Candidates /\ NotFoundYet /\ Found /\ Judged1)'
        BY <2>0, <2>2, <3>2, <3>3, <4>2, <1>0
        DEF Candidates, NotFoundYet, Found, Judged1
      <4>4. QED
        BY <4>1, <4>3
    <3>6. QED
      BY <3>1, <3>4, <3>5
  <2>3. CASE build.purpose # "audit"
    <3>1. PICK verdict \in {"yes", "no"} : chain' = [chain EXCEPT !.cross_signed = verdict]
      BY <2>1, <2>3 DEF Compared
    <3>2. build' = [build EXCEPT !.at = "built"]
      BY <2>1, <2>3 DEF Compared, EndBuild
    <3>3. /\ chain'.verified = chain.verified /\ chain'.links = chain.links
          /\ chain'.missing = chain.missing
          /\ build'.at = "built" /\ build'.purpose = build.purpose
          /\ build.purpose = "cross_sign"
      BY <3>1, <3>2, <2>3 DEF BuildTypeOK
    <3>4. BuildTypeOK'
      BY <2>0, <3>1, <3>2 DEF BuildTypeOK
    <3>5. \A p \in Ladders : FoundPath(p) => FoundPath(p)'
      BY <2>0, <3>3, <1>0 DEF FoundPath
    <3>6. (Candidates /\ NotFoundYet /\ Found /\ Judged1)'
      BY <2>0, <2>3, <3>3, <3>5, <1>0 DEF Candidates, NotFoundYet, Found, Judged1
    <3>7. QED
      BY <3>4, <3>6
  <2>4. QED
    BY <2>2, <2>3
<1>2. CASE VerifyFails
  <2>1. /\ build.at = "verify" /\ UNCHANGED <<world, chain, stores>>
        /\ Paths(build.candidates, world.store) = {}
    BY <1>2 DEF VerifyFails
  <2>2. PICK at \in {"built", "fetch"} : build' = [build EXCEPT !.at = at]
    BY <1>2 DEF VerifyFails
  <2>3. build'.at = at /\ build'.purpose = build.purpose
        /\ build'.fetched = build.fetched /\ build'.candidates = build.candidates
    BY <2>2 DEF BuildTypeOK
  <2>4. BuildTypeOK'
    BY <2>1, <2>2 DEF BuildTypeOK
  <2>5. build.purpose = "audit" => PeerPaths = {}
    BY <2>1, PathsGrow DEF Candidates, PeerPaths
  <2>6. \A p \in Ladders : FoundPath(p) => FoundPath(p)'
    BY <2>1, <1>0 DEF FoundPath
  <2>7. build.purpose \in {"audit", "cross_sign"}
    BY DEF BuildTypeOK
  <2>8. (Candidates /\ NotFoundYet /\ Found /\ Judged1)'
    BY <2>1, <2>3, <2>5, <2>6, <2>7, <1>0 DEF Candidates, NotFoundYet, Found, Judged1
  <2>9. QED
    BY <2>4, <2>8
<1>3. CASE FetchFrontier
  <2>1. build.at = "fetch" /\ UNCHANGED <<world, chain, stores>>
    BY <1>3 DEF FetchFrontier
  <2>2. PICK answers \in SeqOf(Responses, 2) \ {<<>>} :
          LET issuer == FetchIssuer(answers, IssuerOf[build.frontier]) IN
          build' = IF issuer = None THEN EndBuild
                   ELSE [build EXCEPT !.at = IF RoundsExhausted(build.round + 1) THEN "built" ELSE "verify",
                                      !.round = @ + 1,
                                      !.candidates = @ \cup {issuer},
                                      !.fetched = @ \cup {issuer},
                                      !.frontier = issuer]
    BY <1>3 DEF FetchFrontier
  <2>3. PICK issuer : issuer = FetchIssuer(answers, IssuerOf[build.frontier])
    OBVIOUS
  <2>4. issuer \in Certs \cup {None}
    BY <2>3, FetchedIsCert
  <2>5. \A p \in Ladders : FoundPath(p) => FoundPath(p)'
    BY <2>1, <1>0 DEF FoundPath
  <2>6. build.purpose \in {"audit", "cross_sign"} /\ build.round \in 0 .. MaxDepth
    BY <2>1, ChainAssumption DEF BuildTypeOK
  <2>7. CASE issuer = None
    <3>1. build' = [build EXCEPT !.at = "built"]
      BY <2>2, <2>3, <2>7 DEF EndBuild
    <3>2. build'.at = "built" /\ build'.purpose = build.purpose
          /\ build'.fetched = build.fetched /\ build'.candidates = build.candidates
      BY <3>1 DEF BuildTypeOK
    <3>3. BuildTypeOK'
      BY <2>1, <3>1 DEF BuildTypeOK
    <3>4. (Candidates /\ NotFoundYet /\ Found /\ Judged1)'
      BY <2>1, <2>5, <2>6, <3>2, <1>0 DEF Candidates, NotFoundYet, Found, Judged1
    <3>5. QED
      BY <3>3, <3>4
  <2>8. CASE issuer # None
    <3>1. PICK at \in {"built", "verify"} :
            /\ at = IF RoundsExhausted(build.round + 1) THEN "built" ELSE "verify"
            /\ build' = [build EXCEPT !.at = at, !.round = @ + 1,
                                      !.candidates = @ \cup {issuer},
                                      !.fetched = @ \cup {issuer},
                                      !.frontier = issuer]
      BY <2>2, <2>3, <2>8
    <3>2. /\ build'.at = at /\ build'.purpose = build.purpose
          /\ build'.fetched = build.fetched \cup {issuer}
          /\ build'.candidates = build.candidates \cup {issuer}
          /\ build'.round = build.round + 1
      BY <3>1 DEF BuildTypeOK
    <3>3. at # "built" => build.round + 1 <= MaxDepth
      BY <2>6, <3>1, ChainAssumption DEF RoundsExhausted
    <3>4. BuildTypeOK'
      <4>1. build' \in [at : {"verify", "fetch", "built"}, purpose : {"audit", "cross_sign"},
                       round : 0 .. MaxDepth + 1, candidates : SUBSET Certs,
                       fetched : SUBSET Certs, frontier : Certs]
        <5>1. build.round + 1 \in 0 .. MaxDepth + 1
          BY <2>6, ChainAssumption
        <5>2. /\ build.candidates \cup {issuer} \in SUBSET Certs
              /\ build.fetched \cup {issuer} \in SUBSET Certs
              /\ issuer \in Certs
          BY <2>4, <2>8 DEF BuildTypeOK
        <5>3. QED
          BY <3>1, <5>1, <5>2 DEF BuildTypeOK
      <4>2. QED
        BY <4>1, <2>1, <3>2, <3>3 DEF BuildTypeOK
    <3>5. (Candidates /\ NotFoundYet /\ Found /\ Judged1)'
      BY <2>1, <2>5, <2>6, <3>2, <1>0 DEF Candidates, NotFoundYet, Found, Judged1
    <3>6. QED
      BY <3>4, <3>5
  <2>9. QED
    BY <2>7, <2>8
<1>4. CASE CheckVendor
  <2>1. PICK verdict : verdict = VendorVerdict(Vendors[Len(stores) + 1])
    OBVIOUS
  <2>2. /\ UNCHANGED <<world, build, chain>>
        /\ Len(stores) < Len(Vendors)
        /\ stores' = Append(stores, verdict)
    BY <1>4, <2>1 DEF CheckVendor
  <2>3. stores \in Seq({"yes", "no", "unavailable"}) /\ verdict \in {"yes", "no", "unavailable"}
    BY <2>1, VerdictIsKnown DEF BuildTypeOK
  <2>4. /\ stores' \in Seq({"yes", "no", "unavailable"}) /\ Len(stores') = Len(stores) + 1
        /\ \A i \in 1 .. Len(stores) : stores'[i] = stores[i]
        /\ stores'[Len(stores) + 1] = verdict
        /\ Len(stores) \in Nat /\ DOMAIN stores = 1 .. Len(stores)
        /\ DOMAIN stores' = 1 .. Len(stores')
    BY <2>2, <2>3, AppendProperties, LenProperties
  <2>5. Len(Vendors) \in Nat
    BY ChainAssumption, LenProperties
  <2>6. BuildTypeOK'
    BY <2>2, <2>4, <2>5 DEF BuildTypeOK
  <2>7. \A p \in Ladders : FoundPath(p) => FoundPath(p)'
    BY <2>2, <1>0 DEF FoundPath
  <2>8. (Candidates /\ NotFoundYet /\ Found)'
    BY <2>2, <2>7, <1>0 DEF Candidates, NotFoundYet, Found
  <2>9. \A i \in DOMAIN stores' : stores'[i] = VendorVerdict(Vendors[i])
    BY <2>1, <2>4 DEF Judged1
  <2>10. Judged1'
    BY <2>2, <2>9, <1>0 DEF Judged1
  <2>11. QED
    BY <2>6, <2>8, <2>10
<1>5. CASE UNCHANGED chainVars
  <2>1. UNCHANGED <<world, build, chain, stores>>
    BY <1>5 DEF chainVars
  <2>2. \A p \in Ladders : FoundPath(p) => FoundPath(p)'
    BY <2>1, <1>0 DEF FoundPath
  <2>3. QED
    BY <2>1, <2>2, <1>0 DEF BuildTypeOK, Candidates, NotFoundYet, Found, Judged1
<1>6. QED
  BY <1>1, <1>2, <1>3, <1>4, <1>5 DEF ChainNext

(* What the invariant says when the chain is built.                        *)
LEMMA ChainSays == ChainInv => ChainsAreHonest
<1> SUFFICES ASSUME ChainInv
             PROVE  ChainsAreHonest
  OBVIOUS
<1>1. VerifiedIsAPath
  <2>1. SUFFICES ASSUME chain.verified, NEW path \in Ladders, FoundPath(path),
                        NEW above, above = Above(chain.links)
                 PROVE  LET p == <<Leaf>> \o above IN
                        /\ \A i \in 1 .. Len(p) - 1 : IssuerOf[p[i]] = SubjectOf[p[i + 1]]
                        /\ ToSet(p) \subseteq world.valid
                        /\ Last(p) \in world.store
    BY DEF ChainInv, Found, VerifiedIsAPath, Above
  <2>2. path = <<Leaf>> \o above
        /\ \A i \in 1 .. Len(path) - 1 : IssuerOf[path[i]] = SubjectOf[path[i + 1]]
    BY <2>1, PathFacts DEF FoundPath
  <2>3. QED
    BY <2>1, <2>2 DEF FoundPath
<1>2. MissingMeansNotSent
  BY DEF ChainInv, Found, FoundPath, MissingMeansNotSent, PeerPaths
<1>3. StoresDisagreeForAReason
  <2>1. SUFFICES ASSUME ChainDone, NEW i \in DOMAIN stores,
                        NEW anchors, anchors = world.vendors[Vendors[i]]
                 PROVE  /\ stores[i] = "no" /\ chain.verified /\ ~chain.missing =>
                             Last(chain.links).cert \notin anchors
                        /\ stores[i] = "yes" /\ ~chain.verified => ~ (anchors \subseteq world.store)
    BY DEF StoresDisagreeForAReason
  <2>2. /\ stores[i] = "no" => Paths(ToSet(world.peer), anchors) = {}
        /\ stores[i] = "yes" => Paths(ToSet(world.peer), anchors) # {}
    BY <2>1 DEF ChainInv, Judged1, VendorVerdict
  <2>3. ASSUME stores[i] = "no", chain.verified, ~ chain.missing
        PROVE  Last(chain.links).cert \notin anchors
    <3>1. PICK path \in Ladders : FoundPath(path)
      BY <2>3 DEF ChainInv, Found
    <3>2. Last(path) \notin anchors
      BY <2>2, <2>3, <3>1 DEF FoundPath, Paths
    <3>3. QED
      BY <3>1, <3>2 DEF FoundPath
  <2>4. ASSUME stores[i] = "yes", ~ chain.verified, anchors \subseteq world.store
        PROVE  FALSE
    <3>1. PeerPaths = {}
      BY <2>1, <2>4 DEF ChainInv, NotFoundYet, ChainDone
    <3>2. Paths(ToSet(world.peer), anchors) \subseteq PeerPaths
      BY <2>4 DEF Paths, PeerPaths
    <3>3. QED
      BY <2>2, <2>4, <3>1, <3>2
  <2>5. QED
    BY <2>3, <2>4
<1>4. QED
  BY <1>1, <1>2, <1>3 DEF ChainsAreHonest
(*-------------------------------------------------------------------------*)
(* The check.  While a channel is open no answer of it was definitive, and *)
(* its details are of the last one that was inconclusive; when it is closed *)
(* its status is that of an answer it heard, whose details it has, and it  *)
(* has heard of a revocation only if it says so.                           *)
StatusAt(reply, at) ==
  IF ~ reply.signed THEN "invalid_signature"
  ELSE IF at > reply.next_update THEN "stale" ELSE reply.status

Words == {"none", "stale", "invalid_signature", "unknown"}

CheckType ==
  [at : {"idle", "issuer", "crl", "download", "putting", "ocsp", "done"}, now : Nat,
   urls : Seq(CrlUrls) \cup Seq(Responders), last : Words, read : Int]

RevocationType ==
  [issuer_source : {"none", "provided", "aia_fetch"},
   crl_status : Statuses, crl_url : CrlUrls \cup {None}, crl_from_cache : BOOLEAN,
   crl_next_update : Int,
   ocsp_status : Statuses \cup {"unknown"}, ocsp_responder_url : Responders \cup {None}]

CheckTypeOK ==
  /\ world \in Worlds
  /\ check \in CheckType
  /\ revocation \in RevocationType
  /\ DOMAIN crls_heard \subseteq CrlUrls /\ \A u \in DOMAIN crls_heard : crls_heard[u] \in CRLs
  /\ DOMAIN replies_heard \subseteq Responders
  /\ \A u \in DOMAIN replies_heard : replies_heard[u] \in Replies
  /\ revocation.crl_from_cache => check.read <= CacheMaxAge

CrlIs(status) ==
  /\ revocation.crl_url \in DOMAIN crls_heard
  /\ StatusAt(crls_heard[revocation.crl_url], check.now) = status
  /\ revocation.crl_next_update = crls_heard[revocation.crl_url].next_update

CrlUntouched ==
  DOMAIN crls_heard = {} /\ revocation.crl_status = "not_checked" /\ revocation.crl_url = None

CrlOpen ==
  /\ revocation.crl_status = "not_checked"
  /\ \A u \in DOMAIN crls_heard : StatusAt(crls_heard[u], check.now) \notin Definitive
  /\ check.last = "none" => revocation.crl_url = None
  /\ check.last # "none" => CrlIs(check.last)

CrlClosed ==
  /\ (revocation.crl_status = "revoked")
       <=> \E u \in DOMAIN crls_heard : StatusAt(crls_heard[u], check.now) = "revoked"
  /\ revocation.crl_status \in {"not_checked", "unreachable"} => revocation.crl_url = None
  /\ revocation.crl_status \notin {"not_checked", "unreachable"} => CrlIs(revocation.crl_status)

OcspIs(status) ==
  /\ revocation.ocsp_responder_url \in DOMAIN replies_heard
  /\ StatusAt(replies_heard[revocation.ocsp_responder_url], check.now) = status

OcspUntouched ==
  /\ DOMAIN replies_heard = {} /\ revocation.ocsp_status = "not_checked"
  /\ revocation.ocsp_responder_url = None

OcspOpen ==
  /\ revocation.ocsp_status = "not_checked"
  /\ \A u \in DOMAIN replies_heard : StatusAt(replies_heard[u], check.now) \notin Definitive
  /\ check.last = "none" => revocation.ocsp_responder_url = None
  /\ check.last # "none" => OcspIs(check.last)

OcspClosed ==
  /\ (revocation.ocsp_status = "revoked")
       <=> \E u \in DOMAIN replies_heard : StatusAt(replies_heard[u], check.now) = "revoked"
  /\ revocation.ocsp_status \in {"not_checked", "unreachable"} => revocation.ocsp_responder_url = None
  /\ revocation.ocsp_status \notin {"not_checked", "unreachable"} => OcspIs(revocation.ocsp_status)

StageOK ==
  /\ check.at \in {"idle", "issuer"} => check.last = "none" /\ CrlUntouched /\ OcspUntouched
  /\ check.at = "issuer" => world.crls # <<>> \/ world.ocsps # <<>>
  /\ check.at \in {"crl", "download", "putting"} =>
       /\ check.urls \in Seq(CrlUrls) \ {<<>>} /\ check.last # "unknown"
       /\ CrlOpen /\ OcspUntouched
  /\ check.at = "ocsp" => check.urls \in Seq(Responders) \ {<<>>} /\ CrlClosed /\ OcspOpen
  /\ check.at = "done" => CrlClosed /\ OcspClosed

CheckInv == CheckTypeOK /\ StageOK

LEMMA ClassifiedCRL ==
  ASSUME NEW crl \in CRLs
  PROVE  /\ ClassifyCRL(crl) = StatusAt(crl, check.now)
         /\ StatusAt(crl, check.now) \in {"good", "revoked", "stale", "invalid_signature"}
<1>1. crl.status \in {"good", "revoked"}
  BY CRLsAssumption
<1>2. QED
  BY <1>1 DEF ClassifyCRL, StatusAt

LEMMA ClassifiedOCSP ==
  ASSUME NEW reply \in Replies
  PROVE  /\ ClassifyOCSP(reply) = StatusAt(reply, check.now)
         /\ StatusAt(reply, check.now)
              \in {"good", "revoked", "unknown", "stale", "invalid_signature"}
<1>1. reply.status \in {"good", "revoked", "unknown"}
  BY AnswersAssumption
<1>2. QED
  BY <1>1 DEF ClassifyOCSP, StatusAt

(* A status says what the answer says, if that is signed and fresh.        *)
LEMMA StatusSays ==
  ASSUME NEW reply \in CRLs \cup Replies, check.now \in Int
  PROVE  /\ StatusOf(reply) = StatusAt(reply, check.now)
         /\ \A word \in Definitive :
              StatusAt(reply, check.now) = word <=> SignedAndFresh(reply) /\ reply.status = word
<1>1. reply.next_update \in Int
  BY AnswersAssumption, CRLsAssumption
<1>2. QED
  BY <1>1 DEF StatusOf, StatusAt, SignedAndFresh, Definitive

(* Where a check goes from a URL: to the next one, or its channel closes.  *)
AnyCheck ==
  [at : {"idle", "issuer", "crl", "download", "putting", "ocsp", "done"}, now : Nat,
   urls : Seq(CrlUrls) \cup Seq(Responders), last : Words \cup Definitive, read : Int]

LEMMA NextChannelIs ==
  ASSUME world \in Worlds, NEW c \in AnyCheck,
         NEW next, next = NextChannel(c)
  PROVE  /\ next \in CheckType /\ next.now = c.now /\ next.read = c.read /\ next.last = "none"
         /\ \/ next.at = "done"
            \/ c.at = "crl" /\ next.at = "ocsp" /\ next.urls \in Seq(Responders) \ {<<>>}
<1>0. world.ocsps \in Seq(Responders) /\ <<>> \in Seq(Responders)
  BY EvidenceAssumption
<1>1. CASE c.at = "crl" /\ world.ocsps # <<>>
  <2>1. next = [c EXCEPT !.at = "ocsp", !.urls = world.ocsps, !.last = "none"]
    BY <1>1 DEF NextChannel
  <2>2. QED
    BY <1>0, <1>1, <2>1 DEF AnyCheck, CheckType, Words
<1>2. CASE ~ (c.at = "crl" /\ world.ocsps # <<>>)
  <2>1. next = [c EXCEPT !.at = "done", !.urls = <<>>, !.last = "none"]
    BY <1>2 DEF NextChannel
  <2>2. QED
    BY <1>0, <1>2, <2>1 DEF AnyCheck, CheckType, Words
<1>3. QED
  BY <1>1, <1>2

LEMMA AfterIs ==
  ASSUME world \in Worlds, check \in CheckType, check.at \in {"crl", "download", "putting", "ocsp"},
         NEW Urls, Urls = CrlUrls \/ Urls = Responders,
         check.urls \in Seq(Urls), check.urls # <<>>,
         NEW verdict \in {"nothing", "stale", "invalid_signature", "unknown"} \cup Definitive,
         NEW last, last = LastInconclusive(check, verdict),
         NEW after, after = After(check, verdict)
  PROVE  /\ after.check \in CheckType
         /\ after.check.now = check.now /\ after.check.read = check.read
         /\ verdict \notin Definitive => last \in Words
         /\ \/ /\ after.check.at = IF check.at = "ocsp" THEN "ocsp" ELSE "crl"
               /\ after.check.urls \in Seq(Urls) \ {<<>>}
               /\ after.check.last = last /\ verdict \notin Definitive
               /\ after.status = "not_checked"
            \/ /\ \/ after.check.at = "done"
                  \/ /\ check.at # "ocsp" /\ after.check.at = "ocsp"
                     /\ after.check.urls \in Seq(Responders) \ {<<>>}
               /\ after.check.last = "none"
               /\ after.status = IF verdict \in Definitive THEN verdict ELSE Conclude(last)
<1> DEFINE rest == [check EXCEPT !.urls = Others(check, verdict), !.last = last,
                                 !.at = IF @ = "ocsp" THEN @ ELSE "crl"]
<1>1. check.last \in Words
  BY DEF CheckType
<1>2. last \in Words \cup Definitive /\ (verdict \notin Definitive => last \in Words)
  BY <1>1 DEF LastInconclusive, Words
<1>3. Tail(check.urls) \in Seq(Urls)
  BY HeadTailProperties
<1>4. /\ rest \in AnyCheck /\ rest.now = check.now /\ rest.read = check.read
      /\ rest.urls \in Seq(Urls) /\ rest.last = last
      /\ rest.at = IF check.at = "ocsp" THEN "ocsp" ELSE "crl"
  BY <1>2, <1>3 DEF CheckType, AnyCheck, Others
<1>5. verdict \notin Definitive => rest \in CheckType
  BY <1>2, <1>4 DEF CheckType, AnyCheck
<1> HIDE DEF rest
<1>6. after = IF verdict \in Definitive THEN [check |-> NextChannel(rest), status |-> verdict]
              ELSE IF rest.urls = <<>>
                   THEN [check |-> NextChannel(rest), status |-> Conclude(last)]
                   ELSE [check |-> rest, status |-> "not_checked"]
  BY DEF After, rest
<1>7. CASE verdict \in Definitive
  BY <1>4, <1>6, <1>7, NextChannelIs
<1>8. CASE verdict \notin Definitive /\ rest.urls = <<>>
  BY <1>2, <1>4, <1>6, <1>8, NextChannelIs
<1>9. CASE verdict \notin Definitive /\ rest.urls # <<>>
  BY <1>2, <1>4, <1>5, <1>6, <1>9
<1>10. QED
  BY <1>7, <1>8, <1>9

(* A CRL is judged, or no CRL came: what is said of it stays true.         *)
LEMMA JudgedCRL ==
  ASSUME CheckInv, check.at \in {"crl", "download", "putting"}, NEW crl \in CRLs,
         NEW from_cache \in BOOLEAN, NEW age \in Int, from_cache => age <= CacheMaxAge,
         JudgeCRL(Head(check.urls), crl, from_cache, age), UNCHANGED world
  PROVE  CheckInv' /\ check'.now = check.now /\ check'.at # "putting"
<1>1. PICK url : url = Head(check.urls)
  OBVIOUS
<1>2. PICK verdict : verdict = StatusAt(crl, check.now)
  OBVIOUS
<1>3. PICK after : after = After(check, verdict)
  OBVIOUS
<1>4. PICK last : last = LastInconclusive(check, verdict)
  OBVIOUS
<1>5. /\ check \in CheckType /\ check.urls \in Seq(CrlUrls) \ {<<>>} /\ revocation \in RevocationType
      /\ world \in Worlds /\ CrlOpen /\ OcspUntouched
      /\ DOMAIN crls_heard \subseteq CrlUrls /\ \A u \in DOMAIN crls_heard : crls_heard[u] \in CRLs
  BY DEF CheckInv, CheckTypeOK, StageOK
<1>6. url \in CrlUrls
  BY <1>1, <1>5, HeadTailProperties
<1>7. verdict \in {"good", "revoked", "stale", "invalid_signature"} /\ ClassifyCRL(crl) = verdict
  BY <1>2, ClassifiedCRL
<1>8. /\ check' = [after.check EXCEPT !.read = age]
      /\ revocation' = [revocation EXCEPT !.crl_status = after.status, !.crl_url = url,
                                          !.crl_from_cache = from_cache,
                                          !.crl_next_update = crl.next_update]
      /\ crls_heard' = With(crls_heard, url, crl)
      /\ replies_heard' = replies_heard
  BY <1>1, <1>3, <1>7 DEF JudgeCRL
<1>9. /\ after.check \in CheckType /\ after.check.now = check.now
      /\ verdict \notin Definitive => last = verdict
      /\ \/ /\ after.check.at = "crl" /\ after.check.urls \in Seq(CrlUrls) \ {<<>>}
            /\ after.check.last = last /\ verdict \notin Definitive
            /\ after.status = "not_checked"
         \/ /\ \/ after.check.at = "done"
               \/ /\ after.check.at = "ocsp"
                  /\ after.check.urls \in Seq(Responders) \ {<<>>}
            /\ after.check.last = "none"
            /\ after.status = verdict
  <2>1. verdict # "nothing" /\ last = verdict /\ Conclude(last) = verdict
    BY <1>4, <1>7 DEF LastInconclusive, Conclude
  <2>2. verdict \in {"nothing", "stale", "invalid_signature", "unknown"} \cup Definitive
    BY <1>7 DEF Definitive
  <2>3. /\ check.urls \in Seq(CrlUrls) /\ check.urls # <<>>
        /\ check.at # "ocsp" /\ check.at \in {"crl", "download", "putting", "ocsp"}
    BY <1>5
  <2>4. /\ after.check \in CheckType
        /\ after.check.now = check.now
        /\ \/ /\ after.check.at = "crl"
              /\ after.check.urls \in Seq(CrlUrls) \ {<<>>}
              /\ after.check.last = last /\ verdict \notin Definitive
              /\ after.status = "not_checked"
           \/ /\ \/ after.check.at = "done"
                 \/ /\ after.check.at = "ocsp"
                    /\ after.check.urls \in Seq(Responders) \ {<<>>}
              /\ after.check.last = "none"
              /\ after.status = IF verdict \in Definitive THEN verdict ELSE Conclude(last)
    BY <1>3, <1>4, <1>5, <2>2, <2>3, AfterIs
  <2>5. QED
    BY <2>1, <2>4
<1>10. /\ check' \in CheckType /\ check'.now = check.now /\ check'.read = age
       /\ check'.at = after.check.at /\ check'.urls = after.check.urls
       /\ check'.last = after.check.last
  BY <1>8, <1>9 DEF CheckType
<1>11. crl.next_update \in Int
  BY CRLsAssumption
<1>12. /\ revocation' \in RevocationType /\ revocation'.crl_status = after.status
       /\ revocation'.crl_url = url /\ revocation'.crl_from_cache = from_cache
       /\ revocation'.crl_next_update = crl.next_update
       /\ revocation'.ocsp_status = revocation.ocsp_status
       /\ revocation'.ocsp_responder_url = revocation.ocsp_responder_url
  BY <1>5, <1>6, <1>7, <1>8, <1>9, <1>11 DEF RevocationType, Statuses
<1>13. /\ DOMAIN crls_heard' = DOMAIN crls_heard \cup {url}
       /\ crls_heard'[url] = crl
       /\ \A u \in DOMAIN crls_heard : u # url => crls_heard'[u] = crls_heard[u]
  BY <1>8 DEF With
<1>14. CheckTypeOK'
  BY <1>5, <1>6, <1>8, <1>10, <1>12, <1>13 DEF CheckInv, CheckTypeOK
<1>15. \A u \in DOMAIN crls_heard' :
         StatusAt(crls_heard'[u], check'.now) \in Definitive => u = url /\ verdict \in Definitive
  BY <1>2, <1>5, <1>10, <1>13 DEF CrlOpen
<1>16. CrlIs(verdict)'
  BY <1>2, <1>10, <1>12, <1>13 DEF CrlIs
<1>17. StatusAt(crls_heard'[url], check'.now) = verdict /\ url \in DOMAIN crls_heard'
  BY <1>2, <1>10, <1>13
<1>19. OcspUntouched'
  BY <1>5, <1>8, <1>12 DEF OcspUntouched
<1>20. CASE check'.at = "crl"
  <2>1. CrlOpen'
    BY <1>7, <1>9, <1>10, <1>12, <1>15, <1>16, <1>20 DEF CrlOpen
  <2>2. QED
    BY <1>7, <1>9, <1>10, <1>14, <1>19, <1>20, <2>1 DEF CheckInv, StageOK
<1>21. CASE check'.at \in {"ocsp", "done"}
  <2>1. /\ revocation'.crl_status = verdict /\ check'.last = "none"
        /\ check'.at = "ocsp" => check'.urls \in Seq(Responders) \ {<<>>}
    BY <1>9, <1>10, <1>12, <1>21
  <2>2. CrlClosed'
    <3>1. revocation'.crl_status = "revoked"
            <=> \E u \in DOMAIN crls_heard' : StatusAt(crls_heard'[u], check'.now) = "revoked"
      BY <1>15, <1>17, <2>1 DEF Definitive
    <3>2. QED
      BY <1>7, <1>16, <2>1, <3>1 DEF CrlClosed
  <2>3. OcspOpen'
    BY <1>19, <2>1 DEF OcspOpen, OcspUntouched
  <2>4. OcspClosed'
    BY <1>19 DEF OcspClosed, OcspUntouched
  <2>5. QED
    BY <1>10, <1>14, <1>21, <2>1, <2>2, <2>3, <2>4 DEF CheckInv, StageOK
<1>22. QED
  BY <1>9, <1>10, <1>20, <1>21

LEMMA MissedCRL ==
  ASSUME CheckInv, DownloadFails
  PROVE  CheckInv' /\ check'.now = check.now /\ check'.at # "putting"
<1>1. PICK after : after = After(check, "nothing")
  OBVIOUS
<1>2. PICK last : last = LastInconclusive(check, "nothing")
  OBVIOUS
<1>3. /\ check' = after.check
      /\ revocation' = [revocation EXCEPT !.crl_status = after.status]
      /\ check.at = "download"
      /\ UNCHANGED <<world, crls_heard, replies_heard>>
  BY <1>1 DEF DownloadFails, chainVars, heard
<1>4. /\ check \in CheckType /\ check.urls \in Seq(CrlUrls) /\ check.urls # <<>>
      /\ revocation \in RevocationType /\ check.last # "unknown"
      /\ world \in Worlds /\ CrlOpen /\ OcspUntouched
  BY <1>3 DEF CheckInv, CheckTypeOK, StageOK
<1>5. last = check.last /\ last \in {"none", "stale", "invalid_signature"}
  BY <1>2, <1>4 DEF LastInconclusive, CheckType, Words
<1>6. /\ after.check \in CheckType
      /\ after.check.now = check.now /\ after.check.read = check.read
      /\ \/ /\ after.check.at = "crl"
            /\ after.check.urls \in Seq(CrlUrls) \ {<<>>}
            /\ after.check.last = last
            /\ after.status = "not_checked"
         \/ /\ \/ after.check.at = "done"
               \/ /\ after.check.at = "ocsp"
                  /\ after.check.urls \in Seq(Responders) \ {<<>>}
            /\ after.check.last = "none"
            /\ after.status = Conclude(last)
  <2>1. "nothing" \notin Definitive
    BY DEF Definitive
  <2>2. QED
    BY <1>1, <1>2, <1>3, <1>4, <2>1, AfterIs
<1>7. /\ Conclude(last) \in {"unreachable", "stale", "invalid_signature"}
      /\ last # "none" => Conclude(last) = last
      /\ last = "none" => Conclude(last) = "unreachable"
  BY <1>5 DEF Conclude
<1>8. /\ revocation' \in RevocationType /\ revocation'.crl_status = after.status
      /\ revocation'.crl_url = revocation.crl_url
      /\ revocation'.crl_next_update = revocation.crl_next_update
      /\ revocation'.crl_from_cache = revocation.crl_from_cache
      /\ revocation'.ocsp_status = revocation.ocsp_status
      /\ revocation'.ocsp_responder_url = revocation.ocsp_responder_url
  BY <1>3, <1>4, <1>6, <1>7 DEF RevocationType, Statuses
<1>9. CheckTypeOK'
  BY <1>3, <1>4, <1>6, <1>8 DEF CheckInv, CheckTypeOK
<1>10. OcspUntouched'
  BY <1>3, <1>4, <1>8 DEF OcspUntouched
<1>11. last # "none" => CrlIs(last)'
  BY <1>3, <1>4, <1>5, <1>6, <1>8 DEF CrlOpen, CrlIs
<1>12. last = "none" => revocation'.crl_url = None
  BY <1>4, <1>5, <1>8 DEF CrlOpen
<1>13. \A u \in DOMAIN crls_heard' : StatusAt(crls_heard'[u], check'.now) \notin Definitive
  BY <1>3, <1>4, <1>6 DEF CrlOpen
<1>14. CASE check'.at = "crl"
  <2>1. CrlOpen'
    BY <1>3, <1>5, <1>6, <1>8, <1>11, <1>12, <1>13, <1>14 DEF CrlOpen
  <2>2. QED
    BY <1>3, <1>5, <1>6, <1>9, <1>10, <1>14, <2>1 DEF CheckInv, StageOK
<1>15. CASE check'.at \in {"ocsp", "done"}
  <2>1. /\ revocation'.crl_status = Conclude(last) /\ check'.last = "none"
        /\ check'.at = "ocsp" => check'.urls \in Seq(Responders) \ {<<>>}
    BY <1>3, <1>6, <1>8, <1>15
  <2>2. CrlClosed'
    BY <1>5, <1>7, <1>11, <1>12, <1>13, <2>1 DEF CrlClosed, Definitive
  <2>3. OcspOpen'
    BY <1>10, <2>1 DEF OcspOpen, OcspUntouched
  <2>4. OcspClosed'
    BY <1>10 DEF OcspClosed, OcspUntouched
  <2>5. QED
    BY <1>3, <1>6, <1>9, <1>15, <2>1, <2>2, <2>3, <2>4 DEF CheckInv, StageOK
<1>16. QED
  BY <1>3, <1>6, <1>14, <1>15

(* A CRL channel that is closed stays as it is while responders are asked. *)
LEMMA CrlStaysClosed ==
  ASSUME CrlClosed, check'.now = check.now, UNCHANGED crls_heard,
         revocation'.crl_status = revocation.crl_status,
         revocation'.crl_url = revocation.crl_url,
         revocation'.crl_next_update = revocation.crl_next_update
  PROVE  CrlClosed'
BY DEF CrlClosed, CrlIs

LEMMA AnsweredOCSP ==
  ASSUME CheckInv, AskResponder
  PROVE  CheckInv' /\ check'.now = check.now /\ check'.at # "putting"
<1>1. PICK reply \in Replies :
        LET url == Head(check.urls)
            after == After(check, ClassifyOCSP(reply)) IN
        /\ check' = after.check
        /\ revocation' = [revocation EXCEPT !.ocsp_status = after.status,
                                            !.ocsp_responder_url = url]
        /\ replies_heard' = With(replies_heard, url, reply)
  BY DEF AskResponder
<1>2. PICK verdict : verdict = StatusAt(reply, check.now)
  OBVIOUS
<1>3. PICK url : url = Head(check.urls)
  OBVIOUS
<1>4. PICK after : after = After(check, verdict)
  OBVIOUS
<1>5. /\ check.at = "ocsp" /\ UNCHANGED <<world, crls_heard>>
  BY DEF AskResponder, chainVars
<1>6. /\ check \in CheckType /\ check.urls \in Seq(Responders) /\ check.urls # <<>>
      /\ revocation \in RevocationType
      /\ world \in Worlds /\ OcspOpen /\ CrlClosed
      /\ DOMAIN replies_heard \subseteq Responders
      /\ \A u \in DOMAIN replies_heard : replies_heard[u] \in Replies
  BY <1>5 DEF CheckInv, CheckTypeOK, StageOK
<1>7. url \in Responders
  BY <1>3, <1>6, HeadTailProperties
<1>8. verdict \in {"good", "revoked", "unknown", "stale", "invalid_signature"}
      /\ ClassifyOCSP(reply) = verdict
  BY <1>2, ClassifiedOCSP
<1>9. /\ check' = after.check
      /\ revocation' = [revocation EXCEPT !.ocsp_status = after.status,
                                          !.ocsp_responder_url = url]
      /\ replies_heard' = With(replies_heard, url, reply)
  BY <1>1, <1>3, <1>4, <1>8
<1>10. /\ after.check \in CheckType
       /\ after.check.now = check.now /\ after.check.read = check.read
       /\ \/ /\ after.check.at = "ocsp"
             /\ after.check.urls \in Seq(Responders) \ {<<>>}
             /\ after.check.last = verdict /\ verdict \notin Definitive
             /\ after.status = "not_checked"
          \/ /\ after.check.at = "done"
             /\ after.check.last = "none"
             /\ after.status = verdict
  <2>1. PICK last : last = LastInconclusive(check, verdict)
    OBVIOUS
  <2>2. last = verdict /\ Conclude(last) = verdict
    BY <1>8, <2>1 DEF LastInconclusive, Conclude
  <2>3. verdict \in {"nothing", "stale", "invalid_signature", "unknown"} \cup Definitive
    BY <1>8 DEF Definitive
  <2>4. /\ after.check \in CheckType
        /\ after.check.now = check.now /\ after.check.read = check.read
        /\ \/ /\ after.check.at = "ocsp"
              /\ after.check.urls \in Seq(Responders) \ {<<>>}
              /\ after.check.last = last /\ verdict \notin Definitive
              /\ after.status = "not_checked"
           \/ /\ after.check.at = "done"
              /\ after.check.last = "none"
              /\ after.status = IF verdict \in Definitive THEN verdict ELSE Conclude(last)
    BY <1>4, <1>5, <1>6, <2>1, <2>3, AfterIs
  <2>5. QED
    BY <2>2, <2>4
<1>11. /\ revocation' \in RevocationType /\ revocation'.ocsp_status = after.status
       /\ revocation'.ocsp_responder_url = url
       /\ revocation'.crl_status = revocation.crl_status
       /\ revocation'.crl_url = revocation.crl_url
       /\ revocation'.crl_next_update = revocation.crl_next_update
       /\ revocation'.crl_from_cache = revocation.crl_from_cache
  BY <1>6, <1>7, <1>8, <1>9, <1>10 DEF RevocationType, Statuses
<1>12. /\ DOMAIN replies_heard' = DOMAIN replies_heard \cup {url}
       /\ replies_heard'[url] = reply
       /\ \A u \in DOMAIN replies_heard : u # url => replies_heard'[u] = replies_heard[u]
  BY <1>9 DEF With
<1>13. CheckTypeOK'
  BY <1>5, <1>6, <1>7, <1>9, <1>10, <1>11, <1>12 DEF CheckInv, CheckTypeOK
<1>14. CrlClosed'
  BY <1>5, <1>6, <1>9, <1>10, <1>11, CrlStaysClosed
<1>15. \A u \in DOMAIN replies_heard' :
         StatusAt(replies_heard'[u], check'.now) \in Definitive => u = url /\ verdict \in Definitive
  BY <1>2, <1>6, <1>9, <1>10, <1>12 DEF OcspOpen
<1>16. OcspIs(verdict)'
  BY <1>2, <1>9, <1>10, <1>11, <1>12 DEF OcspIs
<1>17. StatusAt(replies_heard'[url], check'.now) = verdict /\ url \in DOMAIN replies_heard'
  BY <1>2, <1>9, <1>10, <1>12
<1>18. CASE check'.at = "ocsp"
  <2>1. OcspOpen'
    BY <1>8, <1>9, <1>10, <1>11, <1>15, <1>16, <1>18 DEF OcspOpen
  <2>2. QED
    BY <1>9, <1>10, <1>13, <1>14, <1>18, <2>1 DEF CheckInv, StageOK
<1>19. CASE check'.at = "done"
  <2>1. revocation'.ocsp_status = verdict
    BY <1>9, <1>10, <1>11, <1>19
  <2>2. OcspClosed'
    <3>1. revocation'.ocsp_status = "revoked"
            <=> \E u \in DOMAIN replies_heard' : StatusAt(replies_heard'[u], check'.now) = "revoked"
      BY <1>15, <1>17, <2>1 DEF Definitive
    <3>2. QED
      BY <1>8, <1>16, <2>1, <3>1 DEF OcspClosed
  <2>3. QED
    BY <1>9, <1>10, <1>13, <1>14, <1>19, <2>2 DEF CheckInv, StageOK
<1>20. QED
  BY <1>9, <1>10, <1>18, <1>19

LEMMA MissedOCSP ==
  ASSUME CheckInv, ResponderFails
  PROVE  CheckInv' /\ check'.now = check.now /\ check'.at # "putting"
<1>1. PICK after : after = After(check, "nothing")
  OBVIOUS
<1>2. PICK last : last = LastInconclusive(check, "nothing")
  OBVIOUS
<1>3. /\ check' = after.check
      /\ revocation' = [revocation EXCEPT !.ocsp_status = after.status]
      /\ check.at = "ocsp"
      /\ UNCHANGED <<world, crls_heard, replies_heard>>
  BY <1>1 DEF ResponderFails, chainVars, heard
<1>4. /\ check \in CheckType /\ check.urls \in Seq(Responders) /\ check.urls # <<>>
      /\ revocation \in RevocationType
      /\ world \in Worlds /\ OcspOpen /\ CrlClosed
  BY <1>3 DEF CheckInv, CheckTypeOK, StageOK
<1>5. last = check.last /\ last \in Words
  BY <1>2, <1>4 DEF LastInconclusive, CheckType
<1>6. /\ after.check \in CheckType
      /\ after.check.now = check.now /\ after.check.read = check.read
      /\ \/ /\ after.check.at = "ocsp"
            /\ after.check.urls \in Seq(Responders) \ {<<>>}
            /\ after.check.last = last
            /\ after.status = "not_checked"
         \/ /\ after.check.at = "done"
            /\ after.status = Conclude(last)
  <2>1. "nothing" \notin Definitive
    BY DEF Definitive
  <2>2. QED
    BY <1>1, <1>2, <1>3, <1>4, <2>1, AfterIs
<1>7. /\ Conclude(last) \in {"unreachable", "stale", "invalid_signature", "unknown"}
      /\ last # "none" => Conclude(last) = last
      /\ last = "none" => Conclude(last) = "unreachable"
  BY <1>5 DEF Conclude, Words
<1>8. /\ revocation' \in RevocationType /\ revocation'.ocsp_status = after.status
      /\ revocation'.crl_status = revocation.crl_status
      /\ revocation'.crl_url = revocation.crl_url
      /\ revocation'.crl_next_update = revocation.crl_next_update
      /\ revocation'.crl_from_cache = revocation.crl_from_cache
      /\ revocation'.ocsp_responder_url = revocation.ocsp_responder_url
  BY <1>3, <1>4, <1>6, <1>7 DEF RevocationType, Statuses
<1>9. CheckTypeOK'
  BY <1>3, <1>4, <1>6, <1>8 DEF CheckInv, CheckTypeOK
<1>10. CrlClosed'
  BY <1>3, <1>4, <1>6, <1>8, CrlStaysClosed
<1>11. last # "none" => OcspIs(last)'
  BY <1>3, <1>4, <1>5, <1>6, <1>8 DEF OcspOpen, OcspIs
<1>12. last = "none" => revocation'.ocsp_responder_url = None
  BY <1>4, <1>5, <1>8 DEF OcspOpen
<1>13. \A u \in DOMAIN replies_heard' : StatusAt(replies_heard'[u], check'.now) \notin Definitive
  BY <1>3, <1>4, <1>6 DEF OcspOpen
<1>14. CASE check'.at = "ocsp"
  <2>1. OcspOpen'
    BY <1>3, <1>5, <1>6, <1>8, <1>11, <1>12, <1>13, <1>14 DEF OcspOpen
  <2>2. QED
    BY <1>3, <1>6, <1>9, <1>10, <1>14, <2>1 DEF CheckInv, StageOK
<1>15. CASE check'.at = "done"
  <2>1. revocation'.ocsp_status = Conclude(last)
    BY <1>3, <1>6, <1>8, <1>15
  <2>2. OcspClosed'
    BY <1>5, <1>7, <1>11, <1>12, <1>13, <2>1 DEF OcspClosed, Definitive, Words
  <2>3. QED
    BY <1>3, <1>6, <1>9, <1>10, <1>15, <2>2 DEF CheckInv, StageOK
<1>16. QED
  BY <1>3, <1>6, <1>14, <1>15

(* A check that starts, or that could not, has heard nothing yet.          *)
LEMMA Started ==
  ASSUME CheckInv, check.at \in {"idle", "issuer"},
         UNCHANGED <<world, crls_heard, replies_heard>>,
         check' \in CheckType, check'.last = "none", check'.read \in {0, check.read},
         \/ check'.at = "done"
         \/ check'.at = "issuer" /\ (world.crls # <<>> \/ world.ocsps # <<>>)
         \/ check'.at = "crl" /\ check'.urls \in Seq(CrlUrls) \ {<<>>}
         \/ check'.at = "ocsp" /\ check'.urls \in Seq(Responders) \ {<<>>},
         \/ UNCHANGED revocation
         \/ \E source \in {"provided", "aia_fetch"} :
              revocation' = [revocation EXCEPT !.issuer_source = source]
  PROVE  CheckInv'
<1>1. CrlUntouched /\ OcspUntouched /\ CheckTypeOK
  BY DEF CheckInv, StageOK
<1>2. /\ revocation' \in RevocationType
      /\ revocation'.crl_status = revocation.crl_status
      /\ revocation'.crl_url = revocation.crl_url
      /\ revocation'.crl_from_cache = revocation.crl_from_cache
      /\ revocation'.ocsp_status = revocation.ocsp_status
      /\ revocation'.ocsp_responder_url = revocation.ocsp_responder_url
  BY <1>1 DEF CheckTypeOK, RevocationType
<1>3. CheckTypeOK'
  BY <1>1, <1>2, CacheAssumption DEF CheckTypeOK
<1>4. CrlUntouched' /\ OcspUntouched'
  BY <1>1, <1>2 DEF CrlUntouched, OcspUntouched
<1>5. CrlClosed' /\ CrlOpen'
  BY <1>4 DEF CrlClosed, CrlOpen, CrlUntouched
<1>6. OcspClosed' /\ OcspOpen'
  BY <1>4 DEF OcspClosed, OcspOpen, OcspUntouched
<1>7. QED
  BY <1>3, <1>4, <1>5, <1>6 DEF CheckInv, StageOK

LEMMA ToCRLsIs ==
  ASSUME world \in Worlds, world.crls # <<>> \/ world.ocsps # <<>>,
         NEW c \in CheckType, c.last = "none", NEW next, next = ToCRLs(c)
  PROVE  /\ next \in CheckType /\ next.last = "none"
         /\ next.read = c.read /\ next.now = c.now
         /\ \/ next.at = "crl" /\ next.urls \in Seq(CrlUrls) \ {<<>>}
            \/ next.at = "ocsp" /\ next.urls \in Seq(Responders) \ {<<>>}
<1>1. world.crls \in Seq(CrlUrls) /\ world.ocsps \in Seq(Responders)
  BY EvidenceAssumption
<1>2. CASE world.crls # <<>>
  <2>1. next = [c EXCEPT !.at = "crl", !.urls = world.crls]
    BY <1>2 DEF ToCRLs
  <2>2. QED
    BY <1>1, <1>2, <2>1 DEF CheckType
<1>3. CASE world.crls = <<>>
  <2>1. next = [c EXCEPT !.at = "ocsp", !.urls = world.ocsps]
    BY <1>3 DEF ToCRLs
  <2>2. QED
    BY <1>1, <1>3, <2>1 DEF CheckType
<1>4. QED
  BY <1>2, <1>3

LEMMA Begun ==
  ASSUME CheckInv, Begin, clock \in Nat
  PROVE  CheckInv' /\ check'.now = clock /\ check'.at # "putting"
<1>1. PICK started : started = [NoCheck EXCEPT !.now = clock]
  OBVIOUS
<1>2. /\ started \in CheckType /\ started.last = "none" /\ started.read = 0
      /\ started.now = clock
  <2>1. started = [at |-> "idle", now |-> clock, urls |-> <<>>, last |-> "none", read |-> 0]
    BY <1>1 DEF NoCheck
  <2>2. <<>> \in Seq(CrlUrls)
    OBVIOUS
  <2>3. QED
    BY <2>1, <2>2 DEF CheckType, Words
<1>3. /\ check.at = "idle" /\ UNCHANGED <<world, crls_heard, replies_heard>>
      /\ world \in Worlds
  BY DEF Begin, chainVars, heard, CheckInv, CheckTypeOK
<1>4. CASE world.crls = <<>> /\ world.ocsps = <<>>
  <2>1. check' = [started EXCEPT !.at = "done"] /\ UNCHANGED revocation
    BY <1>1, <1>4 DEF Begin
  <2>2. /\ check' \in CheckType /\ check'.last = "none" /\ check'.read = 0
        /\ check'.at = "done" /\ check'.now = clock
    BY <1>2, <2>1 DEF CheckType
  <2>3. QED
    BY <1>3, <2>1, <2>2, Started
<1>5. CASE ~ (world.crls = <<>> /\ world.ocsps = <<>>) /\ chain.links # <<>>
  <2>1. /\ check' = ToCRLs(started)
        /\ revocation' = [revocation EXCEPT !.issuer_source = "provided"]
    BY <1>1, <1>5 DEF Begin
  <2>2. /\ check' \in CheckType /\ check'.last = "none"
        /\ check'.read = 0 /\ check'.now = clock
        /\ \/ check'.at = "crl" /\ check'.urls \in Seq(CrlUrls) \ {<<>>}
           \/ check'.at = "ocsp" /\ check'.urls \in Seq(Responders) \ {<<>>}
    BY <1>2, <1>3, <1>5, <2>1, ToCRLsIs
  <2>3. QED
    BY <1>3, <2>1, <2>2, Started
<1>6. CASE ~ (world.crls = <<>> /\ world.ocsps = <<>>) /\ chain.links = <<>>
  <2>1. /\ UNCHANGED revocation
        /\ \E at \in {"issuer", "done"} : check' = [started EXCEPT !.at = at]
    BY <1>1, <1>6 DEF Begin
  <2>2. /\ check' \in CheckType /\ check'.last = "none" /\ check'.read = 0
        /\ check'.at \in {"issuer", "done"} /\ check'.now = clock
    BY <1>2, <2>1 DEF CheckType
  <2>3. QED
    BY <1>3, <1>6, <2>1, <2>2, Started
<1>7. QED
  BY <1>4, <1>5, <1>6

LEMMA FetchedOwnIssuer ==
  ASSUME CheckInv, FetchOwnIssuer
  PROVE  CheckInv' /\ check'.now = check.now /\ check'.at # "putting"
<1>1. /\ check.at = "issuer" /\ UNCHANGED <<world, crls_heard, replies_heard>>
      /\ world \in Worlds /\ check \in CheckType /\ check.last = "none"
      /\ world.crls # <<>> \/ world.ocsps # <<>>
  BY DEF FetchOwnIssuer, chainVars, heard, CheckInv, CheckTypeOK, StageOK
<1>2. CASE /\ check' = ToCRLs(check)
           /\ revocation' = [revocation EXCEPT !.issuer_source = "aia_fetch"]
  <2>1. /\ check' \in CheckType /\ check'.last = "none"
        /\ check'.read = check.read /\ check'.now = check.now
        /\ \/ check'.at = "crl" /\ check'.urls \in Seq(CrlUrls) \ {<<>>}
           \/ check'.at = "ocsp" /\ check'.urls \in Seq(Responders) \ {<<>>}
    BY <1>1, <1>2, ToCRLsIs
  <2>2. QED
    BY <1>1, <1>2, <2>1, Started
<1>3. CASE check' = [check EXCEPT !.at = "done"] /\ UNCHANGED revocation
  <2>1. /\ check' \in CheckType /\ check'.last = "none" /\ check'.read = check.read
        /\ check'.at = "done" /\ check'.now = check.now
    BY <1>1, <1>3 DEF CheckType
  <2>2. QED
    BY <1>1, <1>3, <2>1, Started
<1>4. QED
  BY <1>2, <1>3 DEF FetchOwnIssuer

(*-------------------------------------------------------------------------*)
(* The cache.  A process that lists counts all that is on disk, and until  *)
(* another writes the disk is part of what it counts; so the last process  *)
(* that listed after all writes leaves the files within the budget, or was *)
(* excused.  What is put there was served, at a time that has been.        *)
FilesBy(at) == [crl : CRLs \cup {Corrupt}, mtime : 0 .. at]

DirectoriesBy(at) == UNION {[urls -> FilesBy(at)] : urls \in SUBSET CrlUrls}

PutsBy(at) ==
  [at : {"idle", "writing", "listing", "evicting"}, url : CrlUrls \cup {"none"},
   crl : CRLs \cup {Corrupt}, counted : DirectoriesBy(at), left : SUBSET CrlUrls,
   refused : BOOLEAN, current : BOOLEAN]

DiskTyped ==
  /\ cache \in DirectoriesBy(clock)
  /\ put \in [Processes -> PutsBy(clock)]
  /\ excused \in BOOLEAN

PartOf(files, all) ==
  DOMAIN files \subseteq DOMAIN all /\ \A u \in DOMAIN files : files[u] = all[u]

Tracks(r, files) ==
  r.at = "evicting" /\ r.current =>
    PartOf(files, r.counted) /\ (r.refused \/ DOMAIN files \subseteq r.left)

Listing(r) == r.at \in {"writing", "listing"} \/ (r.at = "evicting" /\ r.current)

Accounted ==
  \/ excused
  \/ \E p \in Processes : Listing(put[p])
  \/ Bytes(cache) <= CacheMaxBytes

DiskInv == DiskTyped /\ (\A p \in Processes : Tracks(put[p], cache)) /\ Accounted

LEMMA DirectoryIs ==
  ASSUME NEW at, NEW files
  PROVE  files \in DirectoriesBy(at)
           <=> DOMAIN files \subseteq CrlUrls /\ files \in [DOMAIN files -> FilesBy(at)]
BY DEF DirectoriesBy

LEMMA WithIsDirectory ==
  ASSUME NEW at, NEW files \in DirectoriesBy(at), NEW url \in CrlUrls, NEW file \in FilesBy(at)
  PROVE  With(files, url, file) \in DirectoriesBy(at)
BY DirectoryIs DEF With

LEMMA WithoutIsDirectory ==
  ASSUME NEW at, NEW files \in DirectoriesBy(at), NEW url
  PROVE  /\ WithoutFile(files, url) \in DirectoriesBy(at)
         /\ DOMAIN WithoutFile(files, url) = DOMAIN files \ {url}
         /\ \A u \in DOMAIN files \ {url} : WithoutFile(files, url)[u] = files[u]
BY DirectoryIs DEF WithoutFile

(* Fewer files take fewer bytes.                                           *)
LEMMA FewerBytes ==
  ASSUME NEW at, NEW all \in DirectoriesBy(at), NEW files, PartOf(files, all)
  PROVE  Bytes(files) <= Bytes(all) /\ Bytes(files) \in Nat /\ Bytes(all) \in Nat
<1> DEFINE Space(u) == {u} \X (1 .. all[u].crl.size)
           spaces == {Space(u) : u \in DOMAIN all}
           some == {{u} \X (1 .. files[u].crl.size) : u \in DOMAIN files}
           space == [u \in DOMAIN all |-> Space(u)]
<1>1. IsFiniteSet(DOMAIN all)
  BY BudgetAssumption, DirectoryIs, FS_Subset
<1>2. ASSUME NEW u \in DOMAIN all
      PROVE  IsFiniteSet(Space(u))
  <2>1. PICK n \in Int : n = all[u].crl.size
    BY DirectoryIs, CRLsAssumption DEF FilesBy, Corrupt
  <2>2. IsFiniteSet(1 .. n)
    <3>1. PICK one \in Int : one = 1
      OBVIOUS
    <3>2. IsFiniteSet(one .. n)
      BY FS_Interval
    <3>3. QED
      BY <3>1, <3>2
  <2>3. IsFiniteSet({u})
    BY FS_Singleton
  <2>4. QED
    BY <2>1, <2>2, <2>3, FS_Product
<1>3. space \in Surjection(DOMAIN all, spaces)
  BY DEF Surjection
<1>4. IsFiniteSet(spaces)
  BY <1>1, <1>3, FS_Surjection
<1>5. IsFiniteSet(UNION spaces)
  BY <1>2, <1>4, FS_UNION
<1>6. some \subseteq spaces
  BY DEF PartOf
<1>7. UNION some \in SUBSET UNION spaces
  BY <1>6
<1>8. /\ Cardinality(UNION some) <= Cardinality(UNION spaces)
      /\ Cardinality(UNION some) \in Nat /\ Cardinality(UNION spaces) \in Nat
  BY <1>5, <1>7, FS_Subset, FS_CardinalityType
<1>9. QED
  BY <1>8 DEF Bytes

LEMMA NoBytes ==
  ASSUME NEW files, DOMAIN files = {}
  PROVE  Bytes(files) = 0
<1>1. UNION {{u} \X (1 .. files[u].crl.size) : u \in DOMAIN files} = {}
  OBVIOUS
<1>2. QED
  BY <1>1, FS_EmptySet DEF Bytes

LEMMA IdleIs ==
  ASSUME NEW at, NEW crl \in CRLs \cup {Corrupt}
  PROVE  Idle(crl) \in PutsBy(at) /\ Idle(crl).at = "idle" /\ Idle(crl).crl = crl
<1>1. NoFiles \in DirectoriesBy(at)
  BY DirectoryIs DEF NoFiles
<1>2. QED
  BY <1>1 DEF Idle, PutsBy

LEMMA OverIs ==
  ASSUME DiskTyped, NEW p \in Processes
  PROVE  /\ Over(p) \in PutsBy(clock) /\ Over(p).at = "idle"
         /\ p = Self => Over(p).crl = put[p].crl
<1>1. PICK crl \in CRLs \cup {Corrupt} : crl = IF p = Self THEN put[p].crl ELSE Corrupt
  BY DEF DiskTyped, PutsBy
<1>2. Over(p) = Idle(crl)
  BY <1>1 DEF Over
<1>3. QED
  BY <1>1, <1>2, IdleIs

(* A step of one put that writes nothing.                                  *)
LEMMA PutBecomes ==
  ASSUME DiskInv, UNCHANGED clock, NEW p \in Processes, NEW new \in PutsBy(clock),
         Becomes(p, new), cache' \in DirectoriesBy(clock), excused' \in BOOLEAN,
         PartOf(cache', cache), Tracks(new, cache'),
         excused => excused' \/ Listing(new),
         Listing(put[p]) => excused' \/ Listing(new) \/ Bytes(cache') <= CacheMaxBytes
  PROVE  /\ DiskInv' /\ put'[p] = new
         /\ \A q \in Processes \ {p} : put'[q] = put[q]
<1>1. /\ put' = [put EXCEPT ![p] = new] /\ put \in [Processes -> PutsBy(clock)]
      /\ cache \in DirectoriesBy(clock)
  BY DEF Becomes, DiskInv, DiskTyped
<1>2. /\ put'[p] = new
      /\ \A q \in Processes \ {p} : put'[q] = put[q]
      /\ put' \in [Processes -> PutsBy(clock)]
  BY <1>1
<1>3. DiskTyped'
  BY <1>2 DEF DiskTyped
<1>4. ASSUME NEW q \in Processes
      PROVE  Tracks(put'[q], cache')
  <2>1. CASE q = p
    BY <1>2, <2>1
  <2>2. CASE q # p
    BY <1>2, <2>2 DEF DiskInv, Tracks, PartOf
  <2>3. QED
    BY <2>1, <2>2
<1>5. Bytes(cache) <= CacheMaxBytes => Bytes(cache') <= CacheMaxBytes
  <2>1. Bytes(cache') <= Bytes(cache) /\ Bytes(cache') \in Nat /\ Bytes(cache) \in Nat
    BY <1>1, FewerBytes
  <2>2. QED
    BY <2>1, BudgetAssumption
<1>6. Accounted'
  BY <1>2, <1>5 DEF DiskInv, Accounted
<1>7. QED
  BY <1>2, <1>3, <1>4, <1>6 DEF DiskInv

(* A step that writes; the process will list.                              *)
LEMMA PutWrites ==
  ASSUME DiskInv, UNCHANGED <<clock, excused>>, NEW p \in Processes, NEW new \in PutsBy(clock),
         Writes(p, new), new.at \in {"writing", "listing"}, cache' \in DirectoriesBy(clock)
  PROVE  /\ DiskInv' /\ put'[p] = new
         /\ \A q \in Processes \ {p} : put'[q].crl = put[q].crl
<1>1. put \in [Processes -> PutsBy(clock)] /\ excused \in BOOLEAN
  BY DEF DiskInv, DiskTyped
<1>2. \A q \in Processes : /\ [put[q] EXCEPT !.current = FALSE] \in PutsBy(clock)
                           /\ [put[q] EXCEPT !.current = FALSE].current = FALSE
                           /\ [put[q] EXCEPT !.current = FALSE].crl = put[q].crl
  BY <1>1 DEF PutsBy
<1>3. /\ put' \in [Processes -> PutsBy(clock)] /\ put'[p] = new
      /\ \A q \in Processes \ {p} : put'[q].current = FALSE /\ put'[q].crl = put[q].crl
  BY <1>2 DEF Writes
<1>4. DiskTyped'
  BY <1>1, <1>3 DEF DiskTyped
<1>5. \A q \in Processes : Tracks(put'[q], cache')
  BY <1>3 DEF Tracks
<1>6. Accounted'
  BY <1>3 DEF Accounted, Listing
<1>7. QED
  BY <1>3, <1>4, <1>5, <1>6 DEF DiskInv

LEMMA Opened ==
  ASSUME DiskInv, clock \in Nat, UNCHANGED clock, NEW p \in Processes,
         NEW url \in CrlUrls, NEW crl \in CRLs, Open(p, url, crl)
  PROVE  /\ DiskInv' /\ put'[p].crl = crl
         /\ \A q \in Processes \ {p} : put'[q].crl = put[q].crl
<1>1. PICK new : new = [Idle(crl) EXCEPT !.at = "writing", !.url = url]
  OBVIOUS
<1>2. /\ cache' = With(cache, url, [crl |-> Corrupt, mtime |-> clock])
      /\ Writes(p, new) /\ UNCHANGED <<clock, excused>>
  BY <1>1 DEF Open
<1>3. Idle(crl) \in PutsBy(clock) /\ Idle(crl).crl = crl
  BY IdleIs
<1>4. new \in PutsBy(clock) /\ new.at = "writing" /\ new.crl = crl
  BY <1>1, <1>3 DEF PutsBy
<1>5. cache' \in DirectoriesBy(clock)
  <2>1. cache \in DirectoriesBy(clock) /\ [crl |-> Corrupt, mtime |-> clock] \in FilesBy(clock)
    BY DEF DiskInv, DiskTyped, FilesBy
  <2>2. QED
    BY <1>2, <2>1, WithIsDirectory
<1>6. QED
  BY <1>2, <1>4, <1>5, PutWrites

LEMMA Written ==
  ASSUME DiskInv, clock \in Nat, UNCHANGED clock, NEW p \in Processes, Write(p)
  PROVE  DiskInv' /\ put'[Self].crl = put[Self].crl
<1>1. /\ DiskTyped /\ cache \in DirectoriesBy(clock) /\ excused \in BOOLEAN
      /\ put[p].crl \in CRLs \cup {Corrupt}
  BY DEF DiskInv, DiskTyped, PutsBy
<1>2. PICK over \in PutsBy(clock) :
        over = Over(p) /\ over.at = "idle" /\ (p = Self => over.crl = put[p].crl)
  BY <1>1, OverIs
<1>3. CASE /\ cache' = IF put[p].url \in DOMAIN cache
                       THEN With(cache, put[p].url, [crl |-> put[p].crl, mtime |-> clock])
                       ELSE cache
           /\ Writes(p, [over EXCEPT !.at = "listing"]) /\ UNCHANGED excused
  <2>1. PICK new \in PutsBy(clock) :
          new = [over EXCEPT !.at = "listing"] /\ new.at = "listing" /\ new.crl = over.crl
    <3>1. PICK new : new = [over EXCEPT !.at = "listing"]
      OBVIOUS
    <3>2. new \in PutsBy(clock) /\ new.at = "listing" /\ new.crl = over.crl
      BY <3>1 DEF PutsBy
    <3>3. QED
      BY <3>1, <3>2
  <2>2. cache' \in DirectoriesBy(clock)
    <3>1. CASE put[p].url \in DOMAIN cache
      <4>1. put[p].url \in CrlUrls
        BY <1>1, <3>1, DirectoryIs
      <4>2. PICK file \in FilesBy(clock) : file = [crl |-> put[p].crl, mtime |-> clock]
        <5>1. [crl |-> put[p].crl, mtime |-> clock] \in FilesBy(clock)
          BY <1>1 DEF FilesBy
        <5>2. QED
          BY <5>1
      <4>3. cache' = With(cache, put[p].url, file)
        BY <1>3, <3>1, <4>2
      <4>4. QED
        BY <1>1, <4>1, <4>3, WithIsDirectory
    <3>2. QED
      BY <1>1, <1>3, <3>1
  <2>3. DiskInv' /\ put'[p] = new /\ \A q \in Processes \ {p} : put'[q].crl = put[q].crl
    BY <1>3, <2>1, <2>2, PutWrites
  <2>4. QED
    BY <1>2, <2>1, <2>3 DEF Processes
<1>4. CASE Becomes(p, over) /\ excused' = TRUE /\ UNCHANGED cache
  <2>1. Tracks(over, cache') /\ PartOf(cache', cache)
    BY <1>2, <1>4 DEF Tracks, PartOf
  <2>2. /\ DiskInv' /\ put'[p] = over
        /\ \A q \in Processes \ {p} : put'[q] = put[q]
    BY <1>1, <1>4, <2>1, PutBecomes
  <2>3. QED
    BY <1>2, <2>2 DEF Processes
<1>5. QED
  BY <1>2, <1>3, <1>4 DEF Write

LEMMA Listed ==
  ASSUME DiskInv, UNCHANGED clock, NEW p \in Processes, ListFiles(p)
  PROVE  DiskInv' /\ put'[Self].crl = put[Self].crl
<1>1. /\ DiskTyped /\ cache \in DirectoriesBy(clock) /\ put[p] \in PutsBy(clock)
      /\ DOMAIN cache \in SUBSET CrlUrls /\ UNCHANGED cache
  BY DirectoryIs DEF DiskInv, DiskTyped, ListFiles
<1>2. PartOf(cache', cache)
  BY <1>1 DEF PartOf
<1>3. CASE /\ Becomes(p, [put[p] EXCEPT !.at = "evicting", !.counted = cache,
                                        !.left = DOMAIN cache, !.current = TRUE])
           /\ excused' = FALSE
  <2>1. PICK new \in PutsBy(clock) :
          /\ new = [put[p] EXCEPT !.at = "evicting", !.counted = cache,
                                  !.left = DOMAIN cache, !.current = TRUE]
          /\ new.at = "evicting" /\ new.current = TRUE /\ new.counted = cache
          /\ new.left = DOMAIN cache /\ new.crl = put[p].crl
    <3>1. PICK new : new = [put[p] EXCEPT !.at = "evicting", !.counted = cache,
                                          !.left = DOMAIN cache, !.current = TRUE]
      OBVIOUS
    <3>2. /\ new \in PutsBy(clock) /\ new.at = "evicting" /\ new.current = TRUE /\ new.counted = cache
          /\ new.left = DOMAIN cache /\ new.crl = put[p].crl
      BY <1>1, <3>1 DEF PutsBy
    <3>3. QED
      BY <3>1, <3>2
  <2>2. Tracks(new, cache') /\ Listing(new)
    BY <1>1, <2>1 DEF Tracks, PartOf, Listing
  <2>3. /\ DiskInv' /\ put'[p] = new
        /\ \A q \in Processes \ {p} : put'[q] = put[q]
    BY <1>1, <1>2, <1>3, <2>1, <2>2, PutBecomes
  <2>4. QED
    BY <2>1, <2>3 DEF Processes
<1>4. CASE Becomes(p, Over(p)) /\ excused' = TRUE
  <2>1. PICK over \in PutsBy(clock) :
          over = Over(p) /\ over.at = "idle" /\ (p = Self => over.crl = put[p].crl)
    BY <1>1, OverIs
  <2>2. Tracks(over, cache')
    BY <2>1 DEF Tracks
  <2>3. /\ DiskInv' /\ put'[p] = over
        /\ \A q \in Processes \ {p} : put'[q] = put[q]
    BY <1>1, <1>2, <1>4, <2>1, <2>2, PutBecomes
  <2>4. QED
    BY <2>1, <2>3 DEF Processes
<1>5. QED
  BY <1>3, <1>4 DEF ListFiles

(* A file goes, or it is not there, or it is left.                         *)
LEMMA FileUnlinked ==
  ASSUME DiskInv, UNCHANGED clock, NEW p \in Processes, Unlink(p)
  PROVE  DiskInv' /\ put'[Self].crl = put[Self].crl
<1>1. /\ DiskTyped /\ cache \in DirectoriesBy(clock) /\ put[p] \in PutsBy(clock)
      /\ put[p].counted \in DirectoriesBy(clock) /\ put[p].left \in SUBSET CrlUrls
      /\ put[p].at = "evicting" /\ UNCHANGED excused /\ excused \in BOOLEAN
      /\ Tracks(put[p], cache)
  BY DEF DiskInv, DiskTyped, Unlink, PutsBy
<1>2. PICK u \in Oldest(p) :
        \/ /\ u \in DOMAIN cache /\ cache' = WithoutFile(cache, u)
           /\ Becomes(p, Unlinked(p, u))
        \/ u \notin DOMAIN cache /\ Becomes(p, Skipped(p, u)) /\ UNCHANGED cache
        \/ /\ u \in DOMAIN cache /\ UNCHANGED cache
           /\ Becomes(p, [Skipped(p, u) EXCEPT !.refused = TRUE])
  BY DEF Unlink
<1>3. ASSUME NEW new \in PutsBy(clock), Becomes(p, new), new.at = "evicting",
             new.current = put[p].current, new.crl = put[p].crl,
             cache' \in DirectoriesBy(clock), PartOf(cache', cache), Tracks(new, cache')
      PROVE  DiskInv' /\ put'[Self].crl = put[Self].crl
  <2>1. Listing(put[p]) => Listing(new)
    BY <1>1, <1>3 DEF Listing
  <2>2. /\ DiskInv' /\ put'[p] = new
        /\ \A q \in Processes \ {p} : put'[q] = put[q]
    BY <1>1, <1>3, <2>1, PutBecomes
  <2>3. QED
    BY <1>3, <2>2 DEF Processes
<1>4. CASE u \in DOMAIN cache /\ cache' = WithoutFile(cache, u) /\ Becomes(p, Unlinked(p, u))
  <2>1. /\ cache' \in DirectoriesBy(clock) /\ DOMAIN cache' = DOMAIN cache \ {u}
        /\ \A v \in DOMAIN cache \ {u} : cache'[v] = cache[v]
    BY <1>1, <1>4, WithoutIsDirectory
  <2>2. PICK counted \in DirectoriesBy(clock) :
          /\ counted = WithoutFile(put[p].counted, u)
          /\ DOMAIN counted = DOMAIN put[p].counted \ {u}
          /\ \A v \in DOMAIN put[p].counted \ {u} : counted[v] = put[p].counted[v]
    <3>0. PICK all \in DirectoriesBy(clock) : all = put[p].counted
      BY <1>1
    <3>1. PICK counted : counted = WithoutFile(all, u)
      OBVIOUS
    <3>2. /\ WithoutFile(all, u) \in DirectoriesBy(clock)
          /\ DOMAIN WithoutFile(all, u) = DOMAIN all \ {u}
          /\ \A v \in DOMAIN all \ {u} : WithoutFile(all, u)[v] = all[v]
      BY WithoutIsDirectory
    <3>3. QED
      BY <3>0, <3>1, <3>2
  <2>3. PICK new \in PutsBy(clock) :
          /\ new = Unlinked(p, u) /\ new.at = "evicting" /\ new.counted = counted
          /\ new.left = put[p].left \ {u} /\ new.refused = put[p].refused
          /\ new.current = put[p].current /\ new.crl = put[p].crl
    <3>1. PICK new : new = Unlinked(p, u)
      OBVIOUS
    <3>2. /\ new \in PutsBy(clock) /\ new.at = "evicting" /\ new.counted = counted
          /\ new.left = put[p].left \ {u} /\ new.refused = put[p].refused
          /\ new.current = put[p].current /\ new.crl = put[p].crl
      BY <1>1, <2>2, <3>1 DEF Unlinked, PutsBy
    <3>3. QED
      BY <3>1, <3>2
  <2>4. PartOf(cache', cache) /\ Tracks(new, cache')
    BY <1>1, <2>1, <2>2, <2>3 DEF PartOf, Tracks
  <2>5. QED
    BY <1>3, <1>4, <2>1, <2>3, <2>4
<1>5. CASE u \notin DOMAIN cache /\ Becomes(p, Skipped(p, u)) /\ UNCHANGED cache
  <2>1. PICK new \in PutsBy(clock) :
          /\ new = Skipped(p, u) /\ new.at = "evicting" /\ new.counted = put[p].counted
          /\ new.left = put[p].left \ {u} /\ new.refused = put[p].refused
          /\ new.current = put[p].current /\ new.crl = put[p].crl
    <3>1. PICK new : new = Skipped(p, u)
      OBVIOUS
    <3>2. /\ new \in PutsBy(clock) /\ new.at = "evicting" /\ new.counted = put[p].counted
          /\ new.left = put[p].left \ {u} /\ new.refused = put[p].refused
          /\ new.current = put[p].current /\ new.crl = put[p].crl
      BY <1>1, <3>1 DEF Skipped, PutsBy
    <3>3. QED
      BY <3>1, <3>2
  <2>2. PartOf(cache', cache) /\ Tracks(new, cache')
    BY <1>1, <1>5, <2>1 DEF PartOf, Tracks
  <2>3. QED
    BY <1>1, <1>3, <1>5, <2>1, <2>2
<1>6. CASE /\ u \in DOMAIN cache /\ UNCHANGED cache
           /\ Becomes(p, [Skipped(p, u) EXCEPT !.refused = TRUE])
  <2>1. PICK new \in PutsBy(clock) :
          /\ new = [Skipped(p, u) EXCEPT !.refused = TRUE]
          /\ new.at = "evicting" /\ new.counted = put[p].counted /\ new.refused = TRUE
          /\ new.current = put[p].current /\ new.crl = put[p].crl
    <3>1. PICK new : new = [Skipped(p, u) EXCEPT !.refused = TRUE]
      OBVIOUS
    <3>2. /\ new \in PutsBy(clock) /\ new.at = "evicting" /\ new.counted = put[p].counted /\ new.refused = TRUE
          /\ new.current = put[p].current /\ new.crl = put[p].crl
      BY <1>1, <3>1 DEF Skipped, PutsBy
    <3>3. QED
      BY <3>1, <3>2
  <2>2. PartOf(cache', cache) /\ Tracks(new, cache')
    BY <1>1, <1>6, <2>1 DEF PartOf, Tracks
  <2>3. QED
    BY <1>1, <1>3, <1>6, <2>1, <2>2
<1>7. QED
  BY <1>2, <1>4, <1>5, <1>6

(* The last to list is within the budget, or a file refused to go.         *)
LEMMA EvictionEnds ==
  ASSUME DiskInv, UNCHANGED clock, NEW p \in Processes, EndEviction(p)
  PROVE  DiskInv' /\ put'[Self].crl = put[Self].crl
<1>1. /\ DiskTyped /\ cache \in DirectoriesBy(clock)
      /\ put[p].counted \in DirectoriesBy(clock) /\ put[p].refused \in BOOLEAN
      /\ put[p].at = "evicting" /\ put[p].current \in BOOLEAN /\ excused \in BOOLEAN
      /\ Tracks(put[p], cache)
  BY DEF DiskInv, DiskTyped, EndEviction, PutsBy
<1>2. PICK over \in PutsBy(clock) :
        over = Over(p) /\ over.at = "idle" /\ (p = Self => over.crl = put[p].crl)
  BY <1>1, OverIs
<1>3. /\ Becomes(p, over) /\ UNCHANGED cache
      /\ excused' = (excused \/ (put[p].current /\ put[p].refused /\ ~ Fits(p)))
      /\ Fits(p) \/ put[p].left = {}
  BY <1>2 DEF EndEviction
<1>4. Tracks(over, cache') /\ PartOf(cache', cache)
  BY <1>2, <1>3 DEF Tracks, PartOf
<1>5. ASSUME Listing(put[p]), ~ excused'
      PROVE  Bytes(cache') <= CacheMaxBytes
  <2>1. put[p].current /\ PartOf(cache, put[p].counted)
    BY <1>1, <1>5 DEF Listing, Tracks
  <2>2. CASE Fits(p)
    <3>1. /\ Bytes(cache) <= Bytes(put[p].counted) /\ Bytes(cache) \in Nat
          /\ Bytes(put[p].counted) \in Nat
      BY <1>1, <2>1, FewerBytes
    <3>2. QED
      BY <1>3, <2>2, <3>1, BudgetAssumption DEF Fits
  <2>3. CASE ~ Fits(p)
    <3>1. DOMAIN cache = {}
      BY <1>1, <1>3, <1>5, <2>1, <2>3 DEF Tracks
    <3>2. QED
      BY <1>3, <3>1, NoBytes, BudgetAssumption
  <2>4. QED
    BY <2>2, <2>3
<1>6. /\ DiskInv' /\ put'[p] = over
      /\ \A q \in Processes \ {p} : put'[q] = put[q]
  BY <1>1, <1>3, <1>4, <1>5, PutBecomes
<1>7. QED
  BY <1>2, <1>6 DEF Processes

LEMMA PutSteps ==
  ASSUME DiskInv, clock \in Nat, UNCHANGED clock, NEW p \in Processes, PutStep(p)
  PROVE  DiskInv' /\ put'[Self].crl = put[Self].crl
BY Written, Listed, FileUnlinked, EvictionEnds DEF PutStep

(* What was put before is put at a later time.                             *)
LEMMA DiskAges ==
  ASSUME DiskInv, clock \in Nat, clock' = clock + 1, UNCHANGED diskVars
  PROVE  DiskInv'
<1>1. UNCHANGED <<cache, put, excused>>
  BY DEF diskVars
<1>2. FilesBy(clock) \subseteq FilesBy(clock + 1)
  BY DEF FilesBy
<1>3. DirectoriesBy(clock) \subseteq DirectoriesBy(clock + 1)
  BY <1>2 DEF DirectoriesBy
<1>4. PutsBy(clock) \subseteq PutsBy(clock + 1)
  BY <1>3 DEF PutsBy
<1>5. DiskTyped'
  BY <1>1, <1>3, <1>4 DEF DiskInv, DiskTyped
<1>6. QED
  BY <1>1, <1>5 DEF DiskInv, Accounted

LEMMA DiskStays ==
  ASSUME DiskInv, UNCHANGED <<clock, cache, put, excused>>
  PROVE  DiskInv'
BY DEF DiskInv, DiskTyped, Accounted

CacheInv ==
  /\ clock \in 0 .. MaxClock
  /\ check.now <= clock
  /\ DiskInv
  /\ check.at = "putting" => put[Self].crl \in CRLs

(* A check that waits for a download or for its put has heard what it had. *)
LEMMA Waits ==
  ASSUME CheckInv, check.at \in {"crl", "download"}, NEW at \in {"download", "putting"},
         check' = [check EXCEPT !.at = at],
         UNCHANGED <<world, revocation, crls_heard, replies_heard>>
  PROVE  CheckInv' /\ check'.now = check.now /\ check'.at = at
<1>1. check \in CheckType
  BY DEF CheckInv, CheckTypeOK
<1>2. /\ check' \in CheckType /\ check'.at = at /\ check'.now = check.now
      /\ check'.urls = check.urls /\ check'.last = check.last /\ check'.read = check.read
  BY <1>1 DEF CheckType
<1>3. CheckTypeOK'
  BY <1>2 DEF CheckInv, CheckTypeOK
<1>4. CrlOpen' /\ OcspUntouched'
  BY <1>2 DEF CheckInv, StageOK, CrlOpen, CrlIs, OcspUntouched
<1>5. QED
  BY <1>2, <1>3, <1>4 DEF CheckInv, StageOK

(* A cached CRL that is used is one that was served, and it is recent.     *)
LEMMA CacheRead ==
  ASSUME CheckInv, CacheInv, ReadCache
  PROVE  CheckInv' /\ check'.now = check.now /\ check'.at # "putting"
<1>1. PICK url : url = Head(check.urls)
  OBVIOUS
<1>2. check.at = "crl" /\ UNCHANGED world /\ check \in CheckType
  BY DEF ReadCache, chainVars, CheckInv, CheckTypeOK
<1>3. CASE Hit(url)
  <2>1. /\ url \in DOMAIN cache /\ cache[url].crl \in CRLs
        /\ cache[url].mtime \in 0 .. clock
        /\ clock - cache[url].mtime <= CacheMaxAge
    <3>1. cache[url].crl \in CRLs \cup {Corrupt} /\ cache[url].mtime \in 0 .. clock
      BY <1>3, DirectoryIs DEF Hit, CacheInv, DiskInv, DiskTyped, FilesBy
    <3>2. QED
      BY <1>3, <3>1 DEF Hit, Sane
  <2>2. PICK crl \in CRLs : crl = cache[url].crl
    BY <2>1
  <2>3. PICK age \in Int : age = clock - cache[url].mtime
    BY <2>1, CacheAssumption DEF CacheInv
  <2>4. JudgeCRL(Head(check.urls), crl, TRUE, age)
    BY <1>1, <1>3, <2>2, <2>3 DEF ReadCache
  <2>5. QED
    BY <1>2, <2>1, <2>3, <2>4, JudgedCRL
<1>4. CASE ~ Hit(url)
  <2>1. /\ check' = [check EXCEPT !.at = "download"]
        /\ UNCHANGED <<revocation, crls_heard, replies_heard>>
    BY <1>1, <1>4 DEF ReadCache, heard
  <2>2. QED
    BY <1>2, <2>1, Waits
<1>5. QED
  BY <1>3, <1>4

(*-------------------------------------------------------------------------*)
(* All of it together.                                                     *)
EvidenceInv == ChainInv /\ CheckInv /\ CacheInv

LEMMA InitEvidenceInv == InitEvidence => EvidenceInv
<1> SUFFICES ASSUME InitEvidence
             PROVE  EvidenceInv
  OBVIOUS
<1> USE DEF InitEvidence, InitRevocation
<1>1. ChainInv
  BY InitChainInv
<1>2. world \in Worlds /\ <<>> \in Seq(CrlUrls)
  BY DEF InitChain
<1>3. CheckTypeOK
  <2>1. check \in CheckType /\ check.at = "idle" /\ check.last = "none"
    BY <1>2 DEF NoCheck, CheckType, Words
  <2>2. revocation \in RevocationType /\ ~ revocation.crl_from_cache
    BY DEF NoRevocation, RevocationType, Statuses
  <2>3. QED
    BY <1>2, <2>1, <2>2 DEF CheckTypeOK
<1>4. CrlUntouched /\ OcspUntouched
  BY DEF CrlUntouched, OcspUntouched, NoRevocation
<1>5. CheckInv
  BY <1>3, <1>4 DEF CheckInv, StageOK, NoCheck
<1>6. CacheInv
  <2>1. /\ cache \in [DOMAIN cache -> [crl : CRLs \cup {Corrupt}, mtime : {0}]]
        /\ DOMAIN cache \subseteq CrlUrls /\ Bytes(cache) <= CacheMaxBytes
    BY <1>2, EvidenceAssumption
  <2>2. cache \in DirectoriesBy(clock)
    BY <2>1, DirectoryIs DEF FilesBy
  <2>3. NoPut \in PutsBy(clock) /\ NoPut.at = "idle"
    BY IdleIs DEF NoPut
  <2>4. DiskTyped
    BY <2>2, <2>3 DEF DiskTyped, InitDisk
  <2>5. \A p \in Processes : Tracks(put[p], cache)
    BY <2>3 DEF Tracks, InitDisk
  <2>6. DiskInv
    BY <2>1, <2>4, <2>5 DEF DiskInv, Accounted
  <2>7. QED
    BY <2>6, CacheAssumption DEF CacheInv, NoCheck
<1>7. QED
  BY <1>1, <1>5, <1>6 DEF EvidenceInv

LEMMA NextEvidenceInv ==
  EvidenceInv /\ [NextEvidence]_evidenceVars => EvidenceInv'
<1> SUFFICES ASSUME EvidenceInv, [NextEvidence]_evidenceVars
             PROVE  EvidenceInv'
  OBVIOUS
<1>0. /\ ChainInv /\ CheckInv /\ CacheInv /\ DiskInv /\ clock \in Nat /\ check.now \in Nat
      /\ Self \in Processes
  BY CacheAssumption DEF EvidenceInv, CacheInv, CheckInv, CheckTypeOK, CheckType, Processes
<1>1. ASSUME CheckInv', check'.now = check.now, UNCHANGED <<chainVars, clock>>, DiskInv',
             check'.at = "putting" => put'[Self].crl \in CRLs
      PROVE  EvidenceInv'
  <2>1. CacheInv'
    BY <1>0, <1>1 DEF CacheInv
  <2>2. ChainInv'
    BY <1>0, <1>1, NextChainInv
  <2>3. QED
    BY <1>1, <2>1, <2>2 DEF EvidenceInv
<1>2. ASSUME UNCHANGED <<world, check, revocation, heard>>
      PROVE  CheckInv'
  <2>1. UNCHANGED <<crls_heard, replies_heard>>
    BY <1>2 DEF heard
  <2>2. UNCHANGED <<CrlUntouched, OcspUntouched, CrlOpen, OcspOpen, CrlClosed, OcspClosed>>
    BY <1>2, <2>1 DEF CrlUntouched, OcspUntouched, CrlOpen, OcspOpen, CrlClosed, OcspClosed, CrlIs, OcspIs
  <2>3. QED
    BY <1>0, <1>2, <2>1, <2>2 DEF CheckInv, CheckTypeOK, StageOK
<1>3. ASSUME UNCHANGED <<clock, diskVars>>
      PROVE  DiskInv'
  BY <1>0, <1>3, DiskStays DEF diskVars
<1>4. CASE ChainNext /\ UNCHANGED revocationVars
  <2>1. ChainInv'
    BY <1>0, <1>4, NextChainInv
  <2>2. UNCHANGED world /\ UNCHANGED <<clock, diskVars, put, check, revocation, heard>>
    <3>1. UNCHANGED world
      BY <1>4 DEF ChainNext, VerifyPath, VerifyFails, FetchFrontier, CheckVendor
    <3>2. UNCHANGED <<clock, diskVars, check, revocation, heard>>
      BY <1>4 DEF revocationVars
    <3>3. UNCHANGED put
      BY <3>2 DEF diskVars
    <3>4. QED
      BY <3>1, <3>2, <3>3
  <2>3. CacheInv'
    BY <1>0, <1>3, <2>2 DEF CacheInv
  <2>4. QED
    BY <1>2, <2>1, <2>2, <2>3 DEF EvidenceInv
<1>5. CASE Begin
  <2>1. /\ CheckInv' /\ check'.now = clock /\ check'.at # "putting"
        /\ UNCHANGED <<chainVars, clock, diskVars>>
    BY <1>0, <1>5, Begun DEF Begin
  <2>2. ChainInv' /\ CacheInv'
    BY <1>0, <1>3, <2>1, NextChainInv DEF CacheInv
  <2>3. QED
    BY <2>1, <2>2 DEF EvidenceInv
<1>6. ASSUME CheckInv', check'.now = check.now, check'.at # "putting",
             UNCHANGED <<chainVars, clock, diskVars>>
      PROVE  EvidenceInv'
  BY <1>1, <1>3, <1>6
<1>7. CASE FetchOwnIssuer
  BY <1>0, <1>6, <1>7, FetchedOwnIssuer DEF FetchOwnIssuer
<1>8. CASE ReadCache
  <2>1. CheckInv' /\ check'.now = check.now /\ check'.at # "putting"
    BY <1>0, <1>8, CacheRead
  <2>2. QED
    BY <1>6, <1>8, <2>1 DEF ReadCache
<1>9. CASE DownloadFails
  BY <1>0, <1>6, <1>9, MissedCRL DEF DownloadFails
<1>10. CASE Download
  <2>1. PICK crl \in world.served :
          \/ JudgeCRL(Head(check.urls), crl, FALSE, 0) /\ UNCHANGED diskVars
          \/ /\ Open(Self, Head(check.urls), crl)
             /\ check' = [check EXCEPT !.at = "putting"]
             /\ UNCHANGED <<revocation, heard>>
    BY <1>10 DEF Download
  <2>2. /\ check.at = "download" /\ UNCHANGED <<chainVars, clock, world>>
        /\ crl \in CRLs /\ Head(check.urls) \in CrlUrls
    <3>1. check.at = "download" /\ UNCHANGED <<chainVars, clock, world>>
      BY <1>10 DEF Download, chainVars
    <3>2. world \in Worlds /\ check.urls \in Seq(CrlUrls) \ {<<>>}
      BY <1>0, <3>1 DEF CheckInv, CheckTypeOK, StageOK
    <3>3. world.served \subseteq CRLs
      BY <3>2, EvidenceAssumption
    <3>4. QED
      BY <3>1, <3>2, <3>3, HeadTailProperties
  <2>3. CASE JudgeCRL(Head(check.urls), crl, FALSE, 0) /\ UNCHANGED diskVars
    <3>1. PICK age \in Int : age = 0
      OBVIOUS
    <3>2. JudgeCRL(Head(check.urls), crl, FALSE, age)
      BY <2>3, <3>1
    <3>3. CheckInv' /\ check'.now = check.now /\ check'.at # "putting"
      BY <1>0, <2>2, <3>1, <3>2, JudgedCRL
    <3>4. QED
      BY <1>6, <2>2, <2>3, <3>3
  <2>4. CASE /\ Open(Self, Head(check.urls), crl)
             /\ check' = [check EXCEPT !.at = "putting"]
             /\ UNCHANGED <<revocation, heard>>
    <3>1. CheckInv' /\ check'.now = check.now
      BY <1>0, <2>2, <2>4, Waits DEF heard
    <3>2. PICK url \in CrlUrls : url = Head(check.urls)
      BY <2>2
    <3>3. DiskInv' /\ put'[Self].crl = crl
      BY <1>0, <2>2, <2>4, <3>2, Opened
    <3>4. QED
      BY <1>1, <2>2, <3>1, <3>3
  <2>5. QED
    BY <2>1, <2>3, <2>4
<1>11. CASE PutOn
  <2>1. /\ PutStep(Self) /\ check.at = "putting"
        /\ UNCHANGED <<chainVars, clock, check, revocation, heard, world>>
    BY <1>11 DEF PutOn, chainVars
  <2>2. DiskInv' /\ put'[Self].crl = put[Self].crl
    BY <1>0, <2>1, PutSteps
  <2>3. QED
    BY <1>0, <1>1, <1>2, <2>1, <2>2 DEF CacheInv
<1>12. CASE JudgeDownload
  <2>1. /\ check.at = "putting" /\ put[Self].at = "idle" /\ Becomes(Self, NoPut)
        /\ JudgeCRL(Head(check.urls), put[Self].crl, FALSE, 0)
        /\ UNCHANGED <<chainVars, clock, cache, excused, world>>
    BY <1>12 DEF JudgeDownload, chainVars
  <2>2. PICK crl \in CRLs : crl = put[Self].crl
    BY <1>0, <2>1 DEF CacheInv
  <2>3. PICK age \in Int : age = 0
    OBVIOUS
  <2>4. JudgeCRL(Head(check.urls), crl, FALSE, age)
    BY <2>1, <2>2, <2>3
  <2>5. CheckInv' /\ check'.now = check.now /\ check'.at # "putting"
    BY <1>0, <2>1, <2>3, <2>4, JudgedCRL
  <2>6. PICK new \in PutsBy(clock) : new = NoPut /\ new.at = "idle"
    <3>1. PICK corrupt \in CRLs \cup {Corrupt} : corrupt = Corrupt
      OBVIOUS
    <3>2. Idle(corrupt) \in PutsBy(clock) /\ Idle(corrupt).at = "idle"
      BY IdleIs
    <3>3. QED
      BY <3>1, <3>2 DEF NoPut
  <2>7. /\ PartOf(cache', cache) /\ Tracks(new, cache') /\ ~ Listing(put[Self])
        /\ cache' \in DirectoriesBy(clock) /\ excused' \in BOOLEAN /\ excused' = excused
    BY <1>0, <2>1, <2>6 DEF PartOf, Tracks, Listing, DiskInv, DiskTyped
  <2>8. DiskInv'
    BY <1>0, <2>1, <2>6, <2>7, PutBecomes
  <2>9. QED
    BY <1>1, <2>1, <2>5, <2>8
<1>13. CASE AskResponder
  <2>1. CheckInv' /\ check'.now = check.now /\ check'.at # "putting"
    BY <1>0, <1>13, AnsweredOCSP
  <2>2. QED
    BY <1>6, <1>13, <2>1 DEF AskResponder
<1>14. CASE ResponderFails
  BY <1>0, <1>6, <1>14, MissedOCSP DEF ResponderFails
<1>15. ASSUME NEW p \in Neighbours, AnotherPuts(p)
       PROVE  EvidenceInv'
  <2>1. /\ (\E url \in CrlUrls, crl \in world.served : Open(p, url, crl)) \/ PutStep(p)
        /\ UNCHANGED <<chainVars, clock, check, revocation, heard, world>>
    BY <1>15 DEF AnotherPuts, chainVars
  <2>2. p \in Processes /\ Self \in Processes \ {p}
    BY ProcessesAssumption DEF Processes
  <2>3. world.served \subseteq CRLs
    BY <1>0, EvidenceAssumption DEF CheckInv, CheckTypeOK
  <2>4. DiskInv' /\ put'[Self].crl = put[Self].crl
    <3>1. CASE PutStep(p)
      BY <1>0, <2>1, <2>2, <3>1, PutSteps
    <3>2. ASSUME NEW url \in CrlUrls, NEW crl \in CRLs, Open(p, url, crl)
          PROVE  DiskInv' /\ put'[Self].crl = put[Self].crl
      BY <1>0, <2>1, <2>2, <3>2, Opened
    <3>3. QED
      BY <2>1, <2>3, <3>1, <3>2
  <2>5. QED
    BY <1>0, <1>1, <1>2, <2>1, <2>4 DEF CacheInv
<1>16. CASE Tick
  <2>1. /\ clock' = clock + 1 /\ clock < MaxClock
        /\ UNCHANGED <<chainVars, diskVars, put, check, revocation, heard, world>>
    BY <1>16 DEF Tick, chainVars, diskVars
  <2>2. DiskInv'
    BY <1>0, <2>1, DiskAges
  <2>3. CacheInv'
    BY <1>0, <2>1, <2>2, CacheAssumption DEF CacheInv
  <2>4. ChainInv' /\ CheckInv'
    BY <1>0, <1>2, <2>1, NextChainInv
  <2>5. QED
    BY <2>3, <2>4 DEF EvidenceInv
<1>17. CASE UNCHANGED evidenceVars
  <2>1. UNCHANGED <<chainVars, clock, diskVars, put, check, revocation, heard, world>>
    BY <1>17 DEF evidenceVars, revocationVars, chainVars, diskVars
  <2>2. QED
    BY <1>0, <1>1, <1>2, <1>3, <2>1 DEF CacheInv
<1>18. QED
  BY <1>4, <1>5, <1>7, <1>8, <1>9, <1>10, <1>11, <1>12, <1>13, <1>14, <1>15, <1>16, <1>17
  DEF NextEvidence, Step

(* In every stage: what the statuses say of what was heard.                *)
LEMMA StatusesSay ==
  ASSUME CheckInv
  PROVE  /\ revocation.crl_status = "revoked"
              <=> \E u \in DOMAIN crls_heard : StatusAt(crls_heard[u], check.now) = "revoked"
         /\ revocation.ocsp_status = "revoked"
              <=> \E u \in DOMAIN replies_heard : StatusAt(replies_heard[u], check.now) = "revoked"
         /\ revocation.crl_status = "good" => CrlIs("good")
<1>1. check.at \in {"idle", "issuer", "crl", "download", "putting", "ocsp", "done"}
  BY DEF CheckInv, CheckTypeOK, CheckType
<1>2. CASE check.at \in {"idle", "issuer"}
  BY <1>2 DEF CheckInv, StageOK, CrlUntouched, OcspUntouched
<1>3. CASE check.at \in {"crl", "download", "putting"}
  BY <1>3 DEF CheckInv, StageOK, CrlOpen, OcspUntouched, Definitive
<1>4. CASE check.at = "ocsp"
  BY <1>4 DEF CheckInv, StageOK, CrlClosed, OcspOpen, Definitive
<1>5. CASE check.at = "done"
  BY <1>5 DEF CheckInv, StageOK, CrlClosed, OcspClosed
<1>6. QED
  BY <1>1, <1>2, <1>3, <1>4, <1>5

LEMMA RevocationSays == CheckInv => RevocationIsHonest
<1> SUFFICES ASSUME CheckInv
             PROVE  RevocationIsHonest
  OBVIOUS
<1>1. /\ check.now \in Int
      /\ \A u \in DOMAIN crls_heard : crls_heard[u] \in CRLs \cup Replies
      /\ \A u \in DOMAIN replies_heard : replies_heard[u] \in CRLs \cup Replies
      /\ revocation.crl_from_cache => check.read <= CacheMaxAge
  BY DEF CheckInv, CheckTypeOK, CheckType
<1>2. "revoked" \in Definitive /\ "good" \in Definitive
  BY DEF Definitive
<1>3. VerdictIsEarned
  <2>1. Revoked = "yes" <=> revocation.crl_status = "revoked" \/ revocation.ocsp_status = "revoked"
    BY DEF Revoked
  <2>2. Revoked = "no" => revocation.crl_status = "good"
    BY DEF Revoked
  <2>3. \A u \in DOMAIN crls_heard :
          StatusAt(crls_heard[u], check.now) = "revoked"
            <=> SignedAndFresh(crls_heard[u]) /\ crls_heard[u].status = "revoked"
    BY <1>1, <1>2, StatusSays
  <2>4. \A u \in DOMAIN replies_heard :
          StatusAt(replies_heard[u], check.now) = "revoked"
            <=> SignedAndFresh(replies_heard[u]) /\ replies_heard[u].status = "revoked"
    BY <1>1, <1>2, StatusSays
  <2>5. Revoked = "yes" <=>
          \/ \E u \in DOMAIN crls_heard :
               SignedAndFresh(crls_heard[u]) /\ crls_heard[u].status = "revoked"
          \/ \E u \in DOMAIN replies_heard :
               SignedAndFresh(replies_heard[u]) /\ replies_heard[u].status = "revoked"
    BY <2>1, <2>3, <2>4, StatusesSay
  <2>6. ASSUME Revoked = "no"
        PROVE  LET crl == crls_heard[revocation.crl_url] IN
               SignedAndFresh(crl) /\ crl.status = "good"
    BY <1>1, <1>2, <2>2, <2>6, StatusesSay, StatusSays DEF CrlIs
  <2>7. QED
    BY <1>1, <2>5, <2>6 DEF VerdictIsEarned
<1>4. DetailsMatchStatus
  <2>1. SUFFICES ASSUME check.at = "done"
                 PROVE  /\ IF revocation.crl_status \in {"not_checked", "unreachable"}
                           THEN revocation.crl_url = None
                           ELSE LET crl == crls_heard[revocation.crl_url] IN
                                /\ revocation.crl_status = StatusOf(crl)
                                /\ revocation.crl_next_update = crl.next_update
                        /\ IF revocation.ocsp_status \in {"not_checked", "unreachable"}
                           THEN revocation.ocsp_responder_url = None
                           ELSE revocation.ocsp_status
                                  = StatusOf(replies_heard[revocation.ocsp_responder_url])
    BY DEF DetailsMatchStatus
  <2>2. CrlClosed /\ OcspClosed
    BY <2>1 DEF CheckInv, StageOK
  <2>3. ASSUME revocation.crl_status \notin {"not_checked", "unreachable"}
        PROVE  LET crl == crls_heard[revocation.crl_url] IN
               /\ revocation.crl_status = StatusOf(crl)
               /\ revocation.crl_next_update = crl.next_update
    BY <1>1, <2>2, <2>3, StatusSays DEF CrlClosed, CrlIs
  <2>4. ASSUME revocation.ocsp_status \notin {"not_checked", "unreachable"}
        PROVE  revocation.ocsp_status = StatusOf(replies_heard[revocation.ocsp_responder_url])
    BY <1>1, <2>2, <2>4, StatusSays DEF OcspClosed, OcspIs
  <2>5. QED
    BY <2>2, <2>3, <2>4 DEF CrlClosed, OcspClosed
<1>5. QED
  BY <1>3, <1>4 DEF RevocationIsHonest

LEMMA BoundsSay == EvidenceInv => WithinBounds
<1> SUFFICES ASSUME EvidenceInv
             PROVE  WithinBounds
  OBVIOUS
<1>1. BuildTypeOK /\ CheckTypeOK /\ CacheInv
  BY DEF EvidenceInv, ChainInv, CheckInv
<1>2. /\ chain.verified \in BOOLEAN
      /\ chain.links \in Seq([cert : Certs, source : {"peer", "aia_fetch"}])
  BY <1>1 DEF BuildTypeOK, Link
<1>3. DiskTypeOK
  <2>1. /\ cache \in DirectoriesBy(clock) /\ excused \in BOOLEAN
        /\ put \in [Processes -> PutsBy(clock)]
    BY <1>1 DEF CacheInv, DiskInv, DiskTyped
  <2>2. \A files \in DirectoriesBy(clock) : IsDirectory(files)
    BY DirectoryIs DEF IsDirectory, Files, FilesBy
  <2>3. ASSUME NEW p \in Processes
        PROVE  /\ put[p] \in [at : {"idle", "writing", "listing", "evicting"},
                              url : CrlUrls \cup {"none"}, crl : CRLs \cup {Corrupt},
                              counted : {put[p].counted}, left : SUBSET CrlUrls,
                              refused : BOOLEAN, current : BOOLEAN]
               /\ IsDirectory(put[p].counted)
    BY <2>1, <2>2 DEF PutsBy
  <2>4. QED
    BY <2>1, <2>2, <2>3 DEF DiskTypeOK
<1>4. EvidenceTypeOK
  BY <1>1, <1>2, <1>3
  DEF EvidenceTypeOK, BuildTypeOK, CheckTypeOK, CacheInv, CheckType, RevocationType
<1>5. QED
  BY <1>1, <1>4
  DEF WithinBounds, CacheWithinBudget, CacheInv, DiskInv, Accounted, Listing

(* For all certificates, stores, CRLs, replies and budgets, whatever AIA   *)
(* fetches and in whatever order the URLs fail.                            *)
THEOREM EvidenceInvariant == EvidenceSpec => []EvidenceInv
BY InitEvidenceInv, NextEvidenceInv, PTL DEF EvidenceSpec

(* Chains are reported as they were found: what build_chain_audit calls    *)
(* verified is a path to an anchor, it misses an intermediate only if the  *)
(* peer's certificates alone have no path, and the vendors' stores of      *)
(* check_multi_store_trust disagree with it only for an anchor.            *)
THEOREM ChainHonesty == EvidenceSpec => []ChainsAreHonest
<1>1. EvidenceInv => ChainsAreHonest
  BY ChainSays DEF EvidenceInv
<1>2. QED
  BY <1>1, EvidenceInvariant, PTL

(* Revocation is reported as it was heard: check_revocation says revoked   *)
(* exactly when a signed and fresh answer said so, not revoked only by a   *)
(* signed and fresh CRL, and details are of the answer behind the status.  *)
THEOREM RevocationHonesty == EvidenceSpec => []RevocationIsHonest
<1>1. EvidenceInv => RevocationIsHonest
  BY RevocationSays DEF EvidenceInv
<1>2. QED
  BY <1>1, EvidenceInvariant, PTL

(* When no put is under way the files of CRLCache are within its budget,   *)
(* however the writes, listings and unlinks of any number of processes     *)
(* went together, unless the last eviction was cut short by the disk; AIA  *)
(* is followed to its depth at most, and all has its type.                 *)
THEOREM EvidenceWithinBounds == EvidenceSpec => []WithinBounds
BY BoundsSay, EvidenceInvariant, PTL

(*-------------------------------------------------------------------------*)
(* Weaker endpoints.                                                       *)
(*-------------------------------------------------------------------------*)
(* The least and the largest of some numbers below a bound.                *)
LEMMA LeastIs ==
  ASSUME NEW n \in Nat, NEW S \in SUBSET (0 .. n), S # {}
  PROVE  Min(S) \in S /\ \A y \in S : Min(S) <= y
<1>1. S \subseteq Nat
  OBVIOUS
<1>2. PICK k \in S : \A y \in S : k <= y
  BY <1>1, LeastNatural
<1>3. QED
  BY <1>2 DEF Min

(* The largest, in the same way.                                           *)
LEMMA LargestIs ==
  ASSUME NEW n \in Nat, NEW S \in SUBSET (0 .. n), S # {}
  PROVE  Max(S) \in S /\ \A y \in S : y <= Max(S)
<1>. DEFINE R == {n - x : x \in S}
<1>1. R \subseteq Nat /\ R # {}
  <2>1. S \subseteq 0 .. n
    OBVIOUS
  <2>2. \A x \in 0 .. n : n - x \in Nat
    OBVIOUS
  <2>3. QED
    BY <2>1, <2>2
<1>2. PICK k \in R : \A y \in R : k <= y
  BY <1>1, LeastNatural
<1>3. PICK x \in S : k = n - x
  BY <1>2
<1>4. \A y \in S : n - x <= n - y
  BY <1>2, <1>3
<1>5. \A y \in S : x >= y
  BY <1>4
<1>6. PICK z \in S : z = Max(S) /\ \A y \in S : z >= y
  BY <1>5 DEF Max
<1>7. QED
  BY <1>6

(* Of two sets of which the second has, for each number of the first, one  *)
(* no smaller, the second has the larger maximum; likewise for minima.     *)
LEMMA LargerMax ==
  ASSUME NEW n \in Nat, NEW S \in SUBSET (0 .. n), NEW U \in SUBSET (0 .. n), S # {},
         \A x \in S : \E y \in U : x <= y
  PROVE  Max(S) <= Max(U)
<1>1. U # {} /\ Max(S) \in S
  BY LargestIs
<1>2. PICK y \in U : Max(S) <= y
  BY <1>1
<1>3. y <= Max(U) /\ Max(U) \in U
  BY <1>1, LargestIs
<1>4. y \in Int /\ Max(S) \in Int /\ Max(U) \in Int
  <2>1. S \subseteq Int /\ U \subseteq Int
    OBVIOUS
  <2>2. QED
    BY <1>1, <1>3, <2>1
<1>5. QED
  BY <1>2, <1>3, <1>4

(* Of two sets, the one that has a number below each of the other has the  *)
(* smaller least.                                                          *)
LEMMA SmallerMin ==
  ASSUME NEW n \in Nat, NEW S \in SUBSET (0 .. n), NEW U \in SUBSET (0 .. n), S # {},
         \A x \in S : \E y \in U : y <= x
  PROVE  Min(U) <= Min(S)
<1>1. U # {} /\ Min(S) \in S
  BY LeastIs
<1>2. PICK y \in U : y <= Min(S)
  BY <1>1
<1>3. Min(U) <= y /\ Min(U) \in U
  BY <1>1, LeastIs
<1>4. y \in Int /\ Min(S) \in Int /\ Min(U) \in Int
  <2>1. S \subseteq Int /\ U \subseteq Int
    OBVIOUS
  <2>2. QED
    BY <1>1, <1>3, <2>1
<1>5. QED
  BY <1>2, <1>3, <1>4

(* Scores and their buckets. *)
LEMMA BucketsRise ==
  /\ \A i, j \in Int : i <= j => key_exchange_score_bucket(i) <= key_exchange_score_bucket(j)
  /\ \A i, j \in Nat : i <= j => cipher_score_bucket(i) <= cipher_score_bucket(j)
  /\ \A i \in Int : key_exchange_score_bucket(i) \in 20 .. 100
  /\ \A i \in Nat : cipher_score_bucket(i) \in 0 .. 100
  /\ \A i \in Nat : i >= 128 => cipher_score_bucket(i) >= 80
<1>1. ASSUME NEW i \in Int
      PROVE  key_exchange_score_bucket(i)
               = IF i < 512 THEN 20 ELSE IF i < 1024 THEN 40
                 ELSE IF i < 2048 THEN 80 ELSE IF i < 4096 THEN 90 ELSE 100
  <2>1. CASE i < 512
    BY SMTT(60), <2>1 DEF key_exchange_score_bucket
  <2>2. CASE 512 <= i /\ i < 1024
    <3>1. i \in 512 .. 1023 /\ ~ i < 512
      BY <2>2
    <3>2. QED
      BY SMTT(30), <2>2, <3>1 DEF key_exchange_score_bucket
  <2>3. CASE 1024 <= i /\ i < 2048
    <3>1. i \in 1024 .. 2047 /\ ~ i < 512 /\ i \notin 512 .. 1023
      BY <2>3
    <3>2. QED
      BY SMTT(60), <2>3, <3>1 DEF key_exchange_score_bucket
  <2>4. CASE 2048 <= i /\ i < 4096
    <3>1. i \in 2048 .. 4095 /\ ~ i < 512 /\ i \notin 512 .. 1023 /\ i \notin 1024 .. 2047
      BY SMTT(60), <2>4
    <3>2. QED
      BY <2>4, <3>1 DEF key_exchange_score_bucket
  <2>5. CASE 4096 <= i
    <3>1. ~ i < 512 /\ i \notin 512 .. 1023 /\ i \notin 1024 .. 2047 /\ i \notin 2048 .. 4095
      BY <2>5, SMTT(30)
    <3>2. QED
      BY <2>5, <3>1 DEF key_exchange_score_bucket
  <2>6. QED
    BY <2>1, <2>2, <2>3, <2>4, <2>5
<1>2. /\ \A i, j \in Int : i <= j
          => key_exchange_score_bucket(i) <= key_exchange_score_bucket(j)
      /\ \A i \in Int : key_exchange_score_bucket(i) \in 20 .. 100
  BY <1>1
<1>3. /\ \A i, j \in Nat : i <= j => cipher_score_bucket(i) <= cipher_score_bucket(j)
      /\ \A i \in Nat : cipher_score_bucket(i) \in 0 .. 100
      /\ \A i \in Nat : i >= 128 => cipher_score_bucket(i) >= 80
  BY DEF cipher_score_bucket
<1>4. QED
  BY <1>2, <1>3

(* A higher score is no worse a grade, and 1300 is at least a B.           *)
LEMMA GradesFall ==
  ASSUME NEW i \in Nat, NEW j \in Nat
  PROVE  /\ i <= j => score_to_grade(j) <= score_to_grade(i)
         /\ j >= 1300 => score_to_grade(j) <= B
<1>1. ASSUME NEW k \in Nat
      PROVE  score_to_grade(k)
               = IF k >= 1600 THEN 1 ELSE IF k >= 1300 THEN 3 ELSE IF k >= 1000 THEN 4
                 ELSE IF k >= 700 THEN 5 ELSE IF k >= 400 THEN 6 ELSE 7
  <2>1. CASE k < 400
    BY <2>1 DEF score_to_grade, A, B, C, D, E, F
  <2>2. CASE 400 <= k /\ k < 700
    BY <2>2 DEF score_to_grade, A, B, C, D, E, F
  <2>3. CASE 700 <= k /\ k < 1000
    BY <2>3 DEF score_to_grade, A, B, C, D, E, F
  <2>4. CASE 1000 <= k /\ k < 1300
    BY <2>4 DEF score_to_grade, A, B, C, D, E, F
  <2>5. CASE 1300 <= k /\ k < 1600
    BY <2>5 DEF score_to_grade, A, B, C, D, E, F
  <2>6. CASE 1600 <= k
    BY <2>6 DEF score_to_grade, A, B, C, D, E, F
  <2>7. QED
    BY <2>1, <2>2, <2>3, <2>4, <2>5, <2>6
<1>2. QED
  BY <1>1 DEF B

(* The scores of the versions: only old ones are below 100.                *)
LEMMA KnownScores ==
  /\ \A v \in DOMAIN PROTOCOL_SCORE : PROTOCOL_SCORE[v] \in 0 .. 100
  /\ DOMAIN PROTOCOL_SCORE = {"SSL2", "SSL3", "TLS10", "TLS11", "TLS12", "TLS13"}
  /\ \A v \in DOMAIN PROTOCOL_SCORE :
       /\ PROTOCOL_SCORE[v] < 100 <=> v \in {"SSL2", "SSL3", "TLS10", "TLS11"}
       /\ v # "SSL2" => PROTOCOL_SCORE[v] >= 80
  /\ PROTOCOL_SCORE["TLS13"] = 100 /\ PROTOCOL_SCORE["TLS12"] = 100
  /\ PROTOCOL_SCORE["SSL2"] = 0 /\ PROTOCOL_SCORE["SSL3"] = 80
  /\ PROTOCOL_SCORE["TLS10"] = 90 /\ PROTOCOL_SCORE["TLS11"] = 95
BY DEF PROTOCOL_SCORE

(* What scans of a weaker endpoint show, p, next to those of a stronger, q: *)
(* at most older versions, and suites that are no AEAD suites and no       *)
(* stronger than one of q, unless q has suites of TLS 1.3 alone.           *)
OldVersions == {"SSL2", "SSL3", "TLS10", "TLS11"}

OlderVersions(p, q) ==
  /\ Versions(q) \subseteq Versions(p)
  /\ Versions(p) \subseteq DOMAIN PROTOCOL_SCORE
  /\ \A u \in Versions(p) \ Versions(q) :
       \E x \in Versions(q) : PROTOCOL_SCORE[u] < PROTOCOL_SCORE[x]

LowerSuites(p, q) ==
  /\ Ciphers(q) \subseteq Ciphers(p)
  /\ \A c \in Ciphers(p) \ Ciphers(q) : ~ is_aead(c)
  /\ (Ciphers(q) # {} /\ \A c \in Ciphers(q) : "RC4" \in c.words)
       => \A c \in Ciphers(p) : "RC4" \in c.words
  /\ Bits(Ciphers(p)) \subseteq CIPHER_BITS
  /\ \/ \A b \in Bits(Ciphers(p)) : \E d \in Bits(Ciphers(q)) : b <= d
     \/ /\ Bits(Ciphers(q)) \subseteq {128, 256}
        /\ Versions(p) \cap OldVersions # {}
        /\ "TLS13" \in Versions(q)

SmallerGroup(p, q) ==
  /\ p.deep.groups = q.deep.groups
  /\ q.deep.dh \subseteq Int /\ AtMostOne(q.deep.dh)
  /\ \/ p.deep.dh = q.deep.dh
     \/ \E s, d \in Int : s < d /\ p.deep.dh = {s} /\ q.deep.dh = {d}

MoreFlaws(p, q) ==
  /\ q.deep.scanned => p.deep.scanned
  /\ q.deep.flaws \subseteq p.deep.flaws
  /\ q.deep.compression => p.deep.compression

WorseScan(p, q) ==
  /\ OlderVersions(p, q)
  /\ LowerSuites(p, q)
  /\ SmallerGroup(p, q)
  /\ MoreFlaws(p, q)

(* No ceiling is lifted by a worse scan. *)
LEMMA ProtocolCeilingsStay ==
  ASSUME NEW p, NEW q, OlderVersions(p, q)
  PROVE  \A x \in ProtocolCeilings(Versions(q)) :
           \E y \in ProtocolCeilings(Versions(p)) : x <= y
<1>. DEFINE V == Versions(q)
            W == Versions(p)
<1>1. /\ V \subseteq W
      /\ \A u \in W \ V : \E x \in V : PROTOCOL_SCORE[u] < PROTOCOL_SCORE[x]
      /\ W \subseteq DOMAIN PROTOCOL_SCORE
  BY DEF OlderVersions
<1>. HIDE DEF V, W
<1>2. \A u \in W \ V : u \in OldVersions
  <2>1. SUFFICES ASSUME NEW u \in W \ V
                 PROVE  PROTOCOL_SCORE[u] < 100
    BY <1>1, KnownScores DEF OldVersions
  <2>2. PICK x \in V : PROTOCOL_SCORE[u] < PROTOCOL_SCORE[x]
    BY <1>1
  <2>3. PROTOCOL_SCORE[u] \in 0 .. 100 /\ PROTOCOL_SCORE[x] \in 0 .. 100
    BY <1>1, KnownScores
  <2>4. QED
    BY <2>2, <2>3
<1>3. V = {"SSL3"} => "SSL2" \in W \/ W = {"SSL3"}
  <2>1. ASSUME V = {"SSL3"}, W # {"SSL3"}
        PROVE  "SSL2" \in W
    <3>1. PICK u \in W \ V : TRUE
      BY <1>1, <2>1
    <3>2. PROTOCOL_SCORE[u] < 80
      BY <1>1, <2>1, KnownScores
    <3>3. u \in {"SSL2", "SSL3", "TLS10", "TLS11"}
      BY <1>2 DEF OldVersions
    <3>4. u = "SSL2"
      BY <3>2, <3>3, KnownScores
    <3>5. QED
      BY <3>4
  <2>2. QED
    BY <2>1
<1>4. V \cap {"TLS12", "TLS13"} = {} => W \cap {"TLS12", "TLS13"} = {}
  BY <1>2 DEF OldVersions
<1>5. "TLS13" \notin V => "TLS13" \notin W
  BY <1>2 DEF OldVersions
<1>6. /\ "SSL2" \in V => "SSL2" \in W
      /\ "SSL3" \in V => "SSL3" \in W
      /\ V \cap {"TLS10", "TLS11"} # {} => W \cap {"TLS10", "TLS11"} # {}
  BY <1>1
<1>7. F \in Int /\ C \in Int /\ B \in Int /\ A_MINUS \in Int
  BY DEF F, C, B, A_MINUS
<1>8. \A x \in ProtocolCeilings(V) : x \in ProtocolCeilings(W) \/ (x = F /\ "SSL2" \in W)
  BY <1>3, <1>4, <1>5, <1>6 DEF ProtocolCeilings
<1>9. "SSL2" \in W => F \in ProtocolCeilings(W)
  BY DEF ProtocolCeilings
<1>10. ProtocolCeilings(V) \subseteq {F, C, B, A_MINUS}
  BY DEF ProtocolCeilings
<1>11. \A x \in ProtocolCeilings(V) : x \in ProtocolCeilings(W) /\ x \in Int
  BY <1>7, <1>8, <1>9, <1>10
<1>12. QED
  BY <1>11 DEF V, W

(* A flaw that caps the grade of the stronger endpoint caps that of the    *)
(* weaker.                                                                 *)
LEMMA FlawCeilingsStay ==
  ASSUME NEW p, NEW q, WorseScan(p, q)
  PROVE  FlawCeilings(q) \subseteq FlawCeilings(p)
<1>. DEFINE flawed(r) == {CeilingOf[f] : f \in r.deep.flaws \cap DOMAIN CeilingOf}
            modern(r) == Versions(r) \cap {"TLS11", "TLS12", "TLS13"} # {}
            old(r) == {"beast", "insecure_ssl_version"} \subseteq r.deep.flaws
            short(r) == r.deep.flaws \cap {"rc4", "sweet32"} # {} /\ modern(r)
            rc4(r) == Ciphers(r) # {} /\ \A c \in Ciphers(r) : "RC4" \in c.words
            small(r) == \E size \in r.deep.dh : size < 2048
<1>1. q.deep.flaws \subseteq p.deep.flaws /\ Versions(q) \subseteq Versions(p)
  BY DEF WorseScan, MoreFlaws, OlderVersions
<1>2. flawed(q) \subseteq flawed(p)
  BY <1>1
<1>3. old(q) => old(p)
  BY <1>1
<1>4. short(q) => short(p)
  BY <1>1
<1>5. rc4(q) => rc4(p)
  BY DEF WorseScan, LowerSuites
<1>6. small(q) => small(p)
  <2>1. CASE p.deep.dh = q.deep.dh
    BY <2>1
  <2>2. ASSUME NEW s \in Int, NEW d \in Int, s < d, p.deep.dh = {s}, q.deep.dh = {d}
        PROVE  small(q) => small(p)
    BY <2>2
  <2>3. QED
    BY <2>1, <2>2 DEF WorseScan, SmallerGroup
<1>7. \A r : FlawCeilings(r) =
               flawed(r) \cup (IF old(r) THEN {B} ELSE {})
                 \cup (IF short(r) THEN {C} ELSE {})
                 \cup (IF rc4(r) THEN {F} ELSE {})
                 \cup (IF small(r) THEN {B} ELSE {})
  BY DEF FlawCeilings
<1>. HIDE DEF flawed, modern, old, short, rc4, small
<1>8. QED
  BY <1>2, <1>3, <1>4, <1>5, <1>6, <1>7

(* Every ceiling of the stronger endpoint is one of the weaker, or above   *)
(* one.                                                                    *)
LEMMA CeilingsStay ==
  ASSUME NEW p, NEW q, WorseScan(p, q),
         q.chain_audit.missing_intermediate => p.chain_audit.missing_intermediate
  PROVE  \A x \in Ceilings(q) : \E y \in Ceilings(p) : x <= y
<1>. DEFINE plain(r) == Ciphers(r) # {} /\ \A c \in Ciphers(r) : ~ is_aead(c)
            flaws(r) == IF r.deep.scanned THEN FlawCeilings(r) ELSE {}
            rest(r) == (IF r.deep.compression THEN {C} ELSE {})
                       \cup (IF r.chain_audit.missing_intermediate THEN {B} ELSE {})
                       \cup (IF plain(r) THEN {B} ELSE {})
<1>1. plain(q) => plain(p)
  BY DEF WorseScan, LowerSuites
<1>2. \A r : Ceilings(r) = ProtocolCeilings(Versions(r)) \cup flaws(r) \cup rest(r)
  BY DEF Ceilings
<1>3. flaws(q) \subseteq flaws(p)
  BY FlawCeilingsStay DEF WorseScan, MoreFlaws
<1>. HIDE DEF plain
<1>4. rest(q) \subseteq rest(p)
  BY <1>1 DEF WorseScan, MoreFlaws
<1>. HIDE DEF flaws, rest
<1>5. \A x \in ProtocolCeilings(Versions(q)) :
        \E y \in ProtocolCeilings(Versions(p)) : x <= y
  BY ProtocolCeilingsStay DEF WorseScan
<1>6. Ceilings(q) \subseteq 1 .. 7
  BY CeilingGrades
<1>7. \A x \in Ceilings(q) : x <= x
  BY <1>6
<1>8. QED
  BY <1>2, <1>3, <1>4, <1>5, <1>7

(* The size of a key, and that of a group, are one number or none.         *)
LEMMA KeysAreNumbers ==
  \A row \in EC_TO_RSA_EQUIVALENT_BITS : row.rsa \in Nat
BY DEF EC_TO_RSA_EQUIVALENT_BITS

(* What curves are worth, in bits of RSA.                                  *)
LEMMA CurvesAreNumbers ==
  \A g \in DOMAIN CURVE_EQUIVALENT_BITS : CURVE_EQUIVALENT_BITS[g] \in Nat
BY DEF CURVE_EQUIVALENT_BITS

(* The least of some naturals is one.                                      *)
LEMMA LeastIsNumber ==
  ASSUME NEW S, \A x \in S : x \in Nat, S # {}
  PROVE  Min(S) \in Int
<1>1. S \subseteq Nat
  OBVIOUS
<1>2. PICK k \in S : \A y \in S : k <= y
  BY <1>1, LeastNatural
<1>3. Min(S) \in S
  BY <1>2 DEF Min
<1>4. Nat \subseteq Int
  OBVIOUS
<1>5. S \subseteq Int
  BY <1>1, <1>4
<1>6. QED
  BY <1>3, <1>5, Zenon

(* A key is worth one size of RSA at most.                                 *)
LEMMA KeyIsNumber ==
  ASSUME NEW key, key.size \in Int
  PROVE  EquivalentBits(key) \subseteq Int /\ AtMostOne(EquivalentBits(key))
<1>. DEFINE large == {row \in EC_TO_RSA_EQUIVALENT_BITS : key.size <= row.curve}
            sizes == {row.rsa : row \in large}
<1>1. sizes # {} => Min(sizes) \in Int
  <2>1. \A x \in sizes : x \in Nat
    BY KeysAreNumbers
  <2>. HIDE DEF sizes
  <2>2. QED
    BY <2>1, LeastIsNumber
<1>2. large # {} => sizes # {}
  OBVIOUS
<1>3. EquivalentBits(key) \in {{key.size}, {3072}, {7680}, {15360}, {}}
        \/ (large # {} /\ EquivalentBits(key) = {Min(sizes)})
  BY DEF EquivalentBits
<1>. HIDE DEF large, sizes
<1>4. PICK x \in Int : EquivalentBits(key) \in {{x}, {}}
  BY <1>1, <1>2, <1>3
<1>5. QED
  BY <1>4 DEF AtMostOne

(* So is the group of the key exchange.                                    *)
LEMMA GroupIsNumber ==
  ASSUME NEW r, r.deep.dh \subseteq Int, AtMostOne(r.deep.dh)
  PROVE  Ephemeral(r) \subseteq Int /\ AtMostOne(Ephemeral(r))
<1>. DEFINE curves == {CURVE_EQUIVALENT_BITS[g] :
                         g \in r.deep.groups \cap DOMAIN CURVE_EQUIVALENT_BITS}
<1>1. curves # {} => Min(curves) \in Int
  <2>1. \A x \in curves : x \in Nat
    BY CurvesAreNumbers
  <2>. HIDE DEF curves
  <2>2. QED
    BY <2>1, LeastIsNumber
<1>2. Ephemeral(r) = IF r.deep.dh # {} THEN r.deep.dh
                     ELSE IF curves # {} THEN {Min(curves)} ELSE {}
  BY DEF Ephemeral
<1>. HIDE DEF curves
<1>3. QED
  BY <1>1, <1>2 DEF AtMostOne

(* The lesser of two sizes, when there is any.                             *)
LEMMA LeastOfTwo ==
  ASSUME NEW S \in SUBSET Int, NEW U \in SUBSET Int, AtMostOne(S), AtMostOne(U),
         S \cup U # {}
  PROVE  /\ Min(S \cup U) \in S \cup U
         /\ \A y \in S \cup U : Min(S \cup U) <= y
<1>1. \E x \in S \cup U : \A y \in S \cup U : x <= y
  <2>1. CASE S = {}
    <3>1. PICK x \in U : U = {x}
      BY <2>1 DEF AtMostOne
    <3>2. QED
      BY <2>1, <3>1
  <2>2. CASE U = {}
    <3>1. PICK x \in S : S = {x}
      BY <2>2 DEF AtMostOne
    <3>2. QED
      BY <2>2, <3>1
  <2>3. CASE S # {} /\ U # {}
    <3>1. PICK x \in S, y \in U : S = {x} /\ U = {y}
      <4>1. PICK x \in S : TRUE
        BY <2>3
      <4>2. PICK y \in U : TRUE
        BY <2>3
      <4>3. S = {x} /\ U = {y}
        BY <4>1, <4>2 DEF AtMostOne
      <4>4. QED
        BY <4>3
    <3>2. CASE x <= y
      BY <3>1, <3>2
    <3>3. CASE y <= x
      BY <3>1, <3>3
    <3>4. QED
      BY <3>1, <3>2, <3>3
  <2>4. QED
    BY <2>1, <2>2, <2>3
<1>2. QED
  BY <1>1 DEF Min

(* With a smaller group and the same key, the exchange scores no more.     *)
LEMMA ExchangeFalls ==
  ASSUME NEW p, NEW q, NEW c, SmallerGroup(p, q), c.public_key.size \in Int,
         KeyExchange(q, c) # {}
  PROVE  LET of(r) == key_exchange_score_bucket(Min(KeyExchange(r, c)))
         IN of(p) \in 20 .. 100 /\ of(q) \in 20 .. 100 /\ of(p) <= of(q)
<1>. DEFINE S == EquivalentBits(c.public_key)
            U == Ephemeral(q)
            W == Ephemeral(p)
<1>1. S \in SUBSET Int /\ AtMostOne(S)
  BY KeyIsNumber
<1>2. U \in SUBSET Int /\ AtMostOne(U)
  BY GroupIsNumber DEF SmallerGroup
<1>3. W = U \/ \E s, d \in Int : s < d /\ W = {s} /\ U = {d}
  BY DEF SmallerGroup, Ephemeral
<1>4. KeyExchange(q, c) = S \cup U /\ KeyExchange(p, c) = S \cup W
  BY DEF KeyExchange
<1>. HIDE DEF S, U, W
<1>5. Min(S \cup U) \in S \cup U /\ \A y \in S \cup U : Min(S \cup U) <= y
  BY <1>1, <1>2, <1>4, LeastOfTwo
<1>6. W \in SUBSET Int /\ AtMostOne(W) /\ S \cup W # {}
  BY <1>2, <1>3, <1>4 DEF AtMostOne
<1>7. Min(S \cup W) \in S \cup W /\ \A y \in S \cup W : Min(S \cup W) <= y
  BY <1>1, <1>6, LeastOfTwo
<1>8. Min(S \cup W) <= Min(S \cup U)
  <2>1. CASE Min(S \cup U) \in S
    BY <1>7, <2>1
  <2>2. CASE W = U
    BY <1>7, <1>5, <2>2
  <2>3. ASSUME NEW s \in Int, NEW d \in Int, s < d, W = {s}, U = {d},
               Min(S \cup U) \in U
        PROVE  Min(S \cup W) <= Min(S \cup U)
    <3>1. Min(S \cup U) = d /\ Min(S \cup W) <= s /\ Min(S \cup W) \in Int
      BY <1>1, <1>6, <1>7, <2>3
    <3>2. QED
      BY <2>3, <3>1
  <2>4. QED
    BY <1>3, <1>5, <2>1, <2>2, <2>3
<1>9. Min(S \cup W) \in Int /\ Min(S \cup U) \in Int
  BY <1>1, <1>2, <1>5, <1>6, <1>7
<1>10. QED
  BY <1>4, <1>8, <1>9, BucketsRise

(* The three parts of a score.                                             *)
Protocol(r) ==
  LET protocols == {PROTOCOL_SCORE[v] : v \in Versions(r)}
  IN Max(protocols) + Min(protocols)
Exchange(r, c) == key_exchange_score_bucket(Min(KeyExchange(r, c)))
Strength(r) ==
  LET bits == Bits(Ciphers(r))
  IN cipher_score_bucket(Max(bits)) + cipher_score_bucket(Min(bits))

(* The weighted sum of grade_certificate, by its three parts.              *)
LEMMA ScoreOfParts ==
  ASSUME NEW r, NEW c
  PROVE  Score(r, c) =
           IF Protocol(r) = 0 \/ Strength(r) = 0 THEN 0
           ELSE 3 * Protocol(r) + 6 * Exchange(r, c) + 4 * Strength(r)
BY DEF Score, Protocol, Exchange, Strength

(* Older versions only lower the score of the protocol.                    *)
LEMMA ProtocolFalls ==
  ASSUME NEW p, NEW q, OlderVersions(p, q), Versions(q) # {}
  PROVE  /\ Protocol(p) \in Nat /\ Protocol(q) \in Nat /\ Protocol(p) <= Protocol(q)
         /\ "TLS13" \in Versions(q) /\ "SSL2" \notin Versions(q) => Protocol(q) >= 180
<1>. DEFINE S == {PROTOCOL_SCORE[v] : v \in Versions(q)}
            U == {PROTOCOL_SCORE[v] : v \in Versions(p)}
<1>1. PICK n \in Nat : n = 100
  OBVIOUS
<1>2. S \in SUBSET (0 .. n) /\ U \in SUBSET (0 .. n) /\ S # {} /\ U # {}
  BY <1>1, KnownScores DEF OlderVersions
<1>3. \A x \in S : \E y \in U : y <= x
  <2>1. SUFFICES ASSUME NEW v \in Versions(q)
                 PROVE  \E y \in U : y <= PROTOCOL_SCORE[v]
    OBVIOUS
  <2>2. PROTOCOL_SCORE[v] \in U
    BY DEF OlderVersions
  <2>3. PROTOCOL_SCORE[v] <= PROTOCOL_SCORE[v]
    BY <1>2, <2>2
  <2>4. QED
    BY <2>2, <2>3
<1>4. \A x \in U : \E y \in S : x <= y
  <2>1. SUFFICES ASSUME NEW v \in Versions(p)
                 PROVE  \E y \in S : PROTOCOL_SCORE[v] <= y
    OBVIOUS
  <2>2. PROTOCOL_SCORE[v] \in 0 .. n
    BY <1>1, KnownScores DEF OlderVersions
  <2>3. CASE v \in Versions(q)
    BY <2>2, <2>3
  <2>4. CASE v \notin Versions(q)
    <3>1. PICK x \in Versions(q) : PROTOCOL_SCORE[v] < PROTOCOL_SCORE[x]
      BY <2>4 DEF OlderVersions
    <3>2. PROTOCOL_SCORE[x] \in 0 .. n
      BY <1>1, KnownScores DEF OlderVersions
    <3>3. QED
      BY <2>2, <3>1, <3>2
  <2>5. QED
    BY <2>3, <2>4
<1>5. "TLS13" \in Versions(q) => 100 \in S
  BY KnownScores
<1>6. "SSL2" \notin Versions(q) => \A x \in S : x >= 80
  BY KnownScores DEF OlderVersions
<1>. HIDE DEF S, U
<1>7. Min(U) <= Min(S) /\ Max(U) <= Max(S)
  BY <1>2, <1>3, <1>4, LargerMax, SmallerMin
<1>8. /\ Max(S) \in S /\ \A y \in S : y <= Max(S)
      /\ Min(S) \in S
      /\ Max(U) \in U /\ Min(U) \in U
  BY <1>2, LargestIs, LeastIs
<1>9. S \subseteq Nat /\ U \subseteq Nat
  BY <1>2
<1>10. /\ Max(S) \in Nat /\ Min(S) \in Nat /\ Max(U) \in Nat /\ Min(U) \in Nat
  BY <1>8, <1>9
<1>11. Protocol(q) = Max(S) + Min(S) /\ Protocol(p) = Max(U) + Min(U)
  BY DEF Protocol, S, U
<1>12. 100 \in S /\ (\A x \in S : x >= 80) => Max(S) >= 100 /\ Min(S) >= 80
  BY <1>8, <1>10
<1>13. QED
  BY <1>5, <1>6, <1>7, <1>10, <1>11, <1>12

(* Suites of fewer bits lower the score of the strength, unless the        *)
(* stronger endpoint accepts TLS 1.3 alone, where the older versions that  *)
(* were added cap the grade.                                               *)
LEMMA StrengthFalls ==
  ASSUME NEW p, NEW q, LowerSuites(p, q), Bits(Ciphers(q)) # {}
  PROVE  /\ Strength(p) \in Nat /\ Strength(q) \in Nat
         /\ Strength(p) <= Strength(q)
            \/ /\ Strength(q) >= 160
               /\ Versions(p) \cap OldVersions # {}
               /\ "TLS13" \in Versions(q)
<1>. DEFINE S == Bits(Ciphers(q))
            U == Bits(Ciphers(p))
            special == Versions(p) \cap OldVersions # {} /\ "TLS13" \in Versions(q)
<1>1. PICK n \in Nat : n = 256
  OBVIOUS
<1>2. CIPHER_BITS \subseteq 0 .. n
  BY <1>1 DEF CIPHER_BITS
<1>3. S \subseteq U
  BY DEF LowerSuites, Bits
<1>4. U \subseteq CIPHER_BITS
  BY DEF LowerSuites
<1>5. (\A b \in U : \E d \in S : b <= d) \/ (S \subseteq {128, 256} /\ special)
  BY DEF LowerSuites
<1>6. Strength(q) = cipher_score_bucket(Max(S)) + cipher_score_bucket(Min(S))
      /\ Strength(p) = cipher_score_bucket(Max(U)) + cipher_score_bucket(Min(U))
  BY DEF Strength
<1>7. S # {}
  OBVIOUS
<1>. HIDE DEF S, U, special
<1>8. S \in SUBSET (0 .. n) /\ U \in SUBSET (0 .. n) /\ U # {}
  BY <1>2, <1>3, <1>4, <1>7
<1>9. Max(S) \in S /\ Min(S) \in S /\ Max(U) \in U /\ Min(U) \in U
  BY <1>7, <1>8, LargestIs, LeastIs
<1>10. Max(S) \in Nat /\ Min(S) \in Nat /\ Max(U) \in Nat /\ Min(U) \in Nat
  <2>1. S \subseteq Nat /\ U \subseteq Nat
    BY <1>8
  <2>2. QED
    BY <1>9, <2>1
<1>11. /\ cipher_score_bucket(Max(S)) \in Nat /\ cipher_score_bucket(Min(S)) \in Nat
       /\ cipher_score_bucket(Max(U)) \in Nat /\ cipher_score_bucket(Min(U)) \in Nat
  BY <1>10, BucketsRise
<1>12. ASSUME \A b \in U : \E d \in S : b <= d
       PROVE  Strength(p) <= Strength(q)
  <2>1. Max(U) <= Max(S)
    BY <1>8, <1>12, LargerMax
  <2>2. \A x \in S : \E y \in U : y <= x
    BY <1>3, <1>8
  <2>3. Min(U) <= Min(S)
    BY <1>7, <1>8, <2>2, SmallerMin
  <2>4. /\ cipher_score_bucket(Max(U)) <= cipher_score_bucket(Max(S))
        /\ cipher_score_bucket(Min(U)) <= cipher_score_bucket(Min(S))
    BY <1>10, <2>1, <2>3, BucketsRise
  <2>5. QED
    BY <1>6, <1>11, <2>4
<1>13. ASSUME S \subseteq {128, 256}
       PROVE  Strength(q) >= 160
  <2>1. Max(S) \in {128, 256} /\ Min(S) \in {128, 256}
    BY <1>9, <1>13
  <2>2. Max(S) >= 128 /\ Min(S) >= 128
    BY <2>1
  <2>3. cipher_score_bucket(Max(S)) >= 80 /\ cipher_score_bucket(Min(S)) >= 80
    BY <1>10, <2>2, BucketsRise
  <2>4. QED
    BY <1>6, <1>11, <2>3
<1>14. Strength(p) \in Nat /\ Strength(q) \in Nat
  BY <1>6, <1>11
<1>15. QED
  BY <1>5, <1>12, <1>13, <1>14 DEF special

(* A worse scan has a worse score, or a ceiling no higher than the score   *)
(* of the better one.                                                      *)
LEMMA ScoreFalls ==
  ASSUME NEW p, NEW q, NEW c, WorseScan(p, q), c.public_key.size \in Int,
         Scorable(q, c)
  PROVE  \E y \in {score_to_grade(Score(p, c))} \cup Ceilings(p) :
           score_to_grade(Score(q, c)) <= y
<1>1. /\ Protocol(p) \in Nat /\ Protocol(q) \in Nat /\ Protocol(p) <= Protocol(q)
      /\ "TLS13" \in Versions(q) /\ "SSL2" \notin Versions(q) => Protocol(q) >= 180
  BY ProtocolFalls DEF WorseScan, Scorable
<1>2. /\ Strength(p) \in Nat /\ Strength(q) \in Nat
      /\ Strength(p) <= Strength(q)
         \/ /\ Strength(q) >= 160
            /\ Versions(p) \cap OldVersions # {}
            /\ "TLS13" \in Versions(q)
  BY StrengthFalls DEF WorseScan, Scorable
<1>3. /\ Exchange(p, c) \in 20 .. 100 /\ Exchange(q, c) \in 20 .. 100
      /\ Exchange(p, c) <= Exchange(q, c)
  BY ExchangeFalls DEF WorseScan, Scorable, Exchange
<1>4. Score(p, c) \in Nat /\ Score(q, c) \in Nat
  BY <1>1, <1>2, <1>3, ScoreOfParts
<1>5. score_to_grade(Score(q, c)) \in 1 .. 7
  BY ScoreGrades
<1>6. CASE Strength(p) <= Strength(q)
  <2>1. Score(p, c) <= Score(q, c)
    BY <1>1, <1>2, <1>3, <1>6, ScoreOfParts
  <2>2. score_to_grade(Score(q, c)) <= score_to_grade(Score(p, c))
    BY <1>4, <2>1, GradesFall
  <2>3. QED
    BY <2>2
<1>7. CASE /\ Strength(q) >= 160
           /\ Versions(p) \cap OldVersions # {}
           /\ "TLS13" \in Versions(q)
  <2>1. CASE "SSL2" \in Versions(q)
    <3>1. "SSL2" \in Versions(p)
      BY <2>1 DEF WorseScan, OlderVersions
    <3>2. F \in Ceilings(p)
      BY <3>1 DEF Ceilings, ProtocolCeilings
    <3>3. QED
      BY <1>5, <3>2 DEF F
  <2>2. CASE "SSL2" \notin Versions(q)
    <3>1. Protocol(q) >= 180
      BY <1>1, <1>7, <2>2
    <3>2. Score(q, c) >= 1300
      BY <1>1, <1>2, <1>3, <1>7, <3>1, ScoreOfParts
    <3>3. score_to_grade(Score(q, c)) <= B
      BY <1>4, <3>2, GradesFall
    <3>4. F \in Ceilings(p) \/ B \in Ceilings(p)
      BY <1>7 DEF Ceilings, ProtocolCeilings, OldVersions
    <3>5. QED
      BY <1>5, <3>3, <3>4 DEF F, B
  <2>3. QED
    BY <2>1, <2>2
<1>8. QED
  BY <1>2, <1>6, <1>7

(* A leaf no better than another: of the same dates and names.             *)
WorseLeaf(d, c) ==
  /\ d.lifetime = c.lifetime /\ d.issuer = c.issuer /\ d.fingerprints = c.fingerprints
  /\ d.has_any_source = c.has_any_source /\ d.self_issued = c.self_issued
  /\ c.weak_key => d.weak_key
  /\ c.signature_weak => d.signature_weak

(* What is found of a weaker connection, next to a stronger one: the chain *)
(* is no better verified.                                                  *)
WorseConnection(p, q) ==
  /\ p.tls_version = q.tls_version /\ p.forward_secrecy = q.forward_secrecy
  /\ p.hostname_match = q.hostname_match /\ p.offered_none = q.offered_none
  /\ p.cipher = q.cipher
  /\ p.deep.scanned = q.deep.scanned /\ p.deep.groups = q.deep.groups
  /\ p.chain_audit.attempted = q.chain_audit.attempted
  /\ p.chain_audit.verified => q.chain_audit.verified
  /\ q.revoked => p.revoked

(* The grade of a weaker scan is no better: it has the ceilings of the     *)
(* stronger one, and no greater score unless it fails outright or is not   *)
(* trusted.                                                                *)
LEMMA GradeFalls ==
  ASSUME NEW p, NEW q, NEW c, NEW d, WorseScan(p, q), WorseConnection(p, q),
         WorseLeaf(d, c), c.public_key.size \in Int,
         \/ Untrusted(p, d)
         \/ FailsOutright(d)
         \/ /\ d.public_key = c.public_key
            /\ q.chain_audit.missing_intermediate => p.chain_audit.missing_intermediate,
         GradeOf(q, c) # Ungraded, GradeOf(p, d) # Ungraded
  PROVE  GradeOf(q, c) <= GradeOf(p, d)
<1>. DEFINE S == {score_to_grade(Score(q, c))} \cup Ceilings(q)
            U == {score_to_grade(Score(p, d))} \cup Ceilings(p)
<1>1. /\ p.hostname_match = q.hostname_match
      /\ Untrusted(q, c) => Untrusted(p, d)
      /\ FailsOutright(c) => FailsOutright(d)
  BY DEF WorseConnection, WorseLeaf, Untrusted, FailsOutright
<1>2. PICK n \in Nat : n = 7
  OBVIOUS
<1>3. S \in SUBSET (0 .. n) /\ U \in SUBSET (0 .. n) /\ S # {} /\ U # {}
  BY <1>2, ScoreGrades, CeilingGrades
<1>4. Max(S) \in 1 .. 7 /\ Max(U) \in 1 .. 7
  <2>1. S \in SUBSET (1 .. 7) /\ U \in SUBSET (1 .. 7) /\ S # {} /\ U # {}
    BY ScoreGrades, CeilingGrades
  <2>2. QED
    BY <2>1, MaxOfGrades
<1>5. /\ GradeOf(q, c) =
           IF q.hostname_match = "mismatch" THEN M ELSE IF Untrusted(q, c) THEN T
           ELSE IF FailsOutright(c) THEN F
           ELSE IF ~ Scorable(q, c) THEN Ungraded ELSE Max(S)
      /\ GradeOf(p, d) =
           IF p.hostname_match = "mismatch" THEN M ELSE IF Untrusted(p, d) THEN T
           ELSE IF FailsOutright(d) THEN F
           ELSE IF ~ Scorable(p, d) THEN Ungraded ELSE Max(U)
  BY DEF GradeOf
<1>6. ASSUME /\ q.hostname_match # "mismatch"
             /\ ~ Untrusted(p, d) /\ ~ FailsOutright(d)
      PROVE  Scorable(q, c) /\ Max(S) <= Max(U)
  <2>1. /\ d.public_key = c.public_key
        /\ q.chain_audit.missing_intermediate => p.chain_audit.missing_intermediate
    BY <1>6
  <2>2. Scorable(q, c)
    BY <1>1, <1>5, <1>6
  <2>3. Score(p, d) = Score(p, c)
    <3>1. KeyExchange(p, d) = KeyExchange(p, c)
      BY <2>1 DEF KeyExchange
    <3>2. QED
      BY <3>1, ScoreOfParts DEF Exchange
  <2>4. \E y \in U : score_to_grade(Score(q, c)) <= y
    BY <2>2, <2>3, ScoreFalls
  <2>5. \A x \in Ceilings(q) : \E y \in U : x <= y
    BY <2>1, CeilingsStay
  <2>6. \A x \in S : \E y \in U : x <= y
    BY <2>4, <2>5
  <2>. HIDE DEF S, U
  <2>7. QED
    BY <1>3, <2>2, <2>6, LargerMax
<1>. HIDE DEF S, U
<1>7. QED
  BY <1>1, <1>4, <1>5, <1>6 DEF M, T, F, Ungraded

(* What the policy held against the connection or the leaf it still holds. *)
LEMMA FailuresStay ==
  ASSUME NEW p, NEW q, NEW policy, WorseConnection(p, q),
         q.certificate = {} <=> p.certificate = {},
         \A c \in q.certificate : \E d \in p.certificate : WorseLeaf(d, c)
  PROVE  PolicyFailures(q, policy) \subseteq PolicyFailures(p, policy)
<1>1. ConnectionFailures(q, policy) \subseteq ConnectionFailures(p, policy)
  BY DEF ConnectionFailures, WorseConnection
<1>2. ASSUME NEW c \in q.certificate, NEW d \in p.certificate, WorseLeaf(d, c)
      PROVE  CertificateFailures(q, c, policy) \subseteq CertificateFailures(p, d, policy)
  <2>. DEFINE was == CertificateFailures(q, c, policy)
              is == CertificateFailures(p, d, policy)
  <2>1. was \subseteq {"weak_key", "weak_signature", "expired", "not_yet_valid", "days_remaining",
                      "lifetime", "issuer", "fingerprint", "cipher", "group",
                      "no_revocation_source", "invalid_chain", "revoked"}
    BY DEF CertificateFailures
  <2>2. /\ "weak_key" \in was => "weak_key" \in is
        /\ "weak_signature" \in was => "weak_signature" \in is
        /\ "expired" \in was => "expired" \in is
        /\ "not_yet_valid" \in was => "not_yet_valid" \in is
    BY <1>2 DEF CertificateFailures, WorseConnection, WorseLeaf
  <2>3. /\ "days_remaining" \in was => "days_remaining" \in is
        /\ "lifetime" \in was => "lifetime" \in is
        /\ "issuer" \in was => "issuer" \in is
    BY <1>2 DEF CertificateFailures, WorseConnection, WorseLeaf
  <2>4. /\ "fingerprint" \in was => "fingerprint" \in is
        /\ "cipher" \in was => "cipher" \in is
        /\ "group" \in was => "group" \in is
    BY <1>2 DEF CertificateFailures, WorseConnection, WorseLeaf
  <2>5. /\ "no_revocation_source" \in was => "no_revocation_source" \in is
        /\ "invalid_chain" \in was => "invalid_chain" \in is
        /\ "revoked" \in was => "revoked" \in is
    BY <1>2 DEF CertificateFailures, WorseConnection, WorseLeaf
  <2>. HIDE DEF was, is
  <2>6. was \subseteq is
    BY <2>1, <2>2, <2>3, <2>4, <2>5
  <2>7. QED
    BY <2>6 DEF was, is
<1>3. QED
  BY <1>1, <1>2 DEF PolicyFailures

(* A leaf signed with SHA-1, or with a key of 1024 bits, and else the same. *)
SpoiledLeaf(d, c) ==
  /\ d.lifetime = c.lifetime
  /\ \/ /\ d.public_key = c.public_key
        /\ d.signature_algorithm \in {c.signature_algorithm, "sha1"}
     \/ /\ d.public_key = [type |-> "rsa", size |-> 1024]
        /\ d.signature_algorithm = c.signature_algorithm

(* What every profile of the guidelines is taken to say.                   *)
Reasonable(profile) ==
  /\ profile.certificate_types = {} => profile.certificate_curves = {}
  /\ "rsa" \in profile.certificate_types => \E bits \in profile.rsa_key_size : bits > 1024
  /\ "sha1" \notin profile.certificate_signatures
  /\ profile.dh_param_size \subseteq Int

(* The violations of a key, one by one. *)
LEMMA KeyViolations ==
  ASSUME NEW profile, NEW c
  PROVE  LET key == c.public_key
             found == CertificateViolations(profile, c)
         IN /\ "certificate_types" \in found <=>
                 /\ profile.certificate_types # {}
                 /\ key.type \notin profile.certificate_types
            /\ "certificate_curves" \in found => profile.certificate_curves # {}
            /\ "rsa_key_size" \in found <=>
                 /\ profile.certificate_types # {}
                 /\ key.type = "rsa"
                 /\ \E bits \in profile.rsa_key_size : key.size < bits
<1>. DEFINE key == c.public_key
            found == CertificateViolations(profile, c)
<1>1. "certificate_types" \in found <=>
        profile.certificate_types # {} /\ key.type \notin profile.certificate_types
  BY DEF CertificateViolations
<1>2. "certificate_curves" \in found => profile.certificate_curves # {}
  BY DEF CertificateViolations
<1>3. "rsa_key_size" \in found <=>
        /\ profile.certificate_types # {}
        /\ key.type = "rsa"
        /\ \E bits \in profile.rsa_key_size : key.size < bits
  BY DEF CertificateViolations
<1>4. QED
  BY <1>1, <1>2, <1>3

(* A leaf of SHA-1 or of 1024 bits breaks a profile that the leaf it       *)
(* replaces broke.                                                         *)
LEMMA SpoiledLapses ==
  ASSUME NEW profile, Reasonable(profile), NEW c, NEW d, SpoiledLeaf(d, c),
         CertificateViolations(profile, c) # {}
  PROVE  CertificateViolations(profile, d) # {}
<1>. DEFINE was == CertificateViolations(profile, c)
            is == CertificateViolations(profile, d)
<1>1. was \subseteq {"certificate_types", "certificate_curves", "certificate_signatures",
                     "maximum_certificate_lifespan", "rsa_key_size"}
  BY DEF CertificateViolations
<1>2. "maximum_certificate_lifespan" \in was => "maximum_certificate_lifespan" \in is
  BY DEF CertificateViolations, SpoiledLeaf
<1>3. "certificate_signatures" \in was => "certificate_signatures" \in is
  BY DEF CertificateViolations, SpoiledLeaf, Reasonable
<1>4. ASSUME d.public_key = c.public_key
      PROVE  /\ "certificate_types" \in was => "certificate_types" \in is
             /\ "certificate_curves" \in was => "certificate_curves" \in is
             /\ "rsa_key_size" \in was => "rsa_key_size" \in is
  BY <1>4 DEF CertificateViolations
<1>5. ASSUME d.public_key = [type |-> "rsa", size |-> 1024],
             was \cap {"certificate_types", "certificate_curves", "rsa_key_size"} # {}
      PROVE  is # {}
  <2>1. profile.certificate_types # {}
    <3>1. profile.certificate_curves # {} => profile.certificate_types # {}
      BY DEF Reasonable
    <3>. HIDE DEF was
    <3>2. CASE "certificate_types" \in was
      BY <3>2, KeyViolations DEF was
    <3>3. CASE "certificate_curves" \in was
      BY <3>1, <3>3, KeyViolations DEF was
    <3>4. CASE "rsa_key_size" \in was
      BY <3>4, KeyViolations DEF was
    <3>5. QED
      BY <1>5, <3>2, <3>3, <3>4
  <2>2. d.public_key.type = "rsa" /\ d.public_key.size = 1024
    BY <1>5
  <2>3. CASE "rsa" \notin profile.certificate_types
    <3>1. "certificate_types" \in is
      BY <2>1, <2>2, <2>3, KeyViolations
    <3>2. QED
      BY <3>1
  <2>4. CASE "rsa" \in profile.certificate_types
    <3>1. PICK bits \in profile.rsa_key_size : 1024 < bits
      BY <2>4 DEF Reasonable
    <3>2. "rsa_key_size" \in is
      BY <2>1, <2>2, <3>1, KeyViolations
    <3>3. QED
      BY <3>2
  <2>5. QED
    BY <2>3, <2>4
<1>. HIDE DEF was, is
<1>6. was # {}
  BY DEF was
<1>7. is # {}
  <2>1. CASE was \cap {"certificate_signatures", "maximum_certificate_lifespan"} # {}
    BY <1>2, <1>3, <2>1
  <2>2. CASE was \cap {"certificate_types", "certificate_curves", "rsa_key_size"} # {}
    <3>1. CASE d.public_key = c.public_key
      BY <1>4, <2>2, <3>1
    <3>2. CASE d.public_key = [type |-> "rsa", size |-> 1024]
      BY <1>5, <2>2, <3>2
    <3>3. QED
      BY <3>1, <3>2 DEF SpoiledLeaf
  <2>3. QED
    BY <1>1, <1>6, <2>1, <2>2
<1>8. QED
  BY <1>7 DEF is

(* A weaker scan breaks each profile the stronger one broke.               *)
LEMMA LapsesStay ==
  ASSUME NEW profile, Reasonable(profile), NEW p, NEW q, SmallerGroup(p, q),
         Versions(q) \subseteq Versions(p),
         q.enumeration.ciphers \subseteq p.enumeration.ciphers,
         q.deep.ciphers \subseteq p.deep.ciphers,
         q.cipher_preference = {FALSE} => p.cipher_preference = {FALSE},
         \A c \in q.certificate : \E d \in p.certificate : SpoiledLeaf(d, c),
         Lapses(profile, q) # {}
  PROVE  Lapses(profile, p) # {}
<1>1. VersionViolations(profile, q) \ {"missing_version"} \subseteq VersionViolations(profile, p)
  <2>1. "extra_version" \in VersionViolations(profile, q)
          => "extra_version" \in VersionViolations(profile, p)
    BY DEF VersionViolations
  <2>2. VersionViolations(profile, q) \subseteq {"extra_version", "missing_version"}
    BY DEF VersionViolations
  <2>3. QED
    BY <2>1, <2>2
<1>2. CipherViolations(profile, q) \subseteq CipherViolations(profile, p)
  <2>. DEFINE was == CipherViolations(profile, q)
              is == CipherViolations(profile, p)
  <2>1. "ciphers" \in was => "ciphers" \in is
    BY DEF CipherViolations
  <2>2. "ciphersuites" \in was => "ciphersuites" \in is
    BY DEF CipherViolations
  <2>3. "server_preferred_order" \in was => "server_preferred_order" \in is
    BY DEF CipherViolations
  <2>4. was \subseteq {"ciphers", "ciphersuites", "server_preferred_order"}
    BY DEF CipherViolations
  <2>5. QED
    BY <2>1, <2>2, <2>3, <2>4
<1>3. GroupViolations(profile, q) \subseteq GroupViolations(profile, p)
  <2>1. \A bits \in profile.dh_param_size, size \in q.deep.dh :
          size < bits => \E less \in p.deep.dh : less < bits
    BY DEF SmallerGroup, Reasonable
  <2>. DEFINE was == GroupViolations(profile, q)
              is == GroupViolations(profile, p)
  <2>2. "ecdh_param_size" \in was => "ecdh_param_size" \in is
    BY DEF GroupViolations, SmallerGroup
  <2>3. "dh_param_size" \in was => "dh_param_size" \in is
    BY <2>1 DEF GroupViolations
  <2>4. was \subseteq {"ecdh_param_size", "dh_param_size"}
    BY DEF GroupViolations
  <2>5. QED
    BY <2>2, <2>3, <2>4
<1>4. \A c : "missing_version" \notin CertificateViolations(profile, c)
  BY DEF CertificateViolations
<1>5. "missing_version" \notin CipherViolations(profile, p)
      /\ "missing_version" \notin GroupViolations(profile, p)
  BY DEF CipherViolations, GroupViolations
<1>6. PICK f : f \in Violations(profile, q) /\ f # "missing_version"
  BY DEF Lapses
<1>7. CASE f \in VersionViolations(profile, q) \cup CipherViolations(profile, q)
                   \cup GroupViolations(profile, q)
  BY <1>1, <1>2, <1>3, <1>6, <1>7 DEF Lapses, Violations
<1>8. ASSUME NEW c \in q.certificate, f \in CertificateViolations(profile, c)
      PROVE  Lapses(profile, p) # {}
  <2>1. PICK d \in p.certificate : SpoiledLeaf(d, c)
    OBVIOUS
  <2>2. CertificateViolations(profile, d) # {}
    BY <1>8, <2>1, SpoiledLapses
  <2>3. PICK g \in CertificateViolations(profile, d) : g # "missing_version"
    BY <1>4, <2>2
  <2>4. g \in Violations(profile, p)
    BY <2>3 DEF Violations
  <2>5. QED
    BY <2>3, <2>4 DEF Lapses
<1>9. QED
  BY <1>6, <1>7, <1>8 DEF Violations

(* The suites two endpoints accept: w takes all that e takes, and what it  *)
(* takes besides is no AEAD suite, at versions below one agreed on with e, *)
(* and no stronger than what e accepts, unless e accepts TLS 1.3 alone.    *)
Accepted(e) == {d \in LocalSuites : Accepts(e, d)}

Outdone(u, e) == \E x \in Negotiable(e) : PROTOCOL_SCORE[u] < PROTOCOL_SCORE[x]

NoStronger(c, e) ==
  /\ \E d \in Accepted(e) : "RC4" \notin d.words
  /\ \A b \in c.bits : \E d \in Bits(Accepted(e)) : b <= d

NoneBelow13(w, e) ==
  /\ Accepted(e) = {}
  /\ "TLS13" \in Negotiable(e)
  /\ \E v \in OldVersions \cap PinnableVersions : Handshakes(w, {v}, LocalSuites)

Lower(w, e) ==
  /\ \A v : Suites(e, v) \subseteq Suites(w, v)
  /\ Suites(w, "TLS13") = Suites(e, "TLS13")
  /\ e.versions \subseteq w.versions /\ w.versions \subseteq DOMAIN PROTOCOL_SCORE
  /\ \A u \in Spoken(w) \ Spoken(e) : Outdone(u, e)
  /\ \A u : Handshakes(w, {u}, LocalSuites)
              => Handshakes(e, {u}, LocalSuites) \/ Outdone(u, e)
  /\ \A c \in Accepted(w) \ Accepted(e) :
       ~ is_aead(c) /\ (NoStronger(c, e) \/ NoneBelow13(w, e))

(* The versions a client of this host can be pinned to are known to the    *)
(* scores.                                                                 *)
LEMMA KnownVersions ==
  /\ ClientVersions \subseteq PinnableVersions
  /\ PinnableVersions \subseteq {"SSL3", "TLS10", "TLS11", "TLS12", "TLS13"}
  /\ PinnableVersions \subseteq DOMAIN PROTOCOL_SCORE
BY VersionsAssumption DEF ORDER, PROTOCOL_SCORE

(* Handshakes and enumeration, by the suites an endpoint accepts at a      *)
(* version.                                                                *)
LEMMA Takes ==
  ASSUME NEW e, NEW offered
  PROVE  /\ \A v : Handshakes(e, {v}, offered) <=>
              \E c \in Suites(e, v) : v = "TLS13" \/ c \in offered
         /\ \A c : Accepts(e, c) <=>
              \E v \in ClientVersions \ {"TLS13"} : c \in Suites(e, v)
         /\ \A v : v \in Negotiable(e) <=>
              v \in ClientVersions /\ Handshakes(e, {v}, LocalSuites)
<1>1. \A v : Handshakes(e, {v}, offered) <=>
        \E c \in Suites(e, v) : v = "TLS13" \/ c \in offered
  BY DEF Handshakes
<1>2. \A c : Accepts(e, c) <=> \E v \in ClientVersions \ {"TLS13"} : c \in Suites(e, v)
  BY DEF Handshakes, Accepts
<1>3. \A v : v \in Negotiable(e) <=>
        v \in ClientVersions /\ Handshakes(e, {v}, LocalSuites)
  BY DEF Negotiable
<1>4. QED
  BY <1>1, <1>2, <1>3

(* An endpoint of the same versions and suites is no stronger.             *)
LEMMA SameOffers ==
  ASSUME NEW w, NEW e, e.versions \subseteq DOMAIN PROTOCOL_SCORE,
         w.versions = e.versions, w.suites = e.suites, w.suites13 = e.suites13
  PROVE  Lower(w, e)
<1>1. \A v : Suites(w, v) = Suites(e, v)
  BY DEF Suites
<1>2. \A versions, offered :
        Handshakes(w, versions, offered) <=> Handshakes(e, versions, offered)
  BY <1>1 DEF Handshakes
<1>3. Accepted(w) = Accepted(e)
  BY <1>2 DEF Accepted, Accepts
<1>4. Spoken(w) = Spoken(e)
  BY <1>1 DEF Spoken
<1>5. QED
  BY <1>1, <1>2, <1>3, <1>4 DEF Lower

(* Nor is one that adds a version older than one agreed on.                *)
LEMMA OlderVersionIsLower ==
  ASSUME NEW e, EndpointFields \subseteq DOMAIN e, e.versions \subseteq DOMAIN PROTOCOL_SCORE,
         NEW v \in DOMAIN PROTOCOL_SCORE, NEW x \in Negotiable(e),
         PROTOCOL_SCORE[v] < PROTOCOL_SCORE[x],
         NEW w, w = [e EXCEPT !.versions = @ \cup {v}]
  PROVE  Lower(w, e)
<1>1. /\ w.versions = e.versions \cup {v} /\ w.suites = e.suites
      /\ w.suites13 = e.suites13
  BY DEF EndpointFields
<1>2. v \in OldVersions
  <2>1. x \in DOMAIN PROTOCOL_SCORE
    BY KnownVersions, Takes
  <2>2. PROTOCOL_SCORE[v] \in 0 .. 100 /\ PROTOCOL_SCORE[x] \in 0 .. 100
    BY <2>1, KnownScores
  <2>3. PROTOCOL_SCORE[v] < 100
    BY <2>2
  <2>4. QED
    BY <2>3, KnownScores DEF OldVersions
<1>3. v \notin {"TLS12", "TLS13"}
  BY <1>2 DEF OldVersions
<1>4. \A u : Suites(e, u) \subseteq Suites(w, u)
  BY <1>1 DEF Suites
<1>5. \A u : u # v => Suites(w, u) = Suites(e, u)
  BY <1>1 DEF Suites
<1>6. Suites(w, "TLS13") = Suites(e, "TLS13")
  BY <1>3, <1>5
<1>7. \A c \in Suites(w, v) : ~ is_aead(c) /\ c \in e.suites
  BY <1>1, <1>3 DEF Suites
<1>8. Outdone(v, e)
  BY DEF Outdone
<1>9. \A u \in Spoken(w) \ Spoken(e) : Outdone(u, e)
  BY <1>1, <1>5, <1>8 DEF Spoken
<1>10. \A u : Handshakes(w, {u}, LocalSuites)
               => Handshakes(e, {u}, LocalSuites) \/ Outdone(u, e)
  BY <1>5, <1>8, Takes
<1>11. ASSUME NEW c \in Accepted(w) \ Accepted(e)
       PROVE  ~ is_aead(c) /\ NoneBelow13(w, e)
  <2>1. c \in LocalSuites /\ Accepts(w, c) /\ ~ Accepts(e, c)
    BY <1>11 DEF Accepted
  <2>2. c \in Suites(w, v) /\ v \in ClientVersions
    BY <1>5, <2>1, Takes
  <2>3. ~ is_aead(c) /\ c \in e.suites
    BY <1>7, <2>2
  <2>4. \A u \in ClientVersions \ {"TLS13"} : u \notin e.versions
    BY <2>1, <2>3, Takes DEF Suites
  <2>5. \A u \in ClientVersions \ {"TLS13"} : Suites(e, u) = {}
    BY <2>4 DEF Suites
  <2>6. Accepted(e) = {}
    BY <2>5, Takes DEF Accepted
  <2>7. x = "TLS13"
    BY <2>5, Takes
  <2>8. Handshakes(w, {v}, LocalSuites)
    BY <2>1, <2>2, Takes
  <2>9. v \in PinnableVersions
    BY <2>2, KnownVersions
  <2>10. QED
    BY <1>2, <2>3, <2>6, <2>7, <2>8, <2>9 DEF NoneBelow13
<1>12. w.versions \subseteq DOMAIN PROTOCOL_SCORE /\ e.versions \subseteq w.versions
  BY <1>1
<1>13. QED
  BY <1>4, <1>6, <1>9, <1>10, <1>11, <1>12 DEF Lower

(* Nor is one that adds a suite weaker than one it accepts.                *)
LEMMA WeakerSuiteIsLower ==
  ASSUME NEW e, EndpointFields \subseteq DOMAIN e, e.versions \subseteq DOMAIN PROTOCOL_SCORE,
         NEW c, ~ is_aead(c), AtMostOne(c.bits) \/ c \notin LocalSuites,
         \E d \in Accepted(e) : "RC4" \notin d.words,
         \E b \in c.bits, d \in Bits(Accepted(e)) : b <= d,
         NEW w, w = [e EXCEPT !.suites = @ \cup {c}]
  PROVE  Lower(w, e)
<1>1. /\ w.versions = e.versions /\ w.suites = e.suites \cup {c}
      /\ w.suites13 = e.suites13
  BY DEF EndpointFields
<1>2. \A u : Suites(e, u) \subseteq Suites(w, u)
  BY <1>1 DEF Suites
<1>3. \A u : Suites(w, u) \subseteq Suites(e, u) \cup {c}
  BY <1>1 DEF Suites
<1>4. Suites(w, "TLS13") = Suites(e, "TLS13")
  BY <1>1 DEF Suites
<1>5. \A u : c \in Suites(w, u) => u \in e.versions
  BY <1>1 DEF Suites
<1>6. PICK d \in Accepted(e) : TRUE
  OBVIOUS
<1>7. PICK y \in ClientVersions \ {"TLS13"} : d \in Suites(e, y)
  BY <1>6, Takes DEF Accepted
<1>8. y \in Negotiable(e) /\ y \in Spoken(e)
  BY <1>6, <1>7, Takes DEF Accepted, Spoken, Suites
<1>9. ASSUME NEW u \in e.versions, u # "TLS13",
             ~ (u \in Spoken(e) /\ Handshakes(e, {u}, LocalSuites))
      PROVE  Outdone(u, e)
  <2>1. d \notin Suites(e, u)
    BY <1>6, <1>9, Takes DEF Accepted, Spoken
  <2>2. d \in e.suites /\ is_aead(d) /\ y = "TLS12" /\ u # "TLS12"
    BY <1>7, <1>9, <2>1 DEF Suites
  <2>3. PROTOCOL_SCORE[u] < 100
    BY <1>9, <2>2, KnownScores
  <2>4. QED
    BY <1>8, <2>2, <2>3, KnownScores DEF Outdone
<1>10. \A u \in Spoken(w) \ Spoken(e) : Outdone(u, e)
  <2>1. SUFFICES ASSUME NEW u \in Spoken(w) \ Spoken(e)
                 PROVE  Outdone(u, e)
    OBVIOUS
  <2>2. u \in e.versions /\ u # "TLS13"
    BY <1>1, <1>4 DEF Spoken
  <2>3. QED
    BY <1>9, <2>2
<1>11. \A u : Handshakes(w, {u}, LocalSuites)
               => Handshakes(e, {u}, LocalSuites) \/ Outdone(u, e)
  <2>1. SUFFICES ASSUME NEW u, Handshakes(w, {u}, LocalSuites),
                        ~ Handshakes(e, {u}, LocalSuites)
                 PROVE  Outdone(u, e)
    OBVIOUS
  <2>2. u # "TLS13" /\ c \in Suites(w, u)
    <3>1. PICK a \in Suites(w, u) : u = "TLS13" \/ a \in LocalSuites
      BY <2>1, Takes
    <3>2. a \notin Suites(e, u)
      BY <2>1, <3>1, Takes
    <3>3. QED
      BY <1>3, <1>4, <3>1, <3>2
  <2>3. u \in e.versions
    BY <1>5, <2>2
  <2>4. QED
    BY <1>9, <2>1, <2>2, <2>3
<1>12. \A a \in Accepted(w) \ Accepted(e) : ~ is_aead(a) /\ NoStronger(a, e)
  <2>1. SUFFICES ASSUME NEW a \in Accepted(w) \ Accepted(e)
                 PROVE  ~ is_aead(a) /\ NoStronger(a, e)
    OBVIOUS
  <2>2. a \in LocalSuites /\ a = c
    <3>1. a \in LocalSuites /\ Accepts(w, a) /\ ~ Accepts(e, a)
      BY <2>1 DEF Accepted
    <3>2. PICK u \in ClientVersions \ {"TLS13"} : a \in Suites(w, u)
      BY <3>1, Takes
    <3>3. a \notin Suites(e, u)
      BY <3>1, Takes
    <3>4. QED
      BY <1>3, <3>1, <3>2, <3>3
  <2>3. \A b \in c.bits : \E s \in Bits(Accepted(e)) : b <= s
    BY <2>2 DEF AtMostOne
  <2>4. QED
    BY <2>2, <2>3 DEF NoStronger
<1>13. QED
  BY <1>1, <1>2, <1>4, <1>10, <1>11, <1>12 DEF Lower

(* What else may differ of a weaker endpoint: the size of its group, the   *)
(* methods of compression, the chain and the leaf.                         *)
SpoiledWire(b, a) ==
  \/ b = a
  \/ b = Resigned(a)
  \/ b = Rekeyed(a)

Spoiled(w, e) ==
  /\ w.favourite = e.favourite /\ w.silent = e.silent /\ w.groups = e.groups
  /\ w.garbled = e.garbled /\ w.cipher = e.cipher
  /\ w.dh = e.dh \/ \E s, d \in Int : s < d /\ w.dh = {s} /\ e.dh = {d}
  /\ w.safe_prime => e.safe_prime
  /\ e.compression_methods \subseteq w.compression_methods
  /\ e.revoked => w.revoked
  /\ \/ w.chain \in {e.chain, "untrusted"}
     \/ e.chain = "complete" /\ w.chain = "incomplete"
  /\ AtMostOne(w.wire)
  /\ e.wire = {} <=> w.wire = {}
  /\ \A a \in e.wire : \E b \in w.wire : SpoiledWire(b, a)

Usual(e) == \E t \in Targets : e \in Presents[t]

(* A handshake with the endpoint, and the scans that were asked for.       *)
Seen(t, e, at) == Scanned(Observed(t, e, at), e)

(* Which parts of a scan the options ask for.                              *)
LEMMA ScannedFields ==
  ASSUME NEW t, NEW e, NEW at, NEW q, q = Seen(t, e, at)
  PROVE  /\ q.enumeration = IF options.enumerate THEN enumerate_protocol(e)
                            ELSE NotEnumerated
         /\ q.cipher_preference = IF options.enumerate
                                  THEN detect_cipher_preference(e) ELSE {}
         /\ q.deep = IF options.deep THEN probe_deep_introspection(e)
                     ELSE NotIntrospected
BY DEF Seen, Scanned, Observed

(* What a scan shows of the versions and suites.                           *)
LEMMA ScannedOffers ==
  ASSUME NEW t, NEW e, NEW at, NEW q, q = Seen(t, e, at)
  PROVE  /\ q.enumeration.ciphers = IF options.enumerate THEN Accepted(e) ELSE {}
         /\ q.enumeration.versions =
              IF options.enumerate
              THEN {v \in PinnableVersions : Handshakes(e, {v}, LocalSuites)} ELSE {}
         /\ q.deep.ciphers = IF options.deep THEN TLS13Ciphers(e) ELSE {}
         /\ q.deep.versions = IF options.deep THEN ProbedVersions(e) ELSE {}
         /\ q.deep.flaws = IF options.deep THEN Vulnerabilities(e) ELSE {}
         /\ q.deep.groups = IF options.deep THEN NamedGroups(e) ELSE {}
         /\ q.deep.dh = IF options.deep THEN DHParams(e).size ELSE {}
         /\ q.deep.weak_dh = IF options.deep THEN DHParams(e).weak ELSE {}
         /\ q.deep.compression = IF options.deep
              THEN compression_enabled(CompressionMethods(e)) ELSE FALSE
         /\ q.deep.scanned = IF options.deep THEN TRUE ELSE FALSE
<1>1. q.enumeration = IF options.enumerate THEN enumerate_protocol(e) ELSE NotEnumerated
  BY ScannedFields
<1>2. q.deep = IF options.deep THEN probe_deep_introspection(e) ELSE NotIntrospected
  BY ScannedFields
<1>3. /\ q.enumeration.ciphers = IF options.enumerate THEN Accepted(e) ELSE {}
      /\ q.enumeration.versions =
           IF options.enumerate
           THEN {v \in PinnableVersions : Handshakes(e, {v}, LocalSuites)} ELSE {}
  <2>1. CASE options.enumerate
    BY <1>1, <2>1 DEF enumerate_protocol, Accepted
  <2>2. CASE ~ options.enumerate
    BY <1>1, <2>2 DEF NotEnumerated
  <2>3. QED
    BY <2>1, <2>2
<1>4. CASE options.deep
  BY <1>2, <1>3, <1>4 DEF probe_deep_introspection
<1>5. CASE ~ options.deep
  BY <1>2, <1>3, <1>5 DEF NotIntrospected
<1>6. QED
  BY <1>4, <1>5

(* A weaker endpoint still accepts what the stronger one accepts.          *)
LEMMA StillTaken ==
  ASSUME NEW w, NEW e, Lower(w, e)
  PROVE  /\ \A v : Handshakes(e, {v}, LocalSuites) => Handshakes(w, {v}, LocalSuites)
         /\ \A c : Accepts(e, c) => Accepts(w, c)
         /\ Accepted(e) \subseteq Accepted(w)
         /\ Spoken(e) \subseteq Spoken(w)
         /\ \A x \in Negotiable(e) : x \in Spoken(e)
<1>1. \A v : Suites(e, v) \subseteq Suites(w, v)
  BY DEF Lower
<1>2. \A v : Handshakes(e, {v}, LocalSuites) => Handshakes(w, {v}, LocalSuites)
  BY <1>1, Takes
<1>3. \A c : Accepts(e, c) => Accepts(w, c)
  <2>1. SUFFICES ASSUME NEW c, Accepts(e, c)
                 PROVE  Accepts(w, c)
    OBVIOUS
  <2>2. PICK v \in ClientVersions \ {"TLS13"} : c \in Suites(e, v)
    BY <2>1, Takes
  <2>3. c \in Suites(w, v)
    BY <1>1, <2>2
  <2>4. QED
    BY <2>3, Takes
<1>4. Accepted(e) \subseteq Accepted(w)
  BY <1>3 DEF Accepted
<1>5. Spoken(e) \subseteq Spoken(w)
  <2>1. e.versions \subseteq w.versions
    BY DEF Lower
  <2>2. QED
    BY <1>1, <2>1 DEF Spoken
<1>6. \A x \in Negotiable(e) : x \in Spoken(e)
  <2>1. SUFFICES ASSUME NEW x \in Negotiable(e)
                 PROVE  x \in Spoken(e)
    OBVIOUS
  <2>2. PICK c \in Suites(e, x) : TRUE
    BY Takes
  <2>3. x \in e.versions
    BY <2>2 DEF Suites
  <2>4. QED
    BY <2>2, <2>3 DEF Spoken
<1>7. QED
  BY <1>2, <1>3, <1>4, <1>5, <1>6

(* The versions the grade is computed from: enumerated or probed.          *)
LEMMA ScannedVersions ==
  ASSUME NEW t, NEW e, NEW at, NEW q, q = Seen(t, e, at)
  PROVE  Versions(q) =
           (IF options.enumerate
            THEN {v \in PinnableVersions : Handshakes(e, {v}, LocalSuites)} ELSE {})
           \cup (IF options.deep /\ "versions" \notin e.silent THEN Spoken(e) ELSE {})
<1>1. q.deep.versions =
        IF options.deep /\ "versions" \notin e.silent THEN Spoken(e) ELSE {}
  <2>1. q.deep.versions = IF options.deep THEN ProbedVersions(e) ELSE {}
    BY ScannedOffers
  <2>2. QED
    BY <2>1 DEF ProbedVersions, Learned
<1>2. q.enumeration.versions =
        IF options.enumerate
        THEN {v \in PinnableVersions : Handshakes(e, {v}, LocalSuites)} ELSE {}
  BY ScannedOffers
<1>3. QED
  BY <1>1, <1>2 DEF Versions

(* The scan of a weaker endpoint shows older versions at most.             *)
LEMMA VersionsFall ==
  ASSUME NEW t, NEW at, NEW w, NEW e, Lower(w, e), w.silent = e.silent,
         NEW p, p = Seen(t, w, at), NEW q, q = Seen(t, e, at)
  PROVE  OlderVersions(p, q)
<1>. DEFINE Pinned(x) == IF options.enumerate
                         THEN {v \in PinnableVersions : Handshakes(x, {v}, LocalSuites)}
                         ELSE {}
            Probed(x) == IF options.deep /\ "versions" \notin e.silent
                         THEN Spoken(x) ELSE {}
<1>1. /\ Versions(q) = Pinned(e) \cup Probed(e)
      /\ Versions(p) = Pinned(w) \cup Probed(w)
  BY ScannedVersions
<1>2. Pinned(e) \subseteq Pinned(w)
  BY StillTaken
<1>3. Probed(e) \subseteq Probed(w)
  BY StillTaken
<1>4. Pinned(w) \subseteq DOMAIN PROTOCOL_SCORE
  BY KnownVersions
<1>5. Probed(w) \subseteq DOMAIN PROTOCOL_SCORE
  BY DEF Lower, Spoken
<1>6. \A u \in Pinned(w) \ Pinned(e) : \E x \in Pinned(e) :
        PROTOCOL_SCORE[u] < PROTOCOL_SCORE[x]
  <2>1. SUFFICES ASSUME NEW u \in Pinned(w) \ Pinned(e)
                 PROVE  \E x \in Pinned(e) : PROTOCOL_SCORE[u] < PROTOCOL_SCORE[x]
    OBVIOUS
  <2>2. /\ options.enumerate /\ Handshakes(w, {u}, LocalSuites)
        /\ ~ Handshakes(e, {u}, LocalSuites)
    BY <2>1
  <2>3. Outdone(u, e)
    BY <2>2 DEF Lower
  <2>4. PICK x \in Negotiable(e) : PROTOCOL_SCORE[u] < PROTOCOL_SCORE[x]
    BY <2>3 DEF Outdone
  <2>5. x \in PinnableVersions /\ Handshakes(e, {x}, LocalSuites)
    BY <2>4, Takes, KnownVersions
  <2>6. QED
    BY <2>2, <2>4, <2>5
<1>7. \A u \in Probed(w) \ Probed(e) : \E x \in Probed(e) :
        PROTOCOL_SCORE[u] < PROTOCOL_SCORE[x]
  <2>1. SUFFICES ASSUME NEW u \in Probed(w) \ Probed(e)
                 PROVE  \E x \in Probed(e) : PROTOCOL_SCORE[u] < PROTOCOL_SCORE[x]
    OBVIOUS
  <2>2. Probed(w) = Spoken(w) /\ Probed(e) = Spoken(e)
    BY <2>1
  <2>3. Outdone(u, e)
    BY <2>1, <2>2 DEF Lower
  <2>4. QED
    BY <2>2, <2>3, StillTaken DEF Outdone
<1>. HIDE DEF Pinned, Probed
<1>8. QED
  BY <1>1, <1>2, <1>3, <1>4, <1>5, <1>6, <1>7 DEF OlderVersions

(* It shows no stronger suites.                                            *)
LEMMA SuitesFall ==
  ASSUME NEW t, NEW at, NEW w, NEW e, Lower(w, e), w.silent = e.silent, Usual(e),
         NEW p, p = Seen(t, w, at), NEW q, q = Seen(t, e, at)
  PROVE  LowerSuites(p, q)
<1>. DEFINE Modern == IF options.deep THEN TLS13Ciphers(e) ELSE {}
            Older(x) == IF options.enumerate THEN Accepted(x) ELSE {}
<1>1. Ciphers(q) = Older(e) \cup Modern /\ Ciphers(p) = Older(w) \cup Modern
  <2>1. TLS13Ciphers(w) = TLS13Ciphers(e)
    BY DEF TLS13Ciphers, Learned, Lower
  <2>2. /\ q.enumeration.ciphers = Older(e) /\ p.enumeration.ciphers = Older(w)
        /\ q.deep.ciphers = IF options.deep THEN TLS13Ciphers(e) ELSE {}
        /\ p.deep.ciphers = IF options.deep THEN TLS13Ciphers(w) ELSE {}
    BY ScannedOffers
  <2>3. QED
    BY <2>1, <2>2 DEF Ciphers
<1>2. \A c \in Modern : is_aead(c) /\ "RC4" \notin c.words /\ c.bits \subseteq {128, 256}
  <2>1. Modern \subseteq e.suites13
    BY DEF TLS13Ciphers, Learned, Suites
  <2>2. QED
    BY <2>1, SuitesAssumption DEF Usual
<1>3. Older(e) \subseteq Older(w)
  BY StillTaken
<1>4. \A c \in Older(w) : c.bits \subseteq CIPHER_BITS
  BY SuitesAssumption DEF Accepted
<1>5. \A c \in Older(w) \ Older(e) :
        /\ options.enumerate
        /\ ~ is_aead(c)
        /\ NoStronger(c, e) \/ NoneBelow13(w, e)
  BY DEF Lower
<1>6. options.enumerate => Older(e) = Accepted(e)
  OBVIOUS
<1>7. Bits(Ciphers(p)) \subseteq CIPHER_BITS
  <2>1. \A c \in Ciphers(p) : c.bits \subseteq CIPHER_BITS
    BY <1>1, <1>2, <1>4 DEF CIPHER_BITS
  <2>2. QED
    BY <2>1 DEF Bits
<1>. HIDE DEF Modern, Older
<1>8. \A c \in Ciphers(p) \ Ciphers(q) : c \in Older(w) \ Older(e)
  BY <1>1
<1>9. (Ciphers(q) # {} /\ \A c \in Ciphers(q) : "RC4" \in c.words)
        => \A c \in Ciphers(p) : "RC4" \in c.words
  <2>1. SUFFICES ASSUME Ciphers(q) # {}, \A c \in Ciphers(q) : "RC4" \in c.words,
                        NEW c \in Ciphers(p) \ Ciphers(q)
                 PROVE  FALSE
    OBVIOUS
  <2>2. Modern = {}
    BY <1>1, <1>2, <2>1
  <2>3. Older(e) # {} /\ Older(e) = Accepted(e)
    BY <1>1, <1>5, <1>6, <1>8, <2>1, <2>2
  <2>4. NoStronger(c, e)
    BY <1>5, <1>8, <2>3 DEF NoneBelow13
  <2>5. QED
    BY <1>1, <2>1, <2>3, <2>4 DEF NoStronger
<1>10. \/ \A b \in Bits(Ciphers(p)) : \E d \in Bits(Ciphers(q)) : b <= d
       \/ /\ Bits(Ciphers(q)) \subseteq {128, 256}
          /\ Versions(p) \cap OldVersions # {}
          /\ "TLS13" \in Versions(q)
  <2>1. CASE Ciphers(p) = Ciphers(q)
    <3>1. \A b \in CIPHER_BITS : b <= b
      BY DEF CIPHER_BITS
    <3>2. QED
      BY <1>7, <2>1, <3>1
  <2>2. ASSUME NEW a \in Ciphers(p) \ Ciphers(q), NoneBelow13(w, e)
        PROVE  /\ Bits(Ciphers(q)) \subseteq {128, 256}
               /\ Versions(p) \cap OldVersions # {}
               /\ "TLS13" \in Versions(q)
    <3>1. options.enumerate /\ Older(e) = {}
      BY <1>5, <1>6, <1>8, <2>2 DEF NoneBelow13
    <3>2. Bits(Ciphers(q)) \subseteq {128, 256}
      BY <1>1, <1>2, <3>1 DEF Bits
    <3>3. PICK v \in OldVersions \cap PinnableVersions : Handshakes(w, {v}, LocalSuites)
      BY <2>2 DEF NoneBelow13
    <3>4. v \in Versions(p)
      BY <3>1, <3>3, ScannedVersions
    <3>5. "TLS13" \in Negotiable(e)
      BY <2>2 DEF NoneBelow13
    <3>6. "TLS13" \in PinnableVersions /\ Handshakes(e, {"TLS13"}, LocalSuites)
      BY <3>5, Takes, KnownVersions
    <3>7. "TLS13" \in Versions(q)
      BY <3>1, <3>6, ScannedVersions
    <3>8. QED
      BY <3>2, <3>3, <3>4, <3>7
  <2>3. ASSUME ~ NoneBelow13(w, e), NEW b \in Bits(Ciphers(p))
        PROVE  \E d \in Bits(Ciphers(q)) : b <= d
    <3>1. PICK c \in Ciphers(p) : b \in c.bits
      BY DEF Bits
    <3>2. CASE c \in Ciphers(q)
      <4>1. b \in Bits(Ciphers(q))
        BY <3>1, <3>2 DEF Bits
      <4>2. b <= b
        BY <1>7 DEF CIPHER_BITS
      <4>3. QED
        BY <4>1, <4>2
    <3>3. CASE c \notin Ciphers(q)
      <4>1. NoStronger(c, e) /\ Older(e) = Accepted(e)
        BY <1>5, <1>6, <1>8, <2>3, <3>3
      <4>2. PICK d \in Bits(Accepted(e)) : b <= d
        BY <3>1, <4>1 DEF NoStronger
      <4>3. d \in Bits(Ciphers(q))
        BY <1>1, <4>1 DEF Bits
      <4>4. QED
        BY <4>2, <4>3
    <3>4. QED
      BY <3>2, <3>3
  <2>4. Ciphers(q) \subseteq Ciphers(p)
    BY <1>1, <1>3
  <2>5. QED
    BY <2>1, <2>2, <2>3, <2>4
<1>11. QED
  BY <1>1, <1>3, <1>5, <1>7, <1>8, <1>9, <1>10 DEF LowerSuites

GroupIsWeak(q) == q.deep.weak_dh = {TRUE}

(* It shows no larger group.                                               *)
LEMMA GroupFalls ==
  ASSUME NEW t, NEW at, NEW w, NEW e, Spoiled(w, e), Usual(e),
         NEW p, p = Seen(t, w, at), NEW q, q = Seen(t, e, at)
  PROVE  SmallerGroup(p, q) /\ (GroupIsWeak(q) => GroupIsWeak(p))
<1>. DEFINE open == options.deep /\ "dh_params" \notin e.silent
            Weak(x) == {WeakGroup(bits, x.safe_prime) : bits \in x.dh}
<1>1. /\ e.dh \subseteq Int /\ AtMostOne(e.dh)
      /\ w.silent = e.silent /\ w.groups = e.groups
      /\ w.dh = e.dh \/ \E s, d \in Int : s < d /\ w.dh = {s} /\ e.dh = {d}
      /\ w.safe_prime => e.safe_prime
  BY EndpointsAssumption DEF Usual, Spoiled
<1>2. /\ q.deep.dh = IF open THEN e.dh ELSE {}
      /\ p.deep.dh = IF open THEN w.dh ELSE {}
      /\ q.deep.weak_dh = IF open THEN Weak(e) ELSE {}
      /\ p.deep.weak_dh = IF open THEN Weak(w) ELSE {}
  <2>1. /\ q.deep.dh = IF options.deep THEN DHParams(e).size ELSE {}
        /\ p.deep.dh = IF options.deep THEN DHParams(w).size ELSE {}
        /\ q.deep.weak_dh = IF options.deep THEN DHParams(e).weak ELSE {}
        /\ p.deep.weak_dh = IF options.deep THEN DHParams(w).weak ELSE {}
    BY ScannedOffers
  <2>2. ASSUME NEW x, x.silent = e.silent
        PROVE  /\ DHParams(x).size = IF "dh_params" \in e.silent THEN {} ELSE x.dh
               /\ DHParams(x).weak = IF "dh_params" \in e.silent THEN {} ELSE Weak(x)
    BY <2>2 DEF DHParams, Learned
  <2>3. /\ DHParams(w).size = IF "dh_params" \in e.silent THEN {} ELSE w.dh
        /\ DHParams(w).weak = IF "dh_params" \in e.silent THEN {} ELSE Weak(w)
    BY <1>1, <2>2
  <2>4. /\ DHParams(e).size = IF "dh_params" \in e.silent THEN {} ELSE e.dh
        /\ DHParams(e).weak = IF "dh_params" \in e.silent THEN {} ELSE Weak(e)
    BY <2>2
  <2>. HIDE DEF Weak
  <2>5. QED
    BY <2>1, <2>3, <2>4
<1>3. p.deep.groups = q.deep.groups
  <2>1. /\ q.deep.groups = IF options.deep THEN NamedGroups(e) ELSE {}
        /\ p.deep.groups = IF options.deep THEN NamedGroups(w) ELSE {}
    BY ScannedOffers
  <2>2. NamedGroups(w) = NamedGroups(e)
    BY <1>1 DEF NamedGroups, Learned
  <2>3. QED
    BY <2>1, <2>2
<1>4. Weak(e) = {TRUE} => Weak(w) = {TRUE}
  <2>1. SUFFICES ASSUME Weak(e) = {TRUE}
                 PROVE  Weak(w) = {TRUE}
    OBVIOUS
  <2>0. e.dh # {}
    BY <2>1
  <2>2. PICK d \in e.dh : e.dh = {d}
    BY <1>1, <2>0 DEF AtMostOne
  <2>3. WeakGroup(d, e.safe_prime)
    BY <2>1, <2>2
  <2>4. d < 2048 \/ ~ e.safe_prime
    BY <2>3 DEF WeakGroup
  <2>5. PICK s \in Int : w.dh = {s} /\ (s = d \/ s < d)
    BY <1>1, <2>2
  <2>6. d \in Int
    BY <1>1
  <2>7. s < 2048 \/ ~ w.safe_prime
    BY <1>1, <2>4, <2>5, <2>6
  <2>8. WeakGroup(s, w.safe_prime) = TRUE
    BY <2>7 DEF WeakGroup
  <2>9. QED
    BY <2>5, <2>8
<1>. HIDE DEF open, Weak
<1>5. SmallerGroup(p, q)
  BY <1>1, <1>2, <1>3 DEF SmallerGroup, AtMostOne
<1>6. GroupIsWeak(q) => GroupIsWeak(p)
  BY <1>2, <1>4 DEF GroupIsWeak
<1>7. QED
  BY <1>5, <1>6

(* It shows the flaws of the stronger endpoint.                            *)
LEMMA FlawsStay ==
  ASSUME NEW t, NEW at, NEW w, NEW e, Lower(w, e), Spoiled(w, e),
         NEW p, p = Seen(t, w, at), NEW q, q = Seen(t, e, at)
  PROVE  MoreFlaws(p, q)
<1>1. /\ \A v : Suites(e, v) \subseteq Suites(w, v)
      /\ e.versions \subseteq w.versions /\ Spoken(e) \subseteq Spoken(w)
  BY StillTaken DEF Lower
<1>2. AnalyzerVulnerabilities(e) \subseteq AnalyzerVulnerabilities(w)
  <2>. DEFINE Offered(x) == UNION {c.flaws : c \in UNION {Suites(x, v) : v \in x.versions}}
              Weak(x) == \E bits \in x.dh : bits <= 1024
  <2>1. Offered(e) \subseteq Offered(w)
    BY <1>1
  <2>2. Weak(e) => Weak(w)
    <3>1. CASE w.dh = e.dh
      BY <3>1
    <3>2. ASSUME NEW s \in Int, NEW d \in Int, s < d, w.dh = {s}, e.dh = {d}
          PROVE  Weak(e) => Weak(w)
      BY <3>2
    <3>3. QED
      BY <3>1, <3>2 DEF Spoiled
  <2>3. \A f : f \in AnalyzerVulnerabilities(e) =>
          \/ f \in Offered(e)
          \/ f = "weak_dh" /\ Weak(e)
          \/ f = "drown" /\ "SSL2" \in Spoken(e)
          \/ f = "insecure_ssl_version" /\ Spoken(e) \cap {"SSL2", "SSL3"} # {}
          \/ f = "early_tls_version" /\ Spoken(e) \cap {"TLS10", "TLS11"} # {}
    BY DEF AnalyzerVulnerabilities
  <2>. DEFINE Flawed(f) ==
                \/ f \in Offered(w)
                \/ f = "weak_dh" /\ Weak(w)
                \/ f = "drown" /\ "SSL2" \in Spoken(w)
                \/ f = "insecure_ssl_version" /\ Spoken(w) \cap {"SSL2", "SSL3"} # {}
                \/ f = "early_tls_version" /\ Spoken(w) \cap {"TLS10", "TLS11"} # {}
  <2>6. \A f : Flawed(f) => f \in AnalyzerVulnerabilities(w)
    BY DEF AnalyzerVulnerabilities
  <2>. HIDE DEF Offered, Weak
  <2>4. /\ "SSL2" \in Spoken(e) => "SSL2" \in Spoken(w)
        /\ Spoken(e) \cap {"SSL2", "SSL3"} # {} => Spoken(w) \cap {"SSL2", "SSL3"} # {}
        /\ Spoken(e) \cap {"TLS10", "TLS11"} # {}
             => Spoken(w) \cap {"TLS10", "TLS11"} # {}
    BY <1>1
  <2>5. SUFFICES ASSUME NEW f \in AnalyzerVulnerabilities(e)
                 PROVE  f \in AnalyzerVulnerabilities(w)
    OBVIOUS
  <2>7. Flawed(f)
    BY <2>1, <2>2, <2>3, <2>4, Zenon
  <2>. HIDE DEF Flawed
  <2>8. QED
    BY <2>6, <2>7
<1>3. \A v : cbc_negotiable_at(e, v) => cbc_negotiable_at(w, v)
  BY <1>1 DEF cbc_negotiable_at
<1>4. w.silent = e.silent
  BY DEF Spoiled
<1>5. Vulnerabilities(e) \subseteq Vulnerabilities(w)
  BY <1>2, <1>3, <1>4 DEF Vulnerabilities, Learned
<1>6. compression_enabled(CompressionMethods(e)) => compression_enabled(CompressionMethods(w))
  <2>1. CASE "extensions" \in e.silent
    BY <1>4, <2>1 DEF CompressionMethods, Learned, compression_enabled
  <2>2. CASE "extensions" \notin e.silent
    BY <1>4, <2>2 DEF CompressionMethods, Learned, compression_enabled, Spoiled
  <2>3. QED
    BY <2>1, <2>2
<1>7. QED
  <2>1. /\ q.deep.scanned = IF options.deep THEN TRUE ELSE FALSE
        /\ p.deep.scanned = IF options.deep THEN TRUE ELSE FALSE
        /\ q.deep.flaws = IF options.deep THEN Vulnerabilities(e) ELSE {}
        /\ p.deep.flaws = IF options.deep THEN Vulnerabilities(w) ELSE {}
    BY ScannedOffers
  <2>2. /\ q.deep.compression = IF options.deep
             THEN compression_enabled(CompressionMethods(e)) ELSE FALSE
        /\ p.deep.compression = IF options.deep
             THEN compression_enabled(CompressionMethods(w)) ELSE FALSE
    BY ScannedOffers
  <2>3. CASE options.deep
    BY <1>5, <1>6, <2>1, <2>2, <2>3 DEF MoreFlaws
  <2>4. CASE ~ options.deep
    BY <2>1, <2>2, <2>4 DEF MoreFlaws
  <2>5. QED
    BY <2>3, <2>4

(* That no order is preferred is so when both suites are accepted.         *)
LEMMA NoOrder ==
  ASSUME NEW e
  PROVE  detect_cipher_preference(e) = {FALSE} <=>
           /\ Accepts(e, CipherA) /\ Accepts(e, CipherB)
           /\ CipherA \notin e.favourite /\ CipherB \notin e.favourite
<1>1. ASSUME /\ Accepts(e, CipherA) /\ Accepts(e, CipherB)
             /\ CipherA \notin e.favourite /\ CipherB \notin e.favourite
      PROVE  detect_cipher_preference(e) = {FALSE}
  <2>1. {CipherA, CipherB} \cap e.favourite = {} /\ {CipherB, CipherA} \cap e.favourite = {}
    BY <1>1
  <2>2. Agreed(e, <<CipherA, CipherB>>) = {CipherA}
    BY <1>1, <2>1, AgreedPair
  <2>3. Agreed(e, <<CipherB, CipherA>>) = {CipherB}
    BY <1>1, <2>1, AgreedPair
  <2>4. QED
    BY <2>2, <2>3, PreferenceAssumption DEF detect_cipher_preference
<1>2. ASSUME detect_cipher_preference(e) = {FALSE}
      PROVE  /\ Accepts(e, CipherA) /\ Accepts(e, CipherB)
             /\ CipherA \notin e.favourite /\ CipherB \notin e.favourite
  <2>1. PICK r : r = [cipher_preference |-> {FALSE}]
    OBVIOUS
  <2>2. r.cipher_preference = {FALSE}
    BY <2>1
  <2>3. r.cipher_preference \in {{}, detect_cipher_preference(e)}
    BY <1>2, <2>2
  <2>4. DisorderIsReal(r, e)
    BY ONLY <2>3, PreferenceFacts
  <2>5. QED
    BY <2>2, <2>4 DEF DisorderIsReal
<1>3. QED
  BY <1>1, <1>2

Unordered(q) == q.cipher_preference = {FALSE}

(* A server without an order of its own gets none by accepting more.       *)
LEMMA PreferenceStays ==
  ASSUME NEW t, NEW at, NEW w, NEW e, Lower(w, e), w.favourite = e.favourite,
         NEW p, p = Seen(t, w, at), NEW q, q = Seen(t, e, at), Unordered(q)
  PROVE  Unordered(p)
<1>1. options.enumerate /\ detect_cipher_preference(e) = {FALSE}
  BY ScannedFields DEF Unordered
<1>2. /\ Accepts(e, CipherA) /\ Accepts(e, CipherB)
      /\ CipherA \notin e.favourite /\ CipherB \notin e.favourite
  BY <1>1, NoOrder
<1>3. /\ Accepts(w, CipherA) /\ Accepts(w, CipherB)
      /\ CipherA \notin w.favourite /\ CipherB \notin w.favourite
  BY <1>2, StillTaken
<1>4. detect_cipher_preference(w) = {FALSE}
  BY <1>3, NoOrder
<1>5. QED
  BY <1>1, <1>4, ScannedFields DEF Unordered

(* The version agreed on is the newest, and newer than any that is added.  *)
LEMMA NewestIs ==
  ASSUME NEW N, N \subseteq DOMAIN ORDER, NEW x \in N,
         \A v \in N : ORDER[v] <= ORDER[x]
  PROVE  (CHOOSE v \in N : \A u \in N : ORDER[u] <= ORDER[v]) = x
<1>. DEFINE y == CHOOSE v \in N : \A u \in N : ORDER[u] <= ORDER[v]
<1>1. y \in N /\ \A u \in N : ORDER[u] <= ORDER[y]
  OBVIOUS
<1>2. ORDER[x] <= ORDER[y] /\ ORDER[y] <= ORDER[x]
  BY <1>1
<1>3. x \in DOMAIN ORDER /\ y \in DOMAIN ORDER
  BY <1>1
<1>. HIDE DEF y
<1>4. x = y
  BY <1>2, <1>3 DEF ORDER
<1>5. QED
  BY <1>4 DEF y

(* The version agreed on stays the same.                                   *)
LEMMA SameVersion ==
  ASSUME NEW w, NEW e, Lower(w, e), Negotiable(e) # {}
  PROVE  Negotiated(w) = Negotiated(e)
<1>1. Negotiable(e) \subseteq Negotiable(w)
  BY StillTaken, Takes
<1>2. Negotiable(w) \subseteq DOMAIN ORDER
  BY VersionsAssumption, Takes
<1>3. ASSUME NEW u \in Negotiable(w) \ Negotiable(e)
      PROVE  \E x \in Negotiable(e) : ORDER[u] < ORDER[x]
  <2>1. u \in ClientVersions /\ Handshakes(w, {u}, LocalSuites)
    BY Takes
  <2>2. ~ Handshakes(e, {u}, LocalSuites)
    BY <2>1, Takes
  <2>3. Outdone(u, e)
    BY <2>1, <2>2 DEF Lower
  <2>4. PICK x \in Negotiable(e) : PROTOCOL_SCORE[u] < PROTOCOL_SCORE[x]
    BY <2>3 DEF Outdone
  <2>5. u \in DOMAIN ORDER /\ x \in DOMAIN ORDER
    BY <1>1, <1>2, <2>4
  <2>6. ORDER[u] < ORDER[x]
    BY <2>4, <2>5 DEF ORDER, PROTOCOL_SCORE
  <2>7. QED
    BY <2>6
<1>4. PICK x \in Negotiable(e) : \A v \in Negotiable(e) : ORDER[v] <= ORDER[x]
  <2>1. PICK n \in Nat : n = 4
    OBVIOUS
  <2>. DEFINE S == {ORDER[v] : v \in Negotiable(e)}
  <2>2. \A v \in Negotiable(e) : ORDER[v] \in 0 .. n
    BY <1>1, <1>2, <2>1 DEF ORDER
  <2>3. S \in SUBSET (0 .. n) /\ S # {}
    BY <2>2
  <2>4. Max(S) \in S /\ \A y \in S : y <= Max(S)
    BY <2>3, LargestIs
  <2>5. QED
    BY <2>4
<1>5. \A v \in Negotiable(w) : ORDER[v] <= ORDER[x]
  <2>1. SUFFICES ASSUME NEW u \in Negotiable(w) \ Negotiable(e)
                 PROVE  ORDER[u] <= ORDER[x]
    BY <1>4
  <2>2. PICK y \in Negotiable(e) : ORDER[u] < ORDER[y]
    BY <1>3
  <2>3. ORDER[y] <= ORDER[x]
    BY <1>4
  <2>4. ORDER[u] \in Int /\ ORDER[y] \in Int /\ ORDER[x] \in Int
    BY <1>1, <1>2 DEF ORDER
  <2>5. QED
    BY <2>2, <2>3, <2>4
<1>6. Negotiated(e) = x
  BY <1>1, <1>2, <1>4, NewestIs DEF Negotiated
<1>7. Negotiated(w) = x
  BY <1>1, <1>2, <1>4, <1>5, NewestIs DEF Negotiated
<1>8. QED
  BY <1>6, <1>7

(* A leaf that was spoiled on the wire is parsed as a spoiled one.         *)
LEMMA LeafFalls ==
  ASSUME NEW a, NEW b, SpoiledWire(b, a), WireFields \subseteq DOMAIN a, NEW at,
         NEW c, c = parse_certificate(a, at), NEW d, d = parse_certificate(b, at)
  PROVE  /\ WorseLeaf(d, c) /\ SpoiledLeaf(d, c)
         /\ d.public_key = c.public_key \/ FailsOutright(d)
         /\ d.san_dns = c.san_dns /\ d.san_ip = c.san_ip
<1>1. /\ b.not_before = a.not_before /\ b.not_after = a.not_after
      /\ b.san_dns = a.san_dns /\ b.san_ip = a.san_ip /\ b.crl_urls = a.crl_urls
      /\ b.ocsp_urls = a.ocsp_urls /\ b.ca_issuer_urls = a.ca_issuer_urls
      /\ b.issuer = a.issuer /\ b.subject = a.subject /\ b.fingerprints = a.fingerprints
  <2>1. CASE b = a
    BY <2>1
  <2>2. CASE b = Resigned(a)
    BY <2>2 DEF WireFields, Resigned
  <2>3. CASE b = Rekeyed(a)
    BY <2>3 DEF WireFields, Rekeyed
  <2>4. QED
    BY <2>1, <2>2, <2>3 DEF SpoiledWire
<1>2. /\ d.lifetime = c.lifetime /\ d.issuer = c.issuer /\ d.fingerprints = c.fingerprints
      /\ d.has_any_source = c.has_any_source /\ d.self_issued = c.self_issued
      /\ d.san_dns = c.san_dns /\ d.san_ip = c.san_ip
  BY <1>1 DEF parse_certificate, extract_revocation_endpoints
<1>3. /\ d.public_key = b.public_key /\ c.public_key = a.public_key
      /\ d.signature_algorithm = b.signature_algorithm
      /\ c.signature_algorithm = a.signature_algorithm
      /\ d.weak_key = WeakKey(b.public_key) /\ c.weak_key = WeakKey(a.public_key)
      /\ d.signature_weak = (SignatureHash(b) \cap WEAK_SIGNATURE_HASHES # {})
      /\ c.signature_weak = (SignatureHash(a) \cap WEAK_SIGNATURE_HASHES # {})
  BY DEF parse_certificate
<1>4. CASE b = a
  <2>1. d = c
    BY <1>4
  <2>2. QED
    BY <2>1 DEF WorseLeaf, SpoiledLeaf
<1>5. CASE b = Resigned(a)
  <2>1. /\ b.public_key = a.public_key /\ b.signature_hash = {"sha1"}
        /\ b.signature_algorithm = "sha1"
    BY <1>5 DEF WireFields, Resigned
  <2>2. SignatureHash(b) \cap WEAK_SIGNATURE_HASHES # {}
    BY <2>1 DEF SignatureHash, WEAK_SIGNATURE_HASHES
  <2>3. d.signature_weak
    BY <1>3, <2>2
  <2>4. QED
    BY <1>2, <1>3, <2>1, <2>3 DEF WorseLeaf, SpoiledLeaf
<1>6. CASE b = Rekeyed(a)
  <2>1. /\ b.public_key = [type |-> "rsa", size |-> 1024]
        /\ b.signature_hash = a.signature_hash
        /\ b.signature_algorithm = a.signature_algorithm
    BY <1>6 DEF WireFields, Rekeyed
  <2>2. b.public_key.type = "rsa" /\ b.public_key.size = 1024
    BY <2>1
  <2>3. WeakKey(b.public_key)
    BY <2>2 DEF WeakKey
  <2>4. d.weak_key /\ FailsOutright(d)
    BY <1>3, <2>3 DEF FailsOutright
  <2>5. d.signature_weak = c.signature_weak
    BY <1>3, <2>1 DEF SignatureHash
  <2>6. QED
    BY <1>2, <1>3, <2>1, <2>4, <2>5 DEF WorseLeaf, SpoiledLeaf
<1>7. QED
  BY <1>4, <1>5, <1>6 DEF SpoiledWire

(* What a handshake showed is not touched by the scans.                    *)
Leaves(e, at) == {parse_certificate(wire, at) : wire \in e.wire}

(* A scan of a connection that was made is measured.                       *)
LEMMA ScannedShows ==
  ASSUME NEW t, NEW e, NEW at, NEW q, q = Seen(t, e, at)
  PROVE  q.measured = TRUE
BY DEF Seen, Scanned, Observed

(* A scan is of one endpoint and one instant, and not judged yet.          *)
LEMMA ScannedUnjudged ==
  ASSUME NEW t, NEW e, NEW at, NEW q, q = Seen(t, e, at)
  PROVE  q.at = at /\ q.seen = {e} /\ q.grade = Ungraded /\ q.compliant = {}
BY DEF Seen, Scanned, Observed

(* The leaves it shows are those that could be parsed.                     *)
LEMMA ScannedLeaves ==
  ASSUME NEW t, NEW e, NEW at, NEW q, q = Seen(t, e, at)
  PROVE  q.certificate = Leaves(e, at)
BY DEF Seen, Scanned, Observed, Leaves

(* What it shows of the connection.                                        *)
LEMMA ScannedNegotiation ==
  ASSUME NEW t, NEW e, NEW at, NEW q, q = Seen(t, e, at)
  PROVE  /\ q.tls_version = Negotiated(e) /\ q.cipher = e.cipher
         /\ q.forward_secrecy = detect_forward_secrecy(Negotiated(e), e.cipher)
         /\ q.offered_none = (e.wire = {} /\ ~ e.garbled)
BY DEF Seen, Scanned, Observed

(* What it shows of the name in the certificate.                           *)
LEMMA ScannedName ==
  ASSUME NEW t, NEW e, NEW at, NEW q, q = Seen(t, e, at)
  PROVE  q.hostname_match =
           IF q.certificate = {} THEN "not_checked"
           ELSE match_hostname(CHOOSE c \in q.certificate : TRUE, HostOf[t])
<1>1. PICK o : o = Observed(t, e, at)
  OBVIOUS
<1>2. q.certificate = o.certificate /\ q.hostname_match = o.hostname_match
  BY <1>1 DEF Seen, Scanned, Observed
<1>3. o.hostname_match =
        IF o.certificate = {} THEN "not_checked"
        ELSE match_hostname(CHOOSE c \in o.certificate : TRUE, HostOf[t])
  BY <1>1 DEF Observed
<1>4. QED
  BY <1>2, <1>3

(* What it shows of the chain and of revocation.                           *)
LEMMA ScannedChain ==
  ASSUME NEW t, NEW e, NEW at, NEW q, q = Seen(t, e, at)
  PROVE  /\ q.chain_audit =
              [attempted |-> options.verify_chain,
               verified |-> options.verify_chain /\ e.chain # "untrusted",
               missing_intermediate |-> options.verify_chain /\ e.chain = "incomplete"]
         /\ q.revoked = (options.check_revocation /\ e.revoked)
BY DEF Seen, Scanned, Observed

(* The leaves of two endpoints, one of them weaker.                        *)
LeavesFall(these, those) ==
  /\ those = {} <=> these = {}
  /\ \A c, b \in those : c = b
  /\ \A d, b \in these : d = b
  /\ \A c \in those : c.public_key.size \in Int
  /\ \A c \in those : \A d \in these :
       /\ WorseLeaf(d, c) /\ SpoiledLeaf(d, c)
       /\ d.public_key = c.public_key \/ FailsOutright(d)
       /\ d.san_dns = c.san_dns /\ d.san_ip = c.san_ip

(* The leaf of a weaker endpoint is no better.                             *)
LEMMA CertificateFalls ==
  ASSUME NEW t, NEW at, NEW w, NEW e, Spoiled(w, e), Usual(e),
         NEW p, p = Seen(t, w, at), NEW q, q = Seen(t, e, at)
  PROVE  LeavesFall(p.certificate, q.certificate)
<1>1. /\ q.certificate = {parse_certificate(wire, at) : wire \in e.wire}
      /\ p.certificate = {parse_certificate(wire, at) : wire \in w.wire}
  BY ScannedLeaves DEF Leaves
<1>2. /\ AtMostOne(w.wire) /\ (e.wire = {} <=> w.wire = {})
      /\ \A a \in e.wire : \E b \in w.wire : SpoiledWire(b, a)
  BY DEF Spoiled
<1>3. /\ \A a, b \in e.wire : a = b
      /\ \A a \in e.wire : WireFields \subseteq DOMAIN a /\ a.public_key.size \in Int
  BY PresentsAssumption, EndpointsAssumption DEF Usual
<1>4. /\ q.certificate = {} <=> p.certificate = {}
      /\ \A c, b \in q.certificate : c = b
      /\ \A d, b \in p.certificate : d = b
  BY <1>1, <1>2, <1>3 DEF AtMostOne
<1>5. \A c \in q.certificate : c.public_key.size \in Int
  BY <1>1, <1>3 DEF parse_certificate
<1>6. ASSUME NEW c \in q.certificate, NEW d \in p.certificate
      PROVE  /\ WorseLeaf(d, c) /\ SpoiledLeaf(d, c)
             /\ d.public_key = c.public_key \/ FailsOutright(d)
             /\ d.san_dns = c.san_dns /\ d.san_ip = c.san_ip
  <2>1. PICK a \in e.wire : c = parse_certificate(a, at)
    BY <1>1
  <2>2. PICK b \in w.wire : d = parse_certificate(b, at)
    BY <1>1
  <2>3. SpoiledWire(b, a)
    BY <1>2 DEF AtMostOne
  <2>4. WireFields \subseteq DOMAIN a
    BY <1>3
  <2>5. QED
    BY <2>1, <2>2, <2>3, <2>4, LeafFalls
<1>7. QED
  BY <1>4, <1>5, <1>6 DEF LeavesFall

(* Nor is its connection, and an intermediate that was missing is still    *)
(* missed, unless the chain is not trusted at all.                         *)
LEMMA ConnectionFalls ==
  ASSUME NEW t, NEW at, NEW w, NEW e, Lower(w, e), Spoiled(w, e), Negotiable(e) # {},
         NEW p, p = Seen(t, w, at), NEW q, q = Seen(t, e, at),
         LeavesFall(p.certificate, q.certificate)
  PROVE  /\ WorseConnection(p, q)
         /\ \/ options.verify_chain /\ w.chain = "untrusted"
            \/ q.chain_audit.missing_intermediate => p.chain_audit.missing_intermediate
<1>1. p.tls_version = q.tls_version /\ p.forward_secrecy = q.forward_secrecy
      /\ p.cipher = q.cipher /\ p.offered_none = q.offered_none
  <2>1. Negotiated(w) = Negotiated(e)
    BY SameVersion
  <2>2. w.cipher = e.cipher /\ w.garbled = e.garbled /\ (e.wire = {} <=> w.wire = {})
    BY DEF Spoiled
  <2>3. /\ q.tls_version = Negotiated(e) /\ q.cipher = e.cipher
        /\ q.forward_secrecy = detect_forward_secrecy(Negotiated(e), e.cipher)
        /\ q.offered_none = (e.wire = {} /\ ~ e.garbled)
    BY ScannedNegotiation
  <2>4. /\ p.tls_version = Negotiated(w) /\ p.cipher = w.cipher
        /\ p.forward_secrecy = detect_forward_secrecy(Negotiated(w), w.cipher)
        /\ p.offered_none = (w.wire = {} /\ ~ w.garbled)
    BY ScannedNegotiation
  <2>5. QED
    BY <2>1, <2>2, <2>3, <2>4
<1>2. p.hostname_match = q.hostname_match
  <2>1. /\ q.hostname_match =
             IF q.certificate = {} THEN "not_checked"
             ELSE match_hostname(CHOOSE c \in q.certificate : TRUE, HostOf[t])
        /\ p.hostname_match =
             IF p.certificate = {} THEN "not_checked"
             ELSE match_hostname(CHOOSE c \in p.certificate : TRUE, HostOf[t])
    BY ScannedName
  <2>2. CASE q.certificate = {}
    BY <2>1, <2>2 DEF LeavesFall
  <2>3. CASE q.certificate # {}
    <3>1. PICK c, d : /\ c \in q.certificate /\ d \in p.certificate
                      /\ c = CHOOSE leaf \in q.certificate : TRUE
                      /\ d = CHOOSE leaf \in p.certificate : TRUE
      BY <2>3 DEF LeavesFall
    <3>2. d.san_dns = c.san_dns /\ d.san_ip = c.san_ip
      BY <3>1 DEF LeavesFall
    <3>3. match_hostname(d, HostOf[t]) = match_hostname(c, HostOf[t])
      BY <3>2 DEF match_hostname
    <3>4. QED
      BY <2>1, <2>3, <3>1, <3>3
  <2>4. QED
    BY <2>2, <2>3
<1>3. p.deep.scanned = q.deep.scanned /\ p.deep.groups = q.deep.groups
  <2>1. /\ q.deep.groups = IF options.deep THEN NamedGroups(e) ELSE {}
        /\ p.deep.groups = IF options.deep THEN NamedGroups(w) ELSE {}
        /\ q.deep.scanned = IF options.deep THEN TRUE ELSE FALSE
        /\ p.deep.scanned = IF options.deep THEN TRUE ELSE FALSE
    BY ScannedOffers
  <2>2. NamedGroups(w) = NamedGroups(e)
    BY DEF NamedGroups, Learned, Spoiled
  <2>3. QED
    BY <2>1, <2>2
<1>4. /\ q.chain_audit.attempted = options.verify_chain
      /\ q.chain_audit.verified = (options.verify_chain /\ e.chain # "untrusted")
      /\ q.chain_audit.missing_intermediate
           = (options.verify_chain /\ e.chain = "incomplete")
      /\ q.revoked = (options.check_revocation /\ e.revoked)
  <2>1. q.chain_audit =
          [attempted |-> options.verify_chain,
           verified |-> options.verify_chain /\ e.chain # "untrusted",
           missing_intermediate |-> options.verify_chain /\ e.chain = "incomplete"]
    BY ScannedChain, Zenon
  <2>2. q.revoked = (options.check_revocation /\ e.revoked)
    BY ScannedChain, Zenon
  <2>3. QED
    BY <2>1, <2>2
<1>5. /\ p.chain_audit.attempted = options.verify_chain
      /\ p.chain_audit.verified = (options.verify_chain /\ w.chain # "untrusted")
      /\ p.chain_audit.missing_intermediate
           = (options.verify_chain /\ w.chain = "incomplete")
      /\ p.revoked = (options.check_revocation /\ w.revoked)
  <2>1. p.chain_audit =
          [attempted |-> options.verify_chain,
           verified |-> options.verify_chain /\ w.chain # "untrusted",
           missing_intermediate |-> options.verify_chain /\ w.chain = "incomplete"]
    BY ScannedChain, Zenon
  <2>2. p.revoked = (options.check_revocation /\ w.revoked)
    BY ScannedChain, Zenon
  <2>3. QED
    BY <2>1, <2>2
<1>6. /\ e.revoked => w.revoked
      /\ \/ w.chain \in {e.chain, "untrusted"}
         \/ e.chain = "complete" /\ w.chain = "incomplete"
  BY DEF Spoiled
<1>7. WorseConnection(p, q)
  BY <1>1, <1>2, <1>3, <1>4, <1>5, <1>6 DEF WorseConnection
<1>8. \/ options.verify_chain /\ w.chain = "untrusted"
      \/ q.chain_audit.missing_intermediate => p.chain_audit.missing_intermediate
  BY <1>4, <1>5, <1>6
<1>9. QED
  BY <1>7, <1>8

(* The grade of a weaker endpoint is no better.                            *)
LEMMA WeakerGrade ==
  ASSUME NEW t, NEW at, NEW w, NEW e,
         NEW p, p = Seen(t, w, at), NEW q,
         WorseScan(p, q), WorseConnection(p, q), LeavesFall(p.certificate, q.certificate),
         \/ options.verify_chain /\ w.chain = "untrusted"
         \/ q.chain_audit.missing_intermediate => p.chain_audit.missing_intermediate,
         grade_certificate(q) # Ungraded, grade_certificate(p) # Ungraded
  PROVE  grade_certificate(q) <= grade_certificate(p)
<1>1. q.certificate # {} /\ p.certificate # {}
  BY DEF grade_certificate
<1>2. PICK c, d : /\ c \in q.certificate /\ d \in p.certificate
                  /\ c = CHOOSE leaf \in q.certificate : TRUE
                  /\ d = CHOOSE leaf \in p.certificate : TRUE
  BY <1>1
<1>3. grade_certificate(q) = GradeOf(q, c) /\ grade_certificate(p) = GradeOf(p, d)
  BY <1>1, <1>2 DEF grade_certificate
<1>4. /\ WorseLeaf(d, c) /\ c.public_key.size \in Int
      /\ d.public_key = c.public_key \/ FailsOutright(d)
  BY <1>2 DEF LeavesFall
<1>5. (options.verify_chain /\ w.chain = "untrusted") => Untrusted(p, d)
  <2>1. /\ p.chain_audit.attempted = options.verify_chain
        /\ p.chain_audit.verified = (options.verify_chain /\ w.chain # "untrusted")
    <3>1. p.chain_audit =
            [attempted |-> options.verify_chain,
             verified |-> options.verify_chain /\ w.chain # "untrusted",
             missing_intermediate |-> options.verify_chain /\ w.chain = "incomplete"]
      BY ScannedChain, Zenon
    <3>2. QED
      BY <3>1
  <2>2. QED
    BY <2>1 DEF Untrusted
<1>6. QED
  BY <1>3, <1>4, <1>5, GradeFalls

(* Where only the offers differ, nothing is spoiled.                       *)
LEMMA OnlyOffers ==
  ASSUME NEW w, NEW e, Usual(e),
         w.favourite = e.favourite, w.silent = e.silent, w.groups = e.groups,
         w.garbled = e.garbled, w.cipher = e.cipher, w.dh = e.dh,
         w.safe_prime => e.safe_prime,
         e.compression_methods \subseteq w.compression_methods,
         w.revoked = e.revoked \/ w.revoked = TRUE, w.wire = e.wire,
         \/ w.chain \in {e.chain, "untrusted"}
         \/ e.chain = "complete" /\ w.chain = "incomplete"
  PROVE  Spoiled(w, e)
<1>1. AtMostOne(w.wire)
  BY PresentsAssumption DEF Usual, AtMostOne
<1>2. \A a \in e.wire : \E b \in w.wire : SpoiledWire(b, a)
  BY DEF SpoiledWire
<1>3. QED
  BY <1>1, <1>2 DEF Spoiled

(* The kinds of weaker endpoints.                                          *)
Ages(w, e) ==
  \E v \in DOMAIN PROTOCOL_SCORE, x \in Negotiable(e) :
    PROTOCOL_SCORE[v] < PROTOCOL_SCORE[x] /\ w = [e EXCEPT !.versions = @ \cup {v}]

Shrinks(w, e) ==
  \E s \in {512, 1024, 2048}, d \in e.dh : s < d /\ w = [e EXCEPT !.dh = {s}]

Widens(w, e) == \E c \in WeakerSuites(e) : w = [e EXCEPT !.suites = @ \cup {c}]

Resigns(w, e) == w = [e EXCEPT !.wire = {Resigned(a) : a \in e.wire}]
Rekeys(w, e) == w = [e EXCEPT !.wire = {Rekeyed(a) : a \in e.wire}]

(* The ways to become weaker, one by one.                                  *)
LEMMA Kinds ==
  ASSUME NEW e, NEW w \in Weakened(e)
  PROVE  \/ Ages(w, e) \/ Shrinks(w, e) \/ w \in Exposed(e) \/ Widens(w, e)
         \/ Resigns(w, e) \/ Rekeys(w, e)
<1>1. w \in Outmoded(e) => Ages(w, e)
  BY DEF Outmoded, Ages
<1>2. w \in Shrunk(e) => Shrinks(w, e)
  BY DEF Shrunk, Shrinks
<1>3. w \in Widened(e) => Widens(w, e)
  BY DEF Widened, Widens
<1>4. w \in Releafed(e) => Resigns(w, e) \/ Rekeys(w, e)
  BY Zenon DEF Releafed, Resigns, Rekeys
<1>5. \/ w \in Outmoded(e) \/ w \in Shrunk(e) \/ w \in Exposed(e)
      \/ w \in Widened(e) \/ w \in Releafed(e)
  BY DEF Weakened
<1>6. QED
  BY <1>1, <1>2, <1>3, <1>4, <1>5

(* Each of them gives an endpoint that is no stronger, and spoils at most  *)
(* the group, the compression, the chain or the leaf.                      *)
LEMMA WeakenedFalls ==
  ASSUME NEW t \in Targets, NEW e \in Presents[t], NEW w \in Weakened(e)
  PROVE  Lower(w, e) /\ Spoiled(w, e)
<1>1. /\ EndpointFields \subseteq DOMAIN e
      /\ e.versions \subseteq DOMAIN PROTOCOL_SCORE
      /\ e.dh \subseteq Int /\ AtMostOne(e.dh) /\ AtMostOne(e.wire)
  BY EndpointsAssumption, PresentsAssumption DEF AtMostOne
<1>2. Usual(e)
  BY DEF Usual
<1>3. ASSUME Ages(w, e)
      PROVE  Lower(w, e) /\ Spoiled(w, e)
  <2>0. PICK v \in DOMAIN PROTOCOL_SCORE, x \in Negotiable(e) :
          PROTOCOL_SCORE[v] < PROTOCOL_SCORE[x] /\ w = [e EXCEPT !.versions = @ \cup {v}]
    BY <1>3 DEF Ages
  <2>1. Lower(w, e)
    BY <1>1, <2>0, OlderVersionIsLower
  <2>2. /\ w.favourite = e.favourite /\ w.silent = e.silent /\ w.groups = e.groups
        /\ w.garbled = e.garbled /\ w.cipher = e.cipher /\ w.dh = e.dh
        /\ w.safe_prime = e.safe_prime /\ w.compression_methods = e.compression_methods
        /\ w.revoked = e.revoked /\ w.wire = e.wire /\ w.chain = e.chain
    BY <1>1, <2>0 DEF EndpointFields
  <2>3. QED
    BY <1>2, <2>1, <2>2, OnlyOffers
<1>4. ASSUME Widens(w, e)
      PROVE  Lower(w, e) /\ Spoiled(w, e)
  <2>0. PICK c \in WeakerSuites(e) : w = [e EXCEPT !.suites = @ \cup {c}]
    BY <1>4 DEF Widens
  <2>1. /\ ~ is_aead(c)
        /\ \E d \in Accepted(e) : "RC4" \notin d.words
        /\ \E b \in c.bits, d \in Bits(Accepted(e)) : b <= d
    BY DEF WeakerSuites, Accepted
  <2>2. AtMostOne(c.bits) \/ c \notin LocalSuites
    BY SuitesAssumption
  <2>3. Lower(w, e)
    BY <1>1, <2>0, <2>1, <2>2, WeakerSuiteIsLower
  <2>4. /\ w.favourite = e.favourite /\ w.silent = e.silent /\ w.groups = e.groups
        /\ w.garbled = e.garbled /\ w.cipher = e.cipher /\ w.dh = e.dh
        /\ w.safe_prime = e.safe_prime /\ w.compression_methods = e.compression_methods
        /\ w.revoked = e.revoked /\ w.wire = e.wire /\ w.chain = e.chain
    BY <1>1, <2>0 DEF EndpointFields
  <2>5. QED
    BY <1>2, <2>3, <2>4, OnlyOffers
<1>5. ASSUME w.versions = e.versions, w.suites = e.suites, w.suites13 = e.suites13
      PROVE  Lower(w, e)
  BY <1>1, <1>5, SameOffers
<1>6. ASSUME Shrinks(w, e)
      PROVE  Lower(w, e) /\ Spoiled(w, e)
  <2>0. PICK s \in {512, 1024, 2048}, d \in e.dh : s < d /\ w = [e EXCEPT !.dh = {s}]
    BY <1>6 DEF Shrinks
  <2>1. /\ w.favourite = e.favourite /\ w.silent = e.silent /\ w.groups = e.groups
        /\ w.garbled = e.garbled /\ w.cipher = e.cipher /\ w.dh = {s}
        /\ w.safe_prime = e.safe_prime /\ w.compression_methods = e.compression_methods
        /\ w.revoked = e.revoked /\ w.wire = e.wire /\ w.chain = e.chain
        /\ w.versions = e.versions /\ w.suites = e.suites /\ w.suites13 = e.suites13
    BY <1>1, <2>0 DEF EndpointFields
  <2>2. e.dh = {d} /\ s \in Int /\ d \in Int
    BY <1>1 DEF AtMostOne
  <2>3. \A a \in e.wire : \E b \in w.wire : SpoiledWire(b, a)
    BY <2>1 DEF SpoiledWire
  <2>4. Spoiled(w, e)
    BY <1>1, <2>0, <2>1, <2>2, <2>3 DEF Spoiled
  <2>5. QED
    BY <1>5, <2>1, <2>4
<1>7. ASSUME w \in Exposed(e)
      PROVE  Lower(w, e) /\ Spoiled(w, e)
  <2>0. \/ e.chain = "complete" /\ w = [e EXCEPT !.chain = "incomplete"]
        \/ w = [e EXCEPT !.chain = "untrusted"]
        \/ w = [e EXCEPT !.safe_prime = FALSE]
        \/ w = [e EXCEPT !.compression_methods = @ \cup {"deflate"}]
        \/ w = [e EXCEPT !.revoked = TRUE]
    BY <1>7 DEF Exposed
  <2>1. /\ w.favourite = e.favourite /\ w.silent = e.silent /\ w.groups = e.groups
        /\ w.garbled = e.garbled /\ w.cipher = e.cipher /\ w.dh = e.dh
        /\ w.wire = e.wire
    BY <1>1, <2>0 DEF EndpointFields
  <2>2. w.versions = e.versions /\ w.suites = e.suites /\ w.suites13 = e.suites13
    BY <1>1, <2>0 DEF EndpointFields
  <2>3. /\ w.safe_prime => e.safe_prime
        /\ e.compression_methods \subseteq w.compression_methods
        /\ w.revoked = e.revoked \/ w.revoked = TRUE
    BY <1>1, <2>0 DEF EndpointFields
  <2>4. \/ w.chain \in {e.chain, "untrusted"}
        \/ e.chain = "complete" /\ w.chain = "incomplete"
    BY <1>1, <2>0 DEF EndpointFields
  <2>5. Spoiled(w, e)
    BY <1>2, <2>1, <2>3, <2>4, OnlyOffers
  <2>6. QED
    BY <1>5, <2>2, <2>5
<1>8. ASSUME NEW W, w = [e EXCEPT !.wire = W], AtMostOne(W), e.wire = {} <=> W = {},
             \A a \in e.wire : \E b \in W : SpoiledWire(b, a)
      PROVE  Lower(w, e) /\ Spoiled(w, e)
  <2>1. /\ w.favourite = e.favourite /\ w.silent = e.silent /\ w.groups = e.groups
        /\ w.garbled = e.garbled /\ w.cipher = e.cipher /\ w.dh = e.dh
        /\ w.safe_prime = e.safe_prime /\ w.compression_methods = e.compression_methods
        /\ w.revoked = e.revoked /\ w.wire = W /\ w.chain = e.chain
        /\ w.versions = e.versions /\ w.suites = e.suites /\ w.suites13 = e.suites13
    BY <1>1, <1>8 DEF EndpointFields
  <2>2. Spoiled(w, e)
    BY <1>8, <2>1 DEF Spoiled
  <2>3. QED
    BY <1>5, <2>1, <2>2
<1>9. ASSUME Resigns(w, e)
      PROVE  Lower(w, e) /\ Spoiled(w, e)
  <2>. DEFINE W == {Resigned(a) : a \in e.wire}
  <2>1. AtMostOne(W) /\ (e.wire = {} <=> W = {})
    BY <1>1 DEF AtMostOne
  <2>2. \A a \in e.wire : Resigned(a) \in W /\ SpoiledWire(Resigned(a), a)
    BY DEF SpoiledWire
  <2>3. w = [e EXCEPT !.wire = W]
    BY <1>9, Zenon DEF Resigns
  <2>. HIDE DEF W
  <2>4. QED
    BY <1>8, <2>1, <2>2, <2>3
<1>10. ASSUME Rekeys(w, e)
       PROVE  Lower(w, e) /\ Spoiled(w, e)
  <2>. DEFINE W == {Rekeyed(a) : a \in e.wire}
  <2>1. AtMostOne(W) /\ (e.wire = {} <=> W = {})
    BY <1>1 DEF AtMostOne
  <2>2. \A a \in e.wire : Rekeyed(a) \in W /\ SpoiledWire(Rekeyed(a), a)
    BY DEF SpoiledWire
  <2>3. w = [e EXCEPT !.wire = W]
    BY <1>10, Zenon DEF Rekeys
  <2>. HIDE DEF W
  <2>4. QED
    BY <1>8, <2>1, <2>2, <2>3
<1>11. QED
  BY <1>3, <1>4, <1>6, <1>7, <1>9, <1>10, Kinds

(* So its scan is no better.                                               *)
LEMMA WeakerScan ==
  ASSUME NEW t, NEW at, NEW w, NEW e, Lower(w, e), Spoiled(w, e), Usual(e),
         NEW p, p = Seen(t, w, at), NEW q, q = Seen(t, e, at)
  PROVE  WorseScan(p, q)
<1>1. w.silent = e.silent
  BY DEF Spoiled
<1>2. OlderVersions(p, q)
  BY <1>1, VersionsFall
<1>3. LowerSuites(p, q)
  BY <1>1, SuitesFall
<1>4. SmallerGroup(p, q)
  BY GroupFalls
<1>5. MoreFlaws(p, q)
  BY FlawsStay
<1>6. QED
  BY <1>2, <1>3, <1>4, <1>5 DEF WorseScan

(* The weakest of more suites is no stronger.                              *)
LEMMA StrengthsFall ==
  ASSUME NEW i, NEW j, j.ciphers \subseteq i.ciphers
  PROVE  \A x \in weakest_supported_cipher_strength(j) :
           \E y \in weakest_supported_cipher_strength(i) : y <= x
<1>. DEFINE Rated(c) == STRENGTH_ORDER[rate_cipher_strength(c)]
            S == {Rated(c) : c \in j.ciphers}
            U == {Rated(c) : c \in i.ciphers}
<1>1. PICK n \in Nat : n = 3
  OBVIOUS
<1>2. \A c : Rated(c) \in 0 .. n
  <2>1. \A c : rate_cipher_strength(c) \in {"F", "C", "B", "A"}
    BY DEF rate_cipher_strength
  <2>2. \A rate \in {"F", "C", "B", "A"} : STRENGTH_ORDER[rate] \in 0 .. n
    BY <1>1 DEF STRENGTH_ORDER
  <2>3. QED
    BY <2>1, <2>2
<1>3. /\ weakest_supported_cipher_strength(j) = IF S = {} THEN {} ELSE {Min(S)}
      /\ weakest_supported_cipher_strength(i) = IF U = {} THEN {} ELSE {Min(U)}
  BY DEF weakest_supported_cipher_strength
<1>. HIDE DEF Rated
<1>4. S \in SUBSET (0 .. n) /\ U \in SUBSET (0 .. n) /\ S \subseteq U
  BY <1>2
<1>. HIDE DEF S, U
<1>5. \A x \in S : \E y \in U : y <= x
  <2>1. \A x \in S : x \in Int
    BY <1>4
  <2>2. QED
    BY <1>4, <2>1
<1>6. CASE S # {}
  <2>1. Min(U) <= Min(S) /\ U # {}
    BY <1>4, <1>5, <1>6, SmallerMin
  <2>2. QED
    BY <1>3, <1>6, <2>1
<1>7. QED
  BY <1>3, <1>6

(* What was seen of an endpoint, beside the verdicts on it, is what was    *)
(* seen at first; the verdicts are those on what was seen.                 *)
JudgesWrite == {"grade", "profile_audit", "failures", "compliant"}

Shown ==
  {"measured", "at", "seen", "tls_version", "forward_secrecy", "cipher", "offered_none",
   "certificate", "hostname_match", "chain_audit", "revoked", "enumeration",
   "cipher_preference", "deep"}

Told(t, e, r) ==
  LET q == Seen(t, e, r.at)
  IN /\ e \in Presents[t] /\ Negotiable(e) # {}
     /\ Changes(r, q, JudgesWrite)
     /\ r.grade \in {Ungraded, grade_certificate(q)}
     /\ r.compliant \in {{}, {PolicyFailures(q, options.policy) = {}}}

(* Every result tells of the endpoints it has seen what a scan of each of  *)
(* them, at the same instant, would show, and was judged by that scan      *)
(* alone.                                                                  *)
SeenInv ==
  /\ result = [t \in Targets |-> result[t]]
  /\ \A t \in Targets : \A r \in result[t] :
       "seen" \in DOMAIN r /\ \A e \in r.seen : Told(t, e, r)

(* The fields of a scan.                                                   *)
LEMMA SeenHas ==
  ASSUME NEW t, NEW e, NEW at, NEW q, q = Seen(t, e, at)
  PROVE  Shown \cup JudgesWrite \subseteq DOMAIN q
BY DEF Seen, Scanned, Observed, Shown, JudgesWrite

(* The verdicts are not read by those who judge.                           *)
LEMMA JudgesRead ==
  ASSUME NEW r, NEW q, Changes(r, q, JudgesWrite), Shown \subseteq DOMAIN q
  PROVE  /\ r.measured = q.measured /\ r.at = q.at /\ r.seen = q.seen
         /\ r.deep = q.deep /\ r.enumeration = q.enumeration
         /\ \A policy : PolicyFailures(r, policy) = PolicyFailures(q, policy)
         /\ \A profile : Lapses(profile, r) = Lapses(profile, q)
<1>1. /\ r.measured = q.measured /\ r.at = q.at /\ r.seen = q.seen
      /\ r.deep = q.deep /\ r.enumeration = q.enumeration
      /\ r.cipher_preference = q.cipher_preference /\ r.certificate = q.certificate
  BY DEF Changes, Shown, JudgesWrite
<1>2. /\ r.tls_version = q.tls_version /\ r.forward_secrecy = q.forward_secrecy
      /\ r.hostname_match = q.hostname_match /\ r.offered_none = q.offered_none
      /\ r.chain_audit = q.chain_audit /\ r.revoked = q.revoked /\ r.cipher = q.cipher
  BY DEF Changes, Shown, JudgesWrite
<1>3. ASSUME NEW policy
      PROVE  PolicyFailures(r, policy) = PolicyFailures(q, policy)
  <2>1. ConnectionFailures(r, policy) = ConnectionFailures(q, policy)
    BY <1>1, <1>2 DEF ConnectionFailures
  <2>2. \A c : CertificateFailures(r, c, policy) = CertificateFailures(q, c, policy)
    BY <1>1, <1>2 DEF CertificateFailures
  <2>3. QED
    BY <1>1, <2>1, <2>2 DEF PolicyFailures
<1>4. ASSUME NEW profile
      PROVE  Lapses(profile, r) = Lapses(profile, q)
  <2>1. Versions(r) = Versions(q)
    BY <1>1 DEF Versions
  <2>2. VersionViolations(profile, r) = VersionViolations(profile, q)
    BY <2>1 DEF VersionViolations
  <2>3. CipherViolations(profile, r) = CipherViolations(profile, q)
    BY <1>1 DEF CipherViolations
  <2>4. GroupViolations(profile, r) = GroupViolations(profile, q)
    BY <1>1 DEF GroupViolations
  <2>5. QED
    BY <1>1, <2>2, <2>3, <2>4 DEF Lapses, Violations
<1>5. QED
  BY <1>1, <1>3, <1>4

(* The verdicts on a weaker endpoint are no better than those on what was  *)
(* told of the stronger.                                                   *)
LEMMA ToldIsNoWorse ==
  ASSUME NEW t \in Targets, NEW r, NEW e, Told(t, e, r), NEW w \in Weakened(e),
         NEW p, p = Seen(t, w, r.at)
  PROVE  NoBetter(Graded(p), r)
<1>1. PICK q : q = Seen(t, e, r.at)
  OBVIOUS
<1>. PICK at : at = r.at
  OBVIOUS
<1>0. p = Seen(t, w, at) /\ q = Seen(t, e, at)
  BY <1>1
<1>2. /\ e \in Presents[t] /\ Negotiable(e) # {} /\ Changes(r, q, JudgesWrite)
      /\ r.grade \in {Ungraded, grade_certificate(q)}
      /\ r.compliant \in {{}, {PolicyFailures(q, options.policy) = {}}}
  BY <1>1 DEF Told
<1>3. Lower(w, e) /\ Spoiled(w, e) /\ Usual(e)
  BY <1>2, WeakenedFalls DEF Usual
<1>4. WorseScan(p, q)
  BY <1>1, <1>3, WeakerScan
<1>5. LeavesFall(p.certificate, q.certificate)
  BY <1>1, <1>3, CertificateFalls
<1>6. /\ WorseConnection(p, q)
      /\ \/ options.verify_chain /\ w.chain = "untrusted"
         \/ q.chain_audit.missing_intermediate => p.chain_audit.missing_intermediate
  BY <1>1, <1>2, <1>3, <1>5, ConnectionFalls
<1>7. PICK weak : weak = Graded(p)
  OBVIOUS
<1>8. /\ Changes(weak, p, JudgesWrite)
      /\ weak.grade \in {Ungraded, grade_certificate(p)}
      /\ weak.measured = TRUE /\ {"failures", "compliant"} \subseteq DOMAIN weak
  <2>1. Shown \cup JudgesWrite \subseteq DOMAIN p /\ p.grade = Ungraded /\ p.measured = TRUE
    <3>1. Shown \cup JudgesWrite \subseteq DOMAIN p
      BY SeenHas
    <3>2. p.measured = TRUE
      BY ScannedShows
    <3>3. p.grade = Ungraded
      BY ScannedUnjudged
    <3>4. QED
      BY <3>1, <3>2, <3>3
  <2>2. QED
    BY <1>7, <2>1 DEF Graded, Changes, JudgesWrite, Shown
<1>9. /\ r.deep = q.deep /\ r.enumeration = q.enumeration
      /\ \A profile : Lapses(profile, r) = Lapses(profile, q)
  BY <1>1, <1>2, SeenHas, JudgesRead
<1>10. /\ weak.deep = p.deep /\ weak.enumeration = p.enumeration
       /\ \A policy : PolicyFailures(weak, policy) = PolicyFailures(p, policy)
       /\ \A profile : Lapses(profile, weak) = Lapses(profile, p)
  BY <1>8, SeenHas, JudgesRead
<1>11. (r.grade # Ungraded /\ weak.grade # Ungraded) => weak.grade >= r.grade
  <2>1. SUFFICES ASSUME r.grade # Ungraded, weak.grade # Ungraded
                 PROVE  grade_certificate(q) <= grade_certificate(p)
    BY <1>2, <1>8
  <2>2. grade_certificate(q) # Ungraded /\ grade_certificate(p) # Ungraded
    BY <1>2, <1>8, <2>1
  <2>3. QED
    BY <1>4, <1>5, <1>6, <2>2, WeakerGrade
<1>12. r.compliant = {FALSE} => evaluate_policy(weak, options.policy).compliant = {FALSE}
  <2>1. SUFFICES ASSUME r.compliant = {FALSE}
                 PROVE  PolicyFailures(weak, options.policy) # {}
    BY <1>8 DEF evaluate_policy
  <2>2. PolicyFailures(q, options.policy) # {}
    BY <1>2, <2>1
  <2>3. PICK policy : policy = options.policy
    OBVIOUS
  <2>4. PolicyFailures(q, policy) \subseteq PolicyFailures(p, policy)
    BY <1>5, <1>6, FailuresStay DEF LeavesFall
  <2>5. QED
    BY <1>10, <2>2, <2>3, <2>4
<1>13. r.deep.weak_dh = {TRUE} => weak.deep.weak_dh = {TRUE}
  <2>1. GroupIsWeak(q) => GroupIsWeak(p)
    BY <1>0, <1>3, GroupFalls
  <2>2. QED
    BY <1>9, <1>10, <2>1 DEF GroupIsWeak
<1>14. q.enumeration.ciphers \subseteq p.enumeration.ciphers
  <2>1. /\ q.enumeration.ciphers = IF options.enumerate THEN Accepted(e) ELSE {}
        /\ p.enumeration.ciphers = IF options.enumerate THEN Accepted(w) ELSE {}
    BY <1>1, ScannedOffers
  <2>2. QED
    BY <1>3, <2>1, StillTaken
<1>15. \A x \in weakest_supported_cipher_strength(r.enumeration) :
         \E y \in weakest_supported_cipher_strength(weak.enumeration) : y <= x
  <2>1. PICK i, j : i = weak.enumeration /\ j = r.enumeration
    OBVIOUS
  <2>2. j.ciphers \subseteq i.ciphers
    BY <1>9, <1>10, <1>14, <2>1
  <2>3. QED
    BY <2>1, <2>2, StrengthsFall
<1>16. ASSUME NEW guide \in UNION Fetched, NEW name \in DOMAIN guide,
              Lapses(guide[name], r) # {}
       PROVE  Lapses(guide[name], weak) # {}
  <2>1. Reasonable(guide[name])
    BY GuidelinesAssumption DEF Reasonable
  <2>2. SmallerGroup(p, q) /\ Versions(q) \subseteq Versions(p)
    BY <1>4 DEF WorseScan, OlderVersions
  <2>3. q.deep.ciphers \subseteq p.deep.ciphers
    <3>1. /\ q.deep.ciphers = IF options.deep THEN TLS13Ciphers(e) ELSE {}
          /\ p.deep.ciphers = IF options.deep THEN TLS13Ciphers(w) ELSE {}
      BY <1>1, ScannedOffers
    <3>2. TLS13Ciphers(w) = TLS13Ciphers(e)
      BY <1>3 DEF TLS13Ciphers, Learned, Lower, Spoiled
    <3>3. QED
      BY <3>1, <3>2
  <2>4. q.cipher_preference = {FALSE} => p.cipher_preference = {FALSE}
    <3>1. w.favourite = e.favourite
      BY <1>3 DEF Spoiled
    <3>2. Unordered(q) => Unordered(p)
      BY <1>0, <1>3, <3>1, PreferenceStays
    <3>3. QED
      BY <3>2 DEF Unordered
  <2>5. \A c \in q.certificate : \E d \in p.certificate : SpoiledLeaf(d, c)
    BY <1>5 DEF LeavesFall
  <2>6. Lapses(guide[name], q) # {}
    BY <1>9, <1>16
  <2>7. Lapses(guide[name], p) # {}
    BY <1>14, <2>1, <2>2, <2>3, <2>4, <2>5, <2>6, LapsesStay
  <2>8. QED
    BY <1>10, <2>7
<1>17. NoBetter(weak, r)
  BY <1>11, <1>12, <1>13, <1>15, <1>16 DEF NoBetter
<1>18. QED
  BY <1>7, <1>17

(* What a scan shows depends on the options, which a job never changes.    *)
LEMMA SeenStays ==
  ASSUME options' = options, NEW t, NEW e, NEW at
  PROVE  Seen(t, e, at)' = Seen(t, e, at)
BY DEF Seen, Scanned, Observed

(* So what was told of an endpoint stays true.                             *)
LEMMA ToldStays ==
  ASSUME options' = options, NEW t, NEW e, NEW r
  PROVE  Told(t, e, r)' <=> Told(t, e, r)
BY SeenStays DEF Told

(* What the check tells of an endpoint, and what is left of it once it is  *)
(* audited and judged.                                                     *)
LEMMA ResultIsTold ==
  ASSUME NEW t \in Targets, NEW x \in Presents[t], NEW r, r = Result(t, x),
         NEW e \in r.seen
  PROVE  Told(t, e, r)
<1>1. PICK at : at = AsOf
  OBVIOUS
<1>2. CASE Negotiable(x) = {}
  <2>1. PICK u : u = Unmeasured(at)
    OBVIOUS
  <2>2. "seen" \in DOMAIN u /\ u.seen = {}
    BY <2>1 DEF Unmeasured
  <2>3. PICK s : s = Scanned(u, x)
    OBVIOUS
  <2>4. "seen" \in DOMAIN s /\ s.seen = {}
    BY <2>2, <2>3 DEF Scanned
  <2>5. r = Graded(s)
    BY <1>1, <1>2, <2>1, <2>3 DEF Result
  <2>6. r.seen = {}
    BY <2>4, <2>5 DEF Graded
  <2>7. QED
    BY <2>6
<1>3. CASE Negotiable(x) # {}
  <2>1. PICK q : q = Seen(t, x, at)
    OBVIOUS
  <2>2. r = Graded(q)
    BY <1>1, <1>3, <2>1 DEF Result, Seen
  <2>3. Shown \cup JudgesWrite \subseteq DOMAIN q
    BY <2>1, SeenHas
  <2>4. q.at = at /\ q.seen = {x} /\ q.grade = Ungraded /\ q.compliant = {}
    BY <2>1, ScannedUnjudged
  <2>5. Changes(r, q, JudgesWrite)
    BY <2>2, <2>3, GradedChanges DEF Changes, JudgesWrite
  <2>6. r.at = at /\ r.seen = {x} /\ r.compliant = {}
    BY <2>2, <2>3, <2>4 DEF Graded, Shown, JudgesWrite
  <2>7. r.grade \in {Ungraded, grade_certificate(q)}
    BY <2>2, <2>3, <2>4 DEF Graded, JudgesWrite
  <2>8. e = x /\ q = Seen(t, e, r.at)
    BY <2>1, <2>6
  <2>9. QED
    BY <1>3, <2>5, <2>6, <2>7, <2>8 DEF Told
<1>4. QED
  BY <1>2, <1>3

(* The audit against a profile changes only its own fields.                *)
LEMMA AuditIsTold ==
  ASSUME NEW t, NEW r, NEW found, NEW error, NEW s, s = Profiled(r, found, error),
         "seen" \in DOMAIN r,
         \A e \in r.seen : Told(t, e, r),
         NEW e \in s.seen
  PROVE  Told(t, e, s)
<1>1. Changes(s, r, {"profile_audit"})
  BY ProfiledChanges
<1>2. s.seen = r.seen
  BY <1>1 DEF Changes
<1>3. Told(t, e, r)
  BY <1>2
<1>4. PICK q : q = Seen(t, e, r.at)
  OBVIOUS
<1>5. Shown \cup JudgesWrite \subseteq DOMAIN q /\ DOMAIN r = DOMAIN q
  BY <1>3, <1>4, SeenHas DEF Told, Changes
<1>6. s.at = r.at /\ s.grade = r.grade /\ s.compliant = r.compliant
  BY <1>1, <1>5 DEF Changes, Shown, JudgesWrite
<1>7. Changes(s, q, JudgesWrite)
  BY <1>1, <1>3, <1>4 DEF Told, Changes, JudgesWrite
<1>8. QED
  BY <1>3, <1>4, <1>6, <1>7 DEF Told

(* So does the policy, and its verdict is that of the scan.                *)
LEMMA VerdictIsTold ==
  ASSUME NEW t, NEW r, NEW s, s = evaluate_policy(r, options.policy),
         "seen" \in DOMAIN r,
         \A e \in r.seen : Told(t, e, r),
         NEW e \in s.seen
  PROVE  Told(t, e, s)
<1>1. Changes(s, r, {"failures", "compliant"})
  BY JudgedChanges
<1>2. s.seen = r.seen
  BY <1>1 DEF Changes
<1>3. Told(t, e, r)
  BY <1>2
<1>4. PICK q : q = Seen(t, e, r.at)
  OBVIOUS
<1>5. Shown \cup JudgesWrite \subseteq DOMAIN q /\ DOMAIN r = DOMAIN q
  BY <1>3, <1>4, SeenHas DEF Told, Changes
<1>6. s.at = r.at /\ s.grade = r.grade
  BY <1>1, <1>5 DEF Changes, Shown, JudgesWrite
<1>7. Changes(s, q, JudgesWrite)
  BY <1>1, <1>3, <1>4 DEF Told, Changes, JudgesWrite
<1>8. PolicyFailures(r, options.policy) = PolicyFailures(q, options.policy)
  <2>1. Changes(r, q, JudgesWrite)
    BY <1>3, <1>4 DEF Told
  <2>2. QED
    BY <1>5, <2>1, JudgesRead
<1>9. s.compliant \in {r.compliant, {PolicyFailures(q, options.policy) = {}}}
  <2>1. "compliant" \in DOMAIN r
    BY <1>5 DEF JudgesWrite
  <2>2. QED
    BY <1>8, <2>1 DEF evaluate_policy
<1>10. s.compliant \in {{}, {PolicyFailures(q, options.policy) = {}}}
  BY <1>3, <1>4, <1>9 DEF Told
<1>11. QED
  BY <1>3, <1>4, <1>6, <1>7, <1>10 DEF Told

(* A result has the field.                                                 *)
LEMMA ResultIsSeen ==
  ASSUME NEW t, NEW e
  PROVE  "seen" \in DOMAIN Result(t, e)
BY DEF Result, Graded, Scanned, Observed, Unmeasured

(* At first nothing has been seen.                                         *)
LEMMA InitSeen == Init => SeenInv
<1>. SUFFICES ASSUME Init
              PROVE  SeenInv
  OBVIOUS
<1>1. result = [t \in Targets |-> result[t]] /\ \A t \in Targets : result[t] = {}
  BY DEF Init
<1>2. QED
  BY <1>1 DEF SeenInv

(* One step per action of a job: each result stays what is told of the     *)
(* endpoints it has seen.                                                  *)
LEMMA NextSeen == SeenInv /\ [Next]_vars => SeenInv'
<1>. SUFFICES ASSUME SeenInv, [Next]_vars
              PROVE  SeenInv'
  OBVIOUS
<1>1. ASSUME UNCHANGED <<options, result>>
      PROVE  SeenInv'
  <2>1. \A t, e, r : Told(t, e, r)' <=> Told(t, e, r)
    BY <1>1, ToldStays
  <2>2. QED
    BY <1>1, <2>1 DEF SeenInv
<1>2. CASE Launch
  BY <1>1, <1>2 DEF Launch
<1>3. ASSUME NEW t \in Targets, Check(t)
      PROVE  SeenInv'
  <2>1. PICK x \in Presents[t] : \E own, error :
          CheckedAs(t, Profiled(Result(t, x), own, error))
    BY <1>3, CheckLeaves DEF SeenInv
  <2>2. PICK own, error : CheckedAs(t, Profiled(Result(t, x), own, error))
    BY <2>1
  <2>3. PICK r, s : r = Result(t, x) /\ s = Profiled(r, own, error)
    OBVIOUS
  <2>4. "seen" \in DOMAIN r /\ \A e \in r.seen : Told(t, e, r)
    BY <2>3, ResultIsTold, ResultIsSeen
  <2>5. \A e \in s.seen : Told(t, e, s)
    BY <2>3, <2>4, AuditIsTold
  <2>6. "seen" \in DOMAIN s
    BY <2>3, <2>4, ProfiledChanges DEF Changes
  <2>7. /\ result' = [u \in Targets |-> result'[u]]
        /\ result'[t] = {s} /\ options' = options
        /\ \A u \in Targets \ {t} : result'[u] = result[u]
    BY <2>2, <2>3 DEF CheckedAs
  <2>8. \A u, e, q : Told(u, e, q)' <=> Told(u, e, q)
    BY <2>7, ToldStays
  <2>9. \A u \in Targets : \A q \in result'[u] :
          "seen" \in DOMAIN q /\ \A e \in q.seen : Told(u, e, q)
    BY <2>5, <2>6, <2>7 DEF SeenInv
  <2>10. QED
    BY <2>7, <2>8, <2>9 DEF SeenInv
<1>4. CASE Judge
  <2>1. /\ result' = [t \in Targets |->
                        {evaluate_policy(r, options.policy) : r \in result[t]}]
        /\ options' = options
    BY <1>4 DEF Judge
  <2>2. ASSUME NEW t \in Targets, NEW r \in result[t],
               NEW s, s = evaluate_policy(r, options.policy)
        PROVE  "seen" \in DOMAIN s /\ \A e \in s.seen : Told(t, e, s)
    <3>1. "seen" \in DOMAIN r /\ \A e \in r.seen : Told(t, e, r)
      BY DEF SeenInv
    <3>2. \A e \in s.seen : Told(t, e, s)
      BY <2>2, <3>1, VerdictIsTold
    <3>3. "seen" \in DOMAIN s
      BY <2>2, <3>1, JudgedChanges DEF Changes
    <3>4. QED
      BY <3>2, <3>3
  <2>3. \A t \in Targets : \A s \in result'[t] :
          "seen" \in DOMAIN s /\ \A e \in s.seen : Told(t, e, s)
    BY <2>1, <2>2
  <2>4. \A t, e, r : Told(t, e, r)' <=> Told(t, e, r)
    BY <2>1, ToldStays
  <2>5. QED
    BY <2>1, <2>3, <2>4 DEF SeenInv
<1>5. CASE Gate
  BY <1>1, <1>5 DEF Gate, Ends
<1>6. CASE Interrupt
  BY <1>1, <1>6 DEF Interrupt, Ends
<1>7. CASE Break
  BY <1>1, <1>7 DEF Break, Ends
<1>8. CASE Later
  BY <1>1, <1>8 DEF Later
<1>9. CASE UNCHANGED vars
  BY <1>1, <1>9 DEF vars
<1>10. QED
  BY <1>2, <1>3, <1>4, <1>5, <1>6, <1>7, <1>8, <1>9 DEF Next

(* Whatever the endpoints, the suites and the guidelines: one that becomes *)
(* weaker in a single way gets no better grade, and passes no policy and   *)
(* no profile it failed before.                                            *)
THEOREM WeakerIsNeverBetter == Spec => []WeakeningNeverHelps
<1>1. Spec => []SeenInv
  BY InitSeen, NextSeen, PTL DEF Spec
<1>2. ASSUME SeenInv
      PROVE  WeakeningNeverHelps
  <2>1. SUFFICES ASSUME NEW t \in Targets, NEW r \in result[t], NEW e \in r.seen,
                        NEW w \in Weakened(e)
                 PROVE  NoBetter(Graded(Scanned(Observed(t, w, r.at), w)), r)
    BY DEF WeakeningNeverHelps
  <2>2. Told(t, e, r)
    BY <1>2 DEF SeenInv
  <2>3. PICK p : p = Seen(t, w, r.at)
    OBVIOUS
  <2>4. NoBetter(Graded(p), r)
    BY <2>2, <2>3, ToldIsNoWorse
  <2>5. QED
    BY <2>3, <2>4 DEF Seen
<1>3. QED
  BY <1>1, <1>2, PTL

================================================================================
