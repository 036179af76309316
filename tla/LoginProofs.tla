----------------------------- MODULE LoginProofs -----------------------------
(***************************************************************************)
(* Theorems about Login, for every finite set of workers and every limit.  *)
(***************************************************************************)
EXTENDS Login, Sums

-----------------------------------------------------------------------------
(* Type correctness. *)

LEMMA InitTyped == Init => TypeOK
BY MaxFailedLoginsAssumption DEF Init, TypeOK, Unread, LockedUntil

LEMMA StepTyped ==
  ASSUME TypeOK, [Next]_vars
  PROVE  TypeOK'
<1> USE MaxFailedLoginsAssumption DEF TypeOK, row, trail, Unread, LockedUntil
<1>1. ASSUME NEW p \in Workers, BeginLogin(p) PROVE TypeOK'
  BY <1>1 DEF BeginLogin, MayLogin
<1>2. ASSUME NEW p \in Workers, FailLogin(p) PROVE TypeOK'
  <2>1. /\ seen[p].count \in 0..(MaxFailedLogins - 1)
        /\ Counted(p) \in 0..(MaxFailedLogins - 1)
    BY <1>2 DEF FailLogin, MustLock, Counted
  <2> QED BY <2>1, <1>2 DEF FailLogin, Close
<1>3. ASSUME NEW p \in Workers, LockAccount(p) PROVE TypeOK'
  BY <1>3 DEF LockAccount, Close
<1>4. ASSUME NEW p \in Workers, AcceptLogin(p) PROVE TypeOK'
  BY <1>4 DEF AcceptLogin, Close
<1>5. ASSUME NEW p \in Workers, Crash(p) PROVE TypeOK'
  BY <1>5 DEF Crash, Close
<1>6. CASE LockoutEnds
  BY <1>6 DEF LockoutEnds
<1>7. CASE SetActive
  BY <1>7 DEF SetActive
<1>8. CASE UNCHANGED vars
  BY <1>8 DEF vars
<1> QED BY <1>1, <1>2, <1>3, <1>4, <1>5, <1>6, <1>7, <1>8 DEF Next

\* Every reachable state is well typed; in particular the count that is written
\* back never reaches the limit, whatever was read before whatever else.
THEOREM LoginTyped == Spec => []TypeOK
<1>1. TypeOK /\ [Next]_vars => TypeOK'
  BY StepTyped
<1> QED BY InitTyped, <1>1, PTL DEF Spec

-----------------------------------------------------------------------------
(* What a lockout still answers. *)

Verifying == {p \in Workers : pc[p] = "verify"}

\* While the lockout lasts, what it answered and what it may still answer
\* together stay below the number of workers.
Spent == locked_until = "ahead" => late + Cardinality(Verifying) < Cardinality(Workers)

LEMMA VerifyingFinite ==
  /\ IsFiniteSet(Verifying) /\ Cardinality(Verifying) \in Nat
  /\ Cardinality(Workers) \in Nat
  /\ Cardinality(Verifying) <= Cardinality(Workers)
<1>1. Verifying \in SUBSET Workers
  BY DEF Verifying
<1> QED BY <1>1, WorkersAssumption, FS_Subset, FS_CardinalityType

\* The end of an attempt takes one away.
LEMMA VerifyingShrinks ==
  ASSUME TypeOK, NEW p \in Workers, pc[p] = "verify", Close(p)
  PROVE  Cardinality(Verifying') = Cardinality(Verifying) - 1
<1>1. Verifying' = Verifying \ {p} /\ p \in Verifying
  BY DEF TypeOK, Close, Verifying
<1> QED BY <1>1, VerifyingFinite, FS_RemoveElement

LEMMA StepSpent ==
  ASSUME TypeOK, Spent, [Next]_vars
  PROVE  Spent'
<1> USE VerifyingFinite
<1>n. late \in Nat
  BY DEF TypeOK
<1>1. ASSUME NEW p \in Workers, BeginLogin(p) PROVE Spent'
  BY <1>1 DEF BeginLogin, MayLogin, Spent, row
<1>2. ASSUME NEW p \in Workers, FailLogin(p) PROVE Spent'
  <2>1. Cardinality(Verifying') = Cardinality(Verifying) - 1
    BY <1>2, VerifyingShrinks DEF FailLogin
  <2> QED BY <1>n, <2>1, <1>2 DEF FailLogin, Spent
<1>3. ASSUME NEW p \in Workers, LockAccount(p) PROVE Spent'
  <2>1. Cardinality(Verifying') = Cardinality(Verifying) - 1
    BY <1>3, VerifyingShrinks DEF LockAccount
  <2> QED BY <1>n, <2>1, <1>3 DEF LockAccount, Spent
<1>4. ASSUME NEW p \in Workers, AcceptLogin(p) PROVE Spent'
  <2>1. Cardinality(Verifying') = Cardinality(Verifying) - 1
    BY <1>4, VerifyingShrinks DEF AcceptLogin
  <2>2. locked_until' = "ahead" => locked_until = "ahead"
    BY <1>4 DEF AcceptLogin
  <2> QED BY <1>n, <2>1, <2>2, <1>4 DEF AcceptLogin, Spent
<1>5. ASSUME NEW p \in Workers, Crash(p) PROVE Spent'
  <2>1. Cardinality(Verifying') = Cardinality(Verifying) - 1
    BY <1>5, VerifyingShrinks DEF Crash
  <2> QED BY <1>n, <2>1, <1>5 DEF Crash, Spent, row, trail
<1>6. CASE LockoutEnds
  BY <1>6 DEF LockoutEnds, Spent
<1>7. CASE SetActive
  BY <1>7 DEF SetActive, Spent, Verifying, trail
<1>8. CASE UNCHANGED vars
  BY <1>8 DEF vars, row, trail, Spent, Verifying
<1> QED BY <1>1, <1>2, <1>3, <1>4, <1>5, <1>6, <1>7, <1>8 DEF Next

\* While a lockout lasts, fewer attempts are answered than there are workers:
\* only those that had read the row before it was set.
THEOREM LockoutAnswersFew == Spec => []FewLateAnswers
<1>1. Init => TypeOK /\ Spent
  BY InitTyped DEF Init, Spent
<1>2. TypeOK /\ Spent /\ [Next]_vars => TypeOK' /\ Spent'
  BY StepTyped, StepSpent
<1>3. TypeOK /\ Spent => FewLateAnswers
  BY VerifyingFinite DEF TypeOK, Spent, FewLateAnswers
<1> QED BY <1>1, <1>2, <1>3, PTL DEF Spec

-----------------------------------------------------------------------------
(* How long brute force may go on. *)

Lesser(x, y) == IF x <= y THEN x ELSE y

\* The count a worker would go on from: what it read, if that is less.
Reads(p) == IF pc[p] = "verify" THEN Lesser(seen[p].count, failed_login_count)
                                ELSE failed_login_count

AtLeast(l) == {p \in Workers : Reads(p) >= l}
Profile == [l \in Levels |-> Cardinality(AtLeast(l))]

\* Profiles in lexicographic order, the lowest level first, and those that come
\* before the present one.
Before(f, g) == \E l \in Levels : f[l] < g[l] /\ \A k \in Levels : k < l => f[k] = g[k]
Passed == {f \in Profiles : Before(f, Profile)}

\* A recorded failure moves the profile up: one worker more is at the level it
\* writes, and none is lost at the levels below.  A profile is not seen twice, so
\* there are no more failures than profiles left behind.
FailuresPass == failures <= Cardinality(Passed)

LEMMA AtLeastFinite ==
  ASSUME NEW l
  PROVE  /\ IsFiniteSet(AtLeast(l)) /\ IsFiniteSet(AtLeast(l)')
         /\ Cardinality(AtLeast(l)) \in 0..Cardinality(Workers)
         /\ Cardinality(AtLeast(l)') \in 0..Cardinality(Workers)
<1>1. AtLeast(l) \in SUBSET Workers /\ AtLeast(l)' \in SUBSET Workers
  BY DEF AtLeast
<1>2. Cardinality(Workers) \in Nat
  BY WorkersAssumption, FS_CardinalityType
<1>3. IsFiniteSet(AtLeast(l)) /\ Cardinality(AtLeast(l)) <= Cardinality(Workers)
  BY <1>1, WorkersAssumption, FS_Subset
<1>4. IsFiniteSet(AtLeast(l)') /\ Cardinality(AtLeast(l)') <= Cardinality(Workers)
  BY <1>1, WorkersAssumption, FS_Subset
<1>5. Cardinality(AtLeast(l)) \in Nat
  BY <1>3, FS_CardinalityType
<1>6. Cardinality(AtLeast(l)') \in Nat
  BY <1>4, FS_CardinalityType
<1> QED BY <1>2, <1>3, <1>4, <1>5, <1>6

LEMMA ReadsTyped ==
  ASSUME TypeOK, NEW p \in Workers
  PROVE  Reads(p) \in 0..(MaxFailedLogins - 1)
BY DEF TypeOK, Reads, Lesser

LEMMA ProfileIsProfile == TypeOK => Profile \in Profiles
<1> SUFFICES ASSUME TypeOK PROVE Profile \in Profiles
  OBVIOUS
<1>1. Profile \in [Levels -> 0..Cardinality(Workers)]
  BY AtLeastFinite DEF Profile
<1>2. ASSUME NEW i \in Levels, NEW j \in Levels, i <= j PROVE Profile[j] <= Profile[i]
  <2>1. i \in Nat /\ j \in Nat
    BY MaxFailedLoginsAssumption DEF Levels
  <2>2. AtLeast(j) \in SUBSET AtLeast(i)
    BY <1>2, <2>1, ReadsTyped, MaxFailedLoginsAssumption DEF AtLeast
  <2> QED BY <2>2, AtLeastFinite, FS_Subset DEF Profile
<1> QED BY <1>1, <1>2 DEF Profiles

\* The same of the state after a step.
LEMMA NextProfile == TypeOK' => Profile' \in Profiles
<1>1. (TypeOK => Profile \in Profiles)'
  BY ProfileIsProfile, PTL
<1> QED BY <1>1 DEF Profiles

LEMMA NextReads == TypeOK' => \A p \in Workers : Reads(p)' \in Int
<1>1. TypeOK => \A p \in Workers : Reads(p) \in Int
  BY ReadsTyped, MaxFailedLoginsAssumption
<1>2. (TypeOK => \A p \in Workers : Reads(p) \in Int)'
  BY <1>1, PTL
<1> QED BY <1>2

\* Finitely many levels and finitely many workers make finitely many profiles.
LEMMA ProfilesFinite == IsFiniteSet(Profiles)
<1> DEFINE Values == 0..Cardinality(Workers)
           Graph == [f \in Profiles |-> {<<l, f[l]>> : l \in Levels}]
<1>1. Cardinality(Workers) \in Nat
  BY WorkersAssumption, FS_CardinalityType
<1>2. IsFiniteSet(Levels) /\ IsFiniteSet(Values)
  BY <1>1, MaxFailedLoginsAssumption, FS_Interval DEF Levels
<1>3. IsFiniteSet(Levels \X Values)
  BY <1>2, FS_Product
<1>4. IsFiniteSet(SUBSET (Levels \X Values))
  BY <1>3, FS_SUBSET
<1>5. Graph \in [Profiles -> SUBSET (Levels \X Values)]
  BY DEF Profiles
<1>6. ASSUME NEW f \in Profiles, NEW g \in Profiles, Graph[f] = Graph[g] PROVE f = g
  <2>1. ASSUME NEW l \in Levels PROVE f[l] = g[l]
    <3>1. <<l, f[l]>> \in Graph[g]
      BY <1>6
    <3> QED BY <3>1
  <2> QED BY <2>1 DEF Profiles
<1>7. Graph \in Injection(Profiles, SUBSET (Levels \X Values))
  BY <1>5, <1>6 DEF Injection, IsInjective
<1> QED BY <1>4, <1>7, FS_Injection

LEMMA PassedFinite ==
  /\ IsFiniteSet(Passed) /\ IsFiniteSet(Passed')
  /\ Cardinality(Passed) \in Nat /\ Cardinality(Passed') \in Nat
<1>1. Passed \in SUBSET Profiles /\ Passed' \in SUBSET Profiles
  BY DEF Passed
<1>2. IsFiniteSet(Passed) /\ IsFiniteSet(Passed')
  BY <1>1, ProfilesFinite, FS_Subset
<1> QED BY <1>2, FS_CardinalityType

\* The lowest level at which two profiles differ.
LEMMA LowestDifference ==
  ASSUME NEW f \in Profiles, NEW g \in Profiles, NEW l \in Levels, f[l] # g[l]
  PROVE  \E d \in Levels : /\ d <= l /\ f[d] # g[d]
                           /\ \A k \in Levels : k < d => f[k] = g[k]
<1> DEFINE D == {d \in Levels : f[d] # g[d]}
<1>1. D \in SUBSET Nat /\ l \in D
  BY MaxFailedLoginsAssumption DEF Levels
<1>2. PICK d \in D : \A k \in D : d <= k
  BY <1>1, Least
<1> QED BY <1>1, <1>2

\* If the second profile is ahead at some level and not behind at any lower one,
\* then it has passed the first and all that the first has passed.
LEMMA Ahead ==
  ASSUME NEW f \in Profiles, NEW g \in Profiles, NEW l \in Levels, f[l] < g[l],
         \A k \in Levels : k < l => f[k] <= g[k]
  PROVE  Before(f, g) /\ \A e \in Profiles : Before(e, f) => Before(e, g)
<1>0. /\ Levels \in SUBSET Nat
      /\ \A h \in Profiles, k \in Levels : h[k] \in Nat
  <2>1. Cardinality(Workers) \in Nat
    BY WorkersAssumption, FS_CardinalityType
  <2>2. Levels \in SUBSET Nat
    BY MaxFailedLoginsAssumption DEF Levels
  <2>3. ASSUME NEW h \in Profiles, NEW k \in Levels PROVE h[k] \in Nat
    <3>1. h[k] \in 0..Cardinality(Workers)
      BY DEF Profiles
    <3> QED BY <2>1, <3>1
  <2> QED BY <2>2, <2>3
<1>1. PICK d \in Levels : /\ d <= l /\ f[d] # g[d]
                          /\ \A k \in Levels : k < d => f[k] = g[k]
  <2>1. f[l] # g[l]
    BY <1>0
  <2> QED BY <2>1, LowestDifference
<1>2. f[d] < g[d]
  BY <1>0, <1>1
<1>3. Before(f, g)
  BY <1>1, <1>2 DEF Before
<1>4. ASSUME NEW e \in Profiles, Before(e, f) PROVE Before(e, g)
  <2>1. PICK c \in Levels : e[c] < f[c] /\ \A k \in Levels : k < c => e[k] = f[k]
    BY <1>4 DEF Before
  <2>2. CASE c <= d
    <3>1. e[c] < g[c]
      BY <1>0, <1>1, <1>2, <2>1, <2>2
    <3>2. \A k \in Levels : k < c => e[k] = g[k]
      BY <1>0, <1>1, <2>1, <2>2
    <3> QED BY <3>1, <3>2 DEF Before
  <2>3. CASE d < c
    <3>1. e[d] < g[d]
      BY <1>2, <2>1, <2>3
    <3>2. \A k \in Levels : k < d => e[k] = g[k]
      BY <1>0, <1>1, <2>1, <2>3
    <3> QED BY <3>1, <3>2 DEF Before
  <2> QED BY <1>0, <2>2, <2>3
<1> QED BY <1>3, <1>4

\* A larger profile leaves no fewer behind.
LEMMA PassedGrows ==
  ASSUME TypeOK, TypeOK',
         \A k \in Levels : Cardinality(AtLeast(k)) <= Cardinality(AtLeast(k)')
  PROVE  Cardinality(Passed) <= Cardinality(Passed')
<1>1. Profile \in Profiles /\ Profile' \in Profiles
  BY ProfileIsProfile, NextProfile
<1>2. \A k \in Levels : Profile[k] <= Profile'[k]
  BY DEF Profile
<1>3. \A k \in Levels : Profile[k] \in Int /\ Profile'[k] \in Int
  BY AtLeastFinite DEF Profile
<1>4. CASE \E l \in Levels : Profile[l] # Profile'[l]
  <2>1. PICK l \in Levels : Profile[l] < Profile'[l]
    BY <1>2, <1>3, <1>4
  <2>2. \A e \in Profiles : Before(e, Profile) => Before(e, Profile')
    BY <1>1, <1>2, <2>1, Ahead
  <2>3. Passed \in SUBSET Passed'
    BY <2>2 DEF Passed
  <2> QED BY <2>3, PassedFinite, FS_Subset
<1>5. CASE \A l \in Levels : Profile[l] = Profile'[l]
  <2>1. Profile = Profile'
    BY <1>1, <1>5 DEF Profiles
  <2>2. Passed = Passed'
    BY <2>1 DEF Passed
  <2> QED BY <2>2, PassedFinite
<1> QED BY <1>4, <1>5

\* A failure leaves the present profile behind as well.
LEMMA FailPasses ==
  ASSUME TypeOK, TypeOK', NEW p \in Workers, FailLogin(p)
  PROVE  Cardinality(Passed) + 1 <= Cardinality(Passed')
<1>1. PICK c \in Levels : c = Counted(p)
  BY MaxFailedLoginsAssumption DEF TypeOK, FailLogin, MustLock, Counted, Levels
<1>0. /\ c \in Nat /\ Levels \in SUBSET Nat
      /\ seen[p].count \in Nat /\ c = seen[p].count + 1
      /\ failed_login_count' = c
  BY <1>1, MaxFailedLoginsAssumption DEF TypeOK, FailLogin, Counted, Levels
<1>2. ASSUME NEW k \in Levels, k <= c PROVE AtLeast(k) \in SUBSET (AtLeast(k)')
  <2> SUFFICES ASSUME NEW q \in Workers, Reads(q) >= k PROVE Reads(q)' >= k
    BY DEF AtLeast
  <2>1. failed_login_count \in Int /\ seen[q].count \in Int /\ k \in Int
    BY <1>0 DEF TypeOK
  <2>2. CASE q = p
    BY <1>0, <1>2, <2>1, <2>2 DEF TypeOK, FailLogin, Close, Reads
  <2>3. CASE q # p
    <3>1. pc'[q] = pc[q] /\ seen'[q] = seen[q]
      BY <2>3 DEF TypeOK, FailLogin, Close
    <3> QED BY <1>0, <1>2, <2>1, <3>1 DEF Reads, Lesser
  <2> QED BY <2>2, <2>3
<1>3. p \in AtLeast(c)' /\ p \notin AtLeast(c)
  BY <1>0 DEF TypeOK, FailLogin, Close, AtLeast, Reads, Lesser
<1>4. \A k \in Levels : k < c => Cardinality(AtLeast(k)) <= Cardinality(AtLeast(k)')
  <2> SUFFICES ASSUME NEW k \in Levels, k < c
               PROVE  Cardinality(AtLeast(k)) <= Cardinality(AtLeast(k)')
    OBVIOUS
  <2>1. AtLeast(k) \in SUBSET (AtLeast(k)')
    BY <1>0, <1>2
  <2> QED BY <2>1, AtLeastFinite, FS_Subset
<1>5. Cardinality(AtLeast(c)) < Cardinality(AtLeast(c)')
  BY <1>0, <1>2, <1>3, AtLeastFinite, FS_Subset
<1>6. Profile \in Profiles /\ Profile' \in Profiles
  BY ProfileIsProfile, NextProfile
<1>7. /\ Profile[c] < Profile'[c]
      /\ \A k \in Levels : k < c => Profile[k] <= Profile'[k]
  BY <1>0, <1>4, <1>5 DEF Profile
<1>8. /\ Before(Profile, Profile')
      /\ \A e \in Profiles : Before(e, Profile) => Before(e, Profile')
  BY <1>0, <1>6, <1>7, Ahead
<1>9. Profile \notin Passed
  <2>1. \A k \in Levels : ~(Profile[k] < Profile[k])
    BY AtLeastFinite DEF Profile
  <2> QED BY <2>1 DEF Passed, Before
<1>10. Passed \cup {Profile} \in SUBSET Passed'
  BY <1>6, <1>8 DEF Passed
<1>11. Cardinality(Passed \cup {Profile}) = Cardinality(Passed) + 1
  BY <1>9, PassedFinite, FS_AddElement
<1> QED BY <1>10, <1>11, PassedFinite, FS_Subset

\* A step that changes no profile and no failure.
LEMMA KeepsPassed ==
  ASSUME TypeOK, TypeOK', FailuresPass, failures' = failures,
         \A q \in Workers : Reads(q)' >= Reads(q)
  PROVE  FailuresPass'
<1>1. ASSUME NEW k \in Levels
      PROVE  Cardinality(AtLeast(k)) <= Cardinality(AtLeast(k)')
  <2>1. \A q \in Workers : Reads(q) \in Int /\ Reads(q)' \in Int
    BY ReadsTyped, NextReads
  <2>2. k \in Int
    BY MaxFailedLoginsAssumption DEF Levels
  <2>3. AtLeast(k) \in SUBSET AtLeast(k)'
    BY <2>1, <2>2 DEF AtLeast
  <2> QED BY <2>3, AtLeastFinite, FS_Subset
<1>2. Cardinality(Passed) <= Cardinality(Passed')
  BY <1>1, PassedGrows
<1>3. failures \in Int
  BY DEF TypeOK
<1> QED BY <1>2, <1>3, PassedFinite DEF FailuresPass

LEMMA StepFailuresPass ==
  ASSUME TypeOK, TypeOK', FailuresPass, [Next]_vars
  PROVE  FailuresPass'
<1>0. \A q \in Workers : Reads(q) \in Int /\ seen[q].count \in Int /\ failed_login_count \in Int
  BY ReadsTyped DEF TypeOK
<1>1. ASSUME NEW p \in Workers, BeginLogin(p) PROVE FailuresPass'
  <2>1. ASSUME NEW q \in Workers PROVE Reads(q)' >= Reads(q)
    BY <1>0, <1>1 DEF BeginLogin, Reads, Lesser, TypeOK, row
  <2> QED BY <1>1, <2>1, KeepsPassed DEF BeginLogin, trail
<1>2. ASSUME NEW p \in Workers, FailLogin(p) PROVE FailuresPass'
  <2>1. Cardinality(Passed) + 1 <= Cardinality(Passed')
    BY <1>2, FailPasses
  <2>2. failures' = failures + 1 /\ failures \in Int
    BY <1>2 DEF FailLogin, TypeOK
  <2> QED BY <2>1, <2>2, PassedFinite DEF FailuresPass
<1>3. ASSUME NEW p \in Workers, LockAccount(p) \/ AcceptLogin(p) PROVE FailuresPass'
  BY <1>3, PassedFinite DEF LockAccount, AcceptLogin, FailuresPass
<1>4. ASSUME NEW p \in Workers, Crash(p) PROVE FailuresPass'
  <2>1. ASSUME NEW q \in Workers PROVE Reads(q)' >= Reads(q)
    BY <1>0, <1>4 DEF Crash, Close, Reads, Lesser, TypeOK, row
  <2> QED BY <1>4, <2>1, KeepsPassed DEF Crash, trail
<1>5. CASE LockoutEnds \/ SetActive \/ UNCHANGED vars
  <2>1. /\ failures' = failures
        /\ UNCHANGED <<failed_login_count, pc, seen>>
    BY <1>5 DEF LockoutEnds, SetActive, vars, row, trail
  <2>2. ASSUME NEW q \in Workers PROVE Reads(q)' >= Reads(q)
    BY <1>0, <2>1 DEF Reads
  <2> QED BY <2>1, <2>2, KeepsPassed
<1> QED BY <1>1, <1>2, <1>3, <1>4, <1>5 DEF Next

\* However the wrong passwords overlap, fewer failures in a row are recorded than
\* there are profiles: the account locks, or somebody logs in, before.
THEOREM BruteForce == Spec => []BruteForceBounded
<1>1. Init => TypeOK /\ FailuresPass
  BY InitTyped, PassedFinite DEF Init, FailuresPass
<1>2. TypeOK /\ FailuresPass /\ [Next]_vars => TypeOK' /\ FailuresPass'
  BY StepTyped, StepFailuresPass
<1>3. TypeOK /\ FailuresPass => BruteForceBounded
  <2> SUFFICES ASSUME TypeOK, FailuresPass PROVE BruteForceBounded
    OBVIOUS
  <2>1. Passed \in SUBSET Profiles
    BY DEF Passed
  <2>2. Profile \in Profiles \ Passed
    <3>1. \A k \in Levels : ~(Profile[k] < Profile[k])
      BY AtLeastFinite DEF Profile
    <3> QED BY <3>1, ProfileIsProfile DEF Passed, Before
  <2>3. Cardinality(Passed) < Cardinality(Profiles)
    BY <2>1, <2>2, ProfilesFinite, FS_Subset, FS_CardinalityType
  <2>4. failures \in Int /\ Cardinality(Profiles) \in Int
    BY ProfilesFinite, FS_CardinalityType DEF TypeOK
  <2> QED BY <2>3, <2>4, PassedFinite DEF FailuresPass, BruteForceBounded
<1> QED BY <1>1, <1>2, <1>3, PTL DEF Spec

-----------------------------------------------------------------------------
(* Served one at a time. *)

OneWorker == \A p, q \in Workers : p = q

\* Without an overlap the count is the number of failures in the audit trail,
\* and what a worker read is what is committed.
Counts ==
  /\ failures = failed_login_count
  /\ \A p \in Workers :
       pc[p] = "verify" => seen[p].count = failed_login_count

LEMMA StepCounts ==
  ASSUME OneWorker, TypeOK, Counts, [Next]_vars
  PROVE  Counts'
<1> USE DEF TypeOK, Counts, row, trail
<1>1. ASSUME NEW p \in Workers, BeginLogin(p) PROVE Counts'
  BY <1>1 DEF BeginLogin, OneWorker
<1>2. ASSUME NEW p \in Workers, FailLogin(p) PROVE Counts'
  BY <1>2 DEF FailLogin, Counted, Close, OneWorker
<1>3. ASSUME NEW p \in Workers, LockAccount(p) PROVE Counts'
  BY <1>3 DEF LockAccount, Close, OneWorker
<1>4. ASSUME NEW p \in Workers, AcceptLogin(p) PROVE Counts'
  BY <1>4 DEF AcceptLogin, Close, OneWorker
<1>5. ASSUME NEW p \in Workers, Crash(p) PROVE Counts'
  BY <1>5 DEF Crash, Close, OneWorker
<1>6. CASE LockoutEnds
  BY <1>6 DEF LockoutEnds
<1>7. CASE SetActive
  BY <1>7 DEF SetActive
<1>8. CASE UNCHANGED vars
  BY <1>8 DEF vars
<1> QED BY <1>1, <1>2, <1>3, <1>4, <1>5, <1>6, <1>7, <1>8 DEF Next

\* The claim of the documentation holds when no two attempts overlap: every
\* fifth failure in a row locks the account.  Only the unlocked read breaks it.
THEOREM SerialLockout == OneWorker => (Spec => []FailuresLock)
<1> SUFFICES ASSUME OneWorker PROVE Spec => []FailuresLock
  OBVIOUS
<1>1. Init => TypeOK /\ Counts
  BY InitTyped DEF Init, Counts
<1>2. TypeOK /\ Counts /\ [Next]_vars => TypeOK' /\ Counts'
  BY StepTyped, StepCounts
<1>3. TypeOK /\ Counts => FailuresLock
  BY MaxFailedLoginsAssumption DEF TypeOK, Counts, FailuresLock
<1> QED BY <1>1, <1>2, <1>3, PTL DEF Spec

=============================================================================
