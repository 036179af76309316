-------------------------------- MODULE Login --------------------------------
(***************************************************************************)
(* auth_service.authenticate: login with the lockout of one account after  *)
(* MAX_FAILED_LOGINS wrong passwords, by request workers that overlap.     *)
(*                                                                         *)
(* The users row is read without a lock, the password takes a bcrypt       *)
(* verification, and what the read returned is written back.  Each worker  *)
(* keeps the row it read in its identity map; SQLAlchemy's UPDATE names    *)
(* only the attributes whose value differs from the one that was read.     *)
(*                                                                         *)
(* An attempt on an unknown phone, on a locked or on an inactive account   *)
(* leaves the row as it is and is not a step of the model.                 *)
(***************************************************************************)
EXTENDS Integers, FiniteSets

CONSTANTS
  Workers,         \* request threads
  MaxFailedLogins  \* MAX_FAILED_LOGINS

ASSUME WorkersAssumption == IsFiniteSet(Workers)
ASSUME MaxFailedLoginsAssumption == MaxFailedLogins \in Nat /\ MaxFailedLogins > 1

VARIABLES
  active,              \* users.is_active
  failed_login_count,  \* users.failed_login_count
  locked_until,        \* users.locked_until: NULL, ahead of now or behind it
  failures,            \* LOGIN_FAILED rows since the last ACCOUNT_LOCKED or LOGIN_SUCCESS
  late,                \* attempts answered while the current lockout lasts
  pc,                  \* "verify" between the read and the commit
  seen                 \* the row in the worker's identity map

row     == <<active, failed_login_count, locked_until>>
trail   == <<failures, late>>
vars    == <<row, trail, pc, seen>>

LockedUntil == {"null", "ahead", "behind"}
Unread == [count |-> 0, lock |-> "null"]

TypeOK ==
  /\ active \in BOOLEAN
  /\ failed_login_count \in 0..(MaxFailedLogins - 1)
  /\ locked_until \in LockedUntil
  /\ failures \in Nat /\ late \in Nat
  /\ pc \in [Workers -> {"idle", "verify"}]
  /\ seen \in [Workers -> [count: 0..(MaxFailedLogins - 1), lock: {"null", "behind"}]]

Init ==
  /\ active = TRUE
  /\ failed_login_count = 0 /\ locked_until = "null"
  /\ failures = 0 /\ late = 0
  /\ pc = [p \in Workers |-> "idle"]
  /\ seen = [p \in Workers |-> Unread]

-----------------------------------------------------------------------------
(* The handler. *)

\* mutant: the lockout is not looked at
MayLogin_Unlocked == active
MayLogin == locked_until # "ahead" /\ active

\* SELECT, then the checks on the row it returned.
BeginLogin(p) ==
  /\ pc[p] = "idle" /\ MayLogin
  /\ seen' = [seen EXCEPT ![p] = [count |-> failed_login_count, lock |-> locked_until]]
  /\ pc' = [pc EXCEPT ![p] = "verify"]
  /\ UNCHANGED <<row, trail>>

Close(p) ==
  /\ pc' = [pc EXCEPT ![p] = "idle"]
  /\ seen' = [seen EXCEPT ![p] = Unread]

\* failed_login_count += 1, on the copy.
Counted_Kept(p) == seen[p].count \* mutant: the refusal is raised before the commit
Counted(p) == seen[p].count + 1

MustLock_Over(p) == Counted(p) > MaxFailedLogins \* mutant
MustLock(p) == Counted(p) >= MaxFailedLogins

FailLogin(p) ==
  /\ pc[p] = "verify" /\ ~MustLock(p)
  /\ failed_login_count' = Counted(p)
  /\ failures' = failures + 1
  /\ late' = IF locked_until = "ahead" THEN late + 1 ELSE late
  /\ Close(p)
  /\ UNCHANGED <<active, locked_until>>

LockAccount(p) ==
  /\ pc[p] = "verify" /\ MustLock(p)
  /\ locked_until' = "ahead"
  /\ failed_login_count' = 0
  /\ failures' = 0
  /\ late' = IF locked_until = "ahead" THEN late + 1 ELSE 0
  /\ Close(p)
  /\ UNCHANGED active

\* Both attributes are reset; a value that was read as 0 or NULL is unchanged
\* and not written.
AcceptLogin(p) ==
  /\ pc[p] = "verify"
  /\ failed_login_count' = IF seen[p].count # 0 THEN 0 ELSE failed_login_count
  /\ locked_until' = IF seen[p].lock # "null" THEN "null" ELSE locked_until
  /\ failures' = 0
  /\ late' = IF locked_until = "ahead" THEN late + 1 ELSE late
  /\ Close(p)
  /\ UNCHANGED active

-----------------------------------------------------------------------------
(* The environment. *)

\* The worker or its connection dies before the commit.
Crash(p) ==
  /\ pc[p] = "verify"
  /\ Close(p)
  /\ UNCHANGED <<row, trail>>

\* LOCKOUT_MINUTES pass.
LockoutEnds ==
  /\ locked_until = "ahead"
  /\ locked_until' = "behind"
  /\ UNCHANGED <<active, failed_login_count, trail, pc, seen>>

\* An operator, in SQL.
SetActive ==
  /\ active' = ~active
  /\ UNCHANGED <<failed_login_count, locked_until, trail, pc, seen>>

Next ==
  \/ \E p \in Workers :
       BeginLogin(p) \/ FailLogin(p) \/ LockAccount(p) \/ AcceptLogin(p) \/ Crash(p)
  \/ LockoutEnds \/ SetActive

Spec == Init /\ [][Next]_vars

-----------------------------------------------------------------------------
(* Correctness. *)

\* A failure count as seen by every worker, told by how many of them would at
\* most write back each level: a profile, which does not increase with the level.
Levels == 1..(MaxFailedLogins - 1)
Profiles == {f \in [Levels -> 0..Cardinality(Workers)] :
               \A i, j \in Levels : i <= j => f[j] <= f[i]}

\* "Brute force is bounded" (ARCHITECTURE.md): although overlapping wrong
\* passwords overwrite each other's count, the audit trail never shows as many
\* LOGIN_FAILED rows in a row as there are profiles before the account locks: for
\* the code's limit of 5 at most 4 with one worker, 14 with two, 34 with three.
BruteForceBounded == failures < Cardinality(Profiles)

\* While a lockout lasts it answers no more attempts than were past the check
\* when it was set, however the lockout is set again or the clock moves.
FewLateAnswers == locked_until = "ahead" => late < Cardinality(Workers)

-----------------------------------------------------------------------------
(* A claim of the documentation the code does not keep. *)

\* "5 failed logins -> 15-minute block" (README): fewer than MaxFailedLogins
\* failures are recorded in a row without the block.  Two that overlap read the
\* same count and are counted once.
FailuresLock == failures < MaxFailedLogins

=============================================================================
