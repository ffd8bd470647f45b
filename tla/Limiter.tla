------------------------------ MODULE Limiter -------------------------------
(***************************************************************************)
(* The failed-login limiter of internal/auth/limiter.go: one row of        *)
(* auth_login_attempts per username, and what its three statements do.     *)
(*                                                                         *)
(* Time is counted in ticks still to go: locked_until is Unset (NULL), 0   *)
(* when it has passed, or the ticks until it passes.  The server's clock   *)
(* and the database's are taken to be the same.  A username without a row  *)
(* is a row with no failures, which behaves the same.  failed_attempts is  *)
(* only compared with the limit, so it is kept up to the limit.            *)
(***************************************************************************)
EXTENDS Integers

CONSTANTS
  MaxFailures,   \* maxPINFailures, 5
  LockTicks      \* the 15 minutes of a lock

ASSUME LimiterAssumption ==
  MaxFailures \in Nat /\ MaxFailures > 1 /\ LockTicks \in Nat \ {0}

Unset == -1

AttemptRow == [failed : 0..MaxFailures, lock : {Unset} \cup (0..LockTicks)]

NoAttempts == [failed |-> 0, lock |-> Unset]

Locked(row)  == row.lock > 0
Expired(row) == row.lock = 0

LoginAllowed(row) == ~Locked(row)

Counted(n) == IF n > MaxFailures THEN MaxFailures ELSE n

(* Mutant: every failure at the limit locks anew, lock in force or not.    *)
AfterFailureRelocking(row) ==
  [failed |-> IF Expired(row) THEN 1 ELSE Counted(row.failed + 1),
   lock |-> IF row.failed + 1 >= MaxFailures THEN LockTicks ELSE Unset]

(* The upsert of RecordLoginFailure.  Both CASEs look at the old row: the  *)
(* one that sets the lock does not see the count being reset.              *)
AfterFailure(row) ==
  [failed |-> IF Expired(row) THEN 1 ELSE Counted(row.failed + 1),
   lock |-> IF Locked(row) THEN row.lock
            ELSE IF row.failed + 1 >= MaxFailures THEN LockTicks ELSE Unset]

(* A tick of the clock.                                                    *)
Elapsed(row) == [row EXCEPT !.lock = IF Locked(row) THEN @ - 1 ELSE @]
=============================================================================
