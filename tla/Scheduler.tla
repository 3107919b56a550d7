------------------------------ MODULE Scheduler ------------------------------
(***************************************************************************)
(* core/scheduler.py: every instance of the service fires a job when its   *)
(* own clock reaches the job's time, and _run_locked lets it run only if   *)
(* pg_try_advisory_lock wins.  The lock belongs to a database session, so  *)
(* it goes with the instance that held it.                                 *)
(***************************************************************************)
CONSTANTS Instances, Null

ASSUME InstancesAssumption == Null \notin Instances

VARIABLES
    lock,   \* the instance whose session holds the job's advisory lock, or Null
    due     \* the instances whose clock has yet to reach the tick

SchedulerTypeOK == lock \in Instances \cup {Null} /\ due \subseteq Instances

SchedulerInit == lock = Null /\ due = {}

\* The day on which the next tick falls begins; a tick that was missed is gone.
NextTick == due' = Instances /\ UNCHANGED lock

\* Slip: the answer of pg_try_advisory_lock is not looked at.
TryLockBlindly(i) == i \in due /\ due' = due \ {i} /\ lock' = i

\* The tick reaches instance i and finds the lock free.
TryLock(i) == i \in due /\ lock = Null /\ due' = due \ {i} /\ lock' = i

\* It is held, or the scheduler woke up too late (misfire).
SkipTick(i) == i \in due /\ due' = due \ {i} /\ UNCHANGED lock

\* Slip: the lock is released only if the job came to its end.
UnlockOnSuccess(i, failed) == lock = i /\ lock' = (IF failed THEN i ELSE Null) /\ UNCHANGED due

\* The `finally' of _run_locked, whether the job returned or raised.
Unlock(i, failed) == lock = i /\ lock' = Null /\ UNCHANGED due

\* The instance dies, its connections with it.
InstanceCrash(i) == lock' = (IF lock = i THEN Null ELSE lock) /\ due' = due \ {i}
=============================================================================
