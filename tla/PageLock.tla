------------------------------ MODULE PageLock ------------------------------
(***************************************************************************)
(* Locking pages on Windows: mlock, grow_locked_page_budget and munlock of *)
(* src/sodium.rs, called by several threads of one process.  Between any   *)
(* two calls into the system another thread may run.  The system locks a   *)
(* region only within the minimum working set of the process, may refuse   *)
(* any call for reasons of its own, and changes the working set only when  *)
(* asked.  Sizes are usize; the saturating sums stop at USIZE_MAX.         *)
(***************************************************************************)
EXTENDS Naturals, FiniteSetsExt

CONSTANTS
    Thread,
    NoThread,
    BufferLen,      \* lengths of the buffers to lock
    HEADROOM,       \* 8 MiB
    MAX_TOTAL,      \* 64 MiB
    USIZE_MAX,
    StartMinimum,   \* the working set the process starts with
    StartMaximum,
    MaxCalls        \* bound: calls of mlock by each thread

ASSUME LockAssumption ==
    /\ NoThread \notin Thread
    /\ BufferLen \subseteq Nat /\ HEADROOM \in Nat /\ MAX_TOTAL \in Nat /\ USIZE_MAX \in Nat
    /\ StartMinimum \in Nat /\ StartMaximum \in Nat /\ MaxCalls \in Nat
    /\ StartMinimum <= StartMaximum
    /\ StartMaximum + MAX_TOTAL <= USIZE_MAX

VARIABLES
    pc,         \* thread -> where it is
    buffer_len, \* thread -> the length of the buffer it is locking
    last_error, \* thread -> why its last lock failed: "quota" or "other"
    seen,       \* thread -> the working set it has read
    holder,     \* the thread that holds the mutex of GRANTED
    granted,    \* *GRANTED
    minimum, maximum,   \* the working set of the process
    locked,     \* thread -> bytes it has locked
    told,       \* thread -> bytes mlock told it are locked
    calls       \* thread -> calls so far

lockVars == <<pc, buffer_len, last_error, seen, holder, granted, minimum, maximum, locked, told, calls>>

threadVars == <<buffer_len, last_error, calls>>
mutexVars == <<holder, granted>>
systemVars == <<minimum, maximum, locked>>

LockInit ==
    /\ pc = [t \in Thread |-> "idle"]
    /\ buffer_len = [t \in Thread |-> 0]
    /\ last_error = [t \in Thread |-> "other"]
    /\ seen = [t \in Thread |-> [minimum |-> 0, maximum |-> 0]]
    /\ holder = NoThread /\ granted = 0
    /\ minimum = StartMinimum /\ maximum = StartMaximum
    /\ locked = [t \in Thread |-> 0] /\ told = [t \in Thread |-> 0]
    /\ calls = [t \in Thread |-> 0]

saturating_add(a, b) == IF a + b <= USIZE_MAX THEN a + b ELSE USIZE_MAX

goto(t, place) == pc' = [pc EXCEPT ![t] = place]

(* mlock returns: Ok tells the caller that its buffer is locked. *)
return_ok(t) ==
    goto(t, "idle") /\ told' = [told EXCEPT ![t] = @ + buffer_len[t]]

return_err(t) == goto(t, "idle") /\ UNCHANGED told

-----------------------------------------------------------------------------
(* mlock; an empty buffer is locked as it is. *)
mlock(t, n) ==
    /\ pc[t] = "idle" /\ calls[t] < MaxCalls
    /\ calls' = [calls EXCEPT ![t] = @ + 1]
    /\ buffer_len' = [buffer_len EXCEPT ![t] = n]
    /\ goto(t, IF n = 0 THEN "idle" ELSE "try")
    /\ UNCHANGED <<last_error, seen, told, mutexVars, systemVars>>

(* VirtualLock, as sodium_mlock calls it. *)
room_for(n) == MapThenSumSet(LAMBDA t : locked[t], Thread) + n <= minimum

virtual_lock(t) ==
    /\ room_for(buffer_len[t])
    /\ locked' = [locked EXCEPT ![t] = @ + buffer_len[t]]
    /\ UNCHANGED last_error

virtual_lock_refused(t) ==
    /\ \/ last_error' = [last_error EXCEPT ![t] = "other"]
       \/ ~room_for(buffer_len[t]) /\ last_error' = [last_error EXCEPT ![t] = "quota"]
    /\ UNCHANGED locked

(* The first attempt.  Only a quota refusal goes on to grow the budget. *)
try_mlock(t) ==
    /\ pc[t] = "try"
    /\ \/ virtual_lock(t) /\ return_ok(t)
       \/ virtual_lock_refused(t) /\ goto(t, "refused") /\ UNCHANGED told
    /\ UNCHANGED <<buffer_len, calls, seen, mutexVars, minimum, maximum>>

is_quota_refusal(t) == last_error[t] = "quota"

not_quota(t) ==
    /\ pc[t] = "refused" /\ ~is_quota_refusal(t)
    /\ return_err(t)
    /\ UNCHANGED <<threadVars, seen, mutexVars, systemVars>>

unguarded(t) == TRUE

available(t) == holder = NoThread

(* GRANTED.lock().  A poisoned lock is taken all the same. *)
lock_granted(t) ==
    /\ pc[t] = "refused" /\ is_quota_refusal(t)
    /\ available(t)
    /\ holder' = t
    /\ goto(t, "holds")
    /\ UNCHANGED <<threadVars, seen, told, granted, systemVars>>

step(t) == saturating_add(buffer_len[t], HEADROOM)
total(t) == saturating_add(granted, step(t))

ceiling_on_granted(t) == granted > MAX_TOTAL

over_ceiling(t) == total(t) > MAX_TOTAL

guard_leaked == UNCHANGED holder

(* The guard is dropped on every return. *)
guard_dropped == holder' = NoThread

(* return false: over the ceiling, or the system refused a call. *)
give_up(t) ==
    /\ \/ pc[t] = "holds"
       \/ pc[t] = "queried"
    /\ guard_dropped
    /\ return_err(t)
    /\ UNCHANGED <<threadVars, seen, granted, systemVars>>

query(t) ==
    /\ pc[t] = "holds" /\ ~over_ceiling(t)
    /\ seen' = [seen EXCEPT ![t] = [minimum |-> minimum, maximum |-> maximum]]
    /\ goto(t, "queried")
    /\ UNCHANGED <<threadVars, told, mutexVars, systemVars>>

(* SetProcessWorkingSetSize. *)
set_working_set(t) ==
    LET new_minimum == saturating_add(seen[t].minimum, step(t))
        raised == saturating_add(seen[t].maximum, step(t))
    IN  /\ pc[t] = "queried"
        /\ minimum' = new_minimum
        /\ maximum' = IF raised >= new_minimum THEN raised ELSE new_minimum
        /\ goto(t, "raised")
        /\ UNCHANGED <<threadVars, seen, told, mutexVars, locked>>

(* *granted = total; return true. *)
publish(t) ==
    /\ pc[t] = "raised"
    /\ granted' = total(t)
    /\ guard_dropped
    /\ goto(t, "retry")
    /\ UNCHANGED <<threadVars, seen, told, systemVars>>

retry_trusting(t) ==
    /\ pc[t] = "retry"
    /\ virtual_lock(t) \/ virtual_lock_refused(t)
    /\ return_ok(t)
    /\ UNCHANGED <<buffer_len, calls, seen, mutexVars, minimum, maximum>>

(* The one retry, whose failure is reported whatever its reason. *)
retry(t) ==
    /\ pc[t] = "retry"
    /\ \/ virtual_lock(t) /\ return_ok(t)
       \/ virtual_lock_refused(t) /\ return_err(t)
    /\ UNCHANGED <<buffer_len, calls, seen, mutexVars, minimum, maximum>>

(* munlock of everything the thread was told is locked. *)
munlock(t) ==
    /\ pc[t] = "idle" /\ told[t] > 0
    /\ locked' = [locked EXCEPT ![t] = @ - told[t]]
    /\ told' = [told EXCEPT ![t] = 0]
    /\ UNCHANGED <<pc, threadVars, seen, mutexVars, minimum, maximum>>

-----------------------------------------------------------------------------
within_mlock(t) ==
    \/ try_mlock(t) \/ not_quota(t) \/ lock_granted(t) \/ give_up(t)
    \/ query(t) \/ set_working_set(t) \/ publish(t) \/ retry(t)

LockNext ==
    \E t \in Thread :
       \/ \E n \in BufferLen : mlock(t, n)
       \/ within_mlock(t)
       \/ munlock(t)

(* A thread inside mlock keeps running; none has to call it. *)
LockSpec ==
    LockInit /\ [][LockNext]_lockVars /\ \A t \in Thread : WF_lockVars(within_mlock(t))

-----------------------------------------------------------------------------
Place == {"idle", "try", "refused", "holds", "queried", "raised", "retry"}

(* Type invariant of page locking. *)
LockTypeOK ==
    /\ pc \in [Thread -> Place]
    /\ buffer_len \in [Thread -> Nat]
    /\ last_error \in [Thread -> {"quota", "other"}]
    /\ seen \in [Thread -> [minimum : Nat, maximum : Nat]]
    /\ holder \in Thread \cup {NoThread}
    /\ granted \in 0..MAX_TOTAL /\ minimum \in Nat /\ maximum \in Nat

(* No growth is lost: the working set has grown by what GRANTED records,   *)
(* and by the step of a thread that has raised it and not yet recorded it, *)
(* however the threads interleave and whichever calls fail.                *)
NoLostGrowth ==
    LET unrecorded == {t \in Thread : pc[t] = "raised"}
    IN  /\ unrecorded = {} => minimum = StartMinimum + granted
        /\ \A t \in unrecorded : minimum = StartMinimum + total(t)

(* However many threads and calls ask, the working set grows by no more    *)
(* than the ceiling in all, and stays a legal pair of sizes.               *)
GrowthWithinCeiling ==
    minimum <= StartMinimum + MAX_TOTAL /\ minimum <= maximum

(* Locking is never best-effort: what mlock reported as locked is locked,  *)
(* and what it reported as failed is not, even when another thread used up *)
(* the room between the growth and the retry.                              *)
ToldIsLocked == \A t \in Thread : told[t] = locked[t]

(* Every call of mlock returns, however the system refuses: no path leaves *)
(* the mutex taken, which would stop every later growth.                   *)
MlockReturns == \A t \in Thread : pc[t] # "idle" ~> pc[t] = "idle"

=============================================================================
