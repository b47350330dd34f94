----------------------------- MODULE HostProofs -----------------------------
(***************************************************************************)
(* Proofs about the threads that deal with the host: those that lock pages *)
(* (PageLock), for any number of threads, buffers and calls, and the       *)
(* reader thread of a client connection (Stomp), for every stream a client *)
(* may send, every way the network cuts it up, every limit on a frame and  *)
(* every capacity of the BufReader.                                        *)
(***************************************************************************)
EXTENDS Stomp, PageLock, PeerProofs

(* The provers get time enough on a slow machine. *)
USE SMTT(30), ZenonT(30)

(* Where a thread holds the mutex. *)
InCritical == {"holds", "queried", "raised"}

(* The inductive invariant: the mutex is held exactly by the thread inside *)
(* the critical section, so what that thread has read is still true, and   *)
(* both sizes have grown by what is recorded or is about to be.            *)
MutexHeld == \A t \in Thread : holder = t <=> pc[t] \in InCritical

BelowCeiling == \A t \in Thread : pc[t] \in {"queried", "raised"} => total(t) <= MAX_TOTAL

SeenIsCurrent ==
    \A t \in Thread :
        pc[t] = "queried" => seen[t].minimum = minimum /\ seen[t].maximum = maximum

GrownBy(n) == minimum = StartMinimum + n /\ maximum = StartMaximum + n

Growth ==
    /\ (\A t \in Thread : pc[t] # "raised") => GrownBy(granted)
    /\ \A t \in Thread : pc[t] = "raised" => GrownBy(total(t))

LockInv == LockTypeOK /\ MutexHeld /\ BelowCeiling /\ SeenIsCurrent /\ Growth

-----------------------------------------------------------------------------
(* saturating_add stays in Nat. *)
LEMMA SaturatingType ==
    ASSUME NEW a \in Nat, NEW b \in Nat
    PROVE  saturating_add(a, b) \in Nat
  BY LockAssumption DEF saturating_add

(* Adding a growth that passed the ceiling to a starting size does not     *)
(* saturate: the size moves by exactly what is recorded.                   *)
LEMMA GrowthIsExact ==
    ASSUME NEW start \in Nat, NEW g \in Nat, NEW n \in Nat,
           start + MAX_TOTAL <= USIZE_MAX,
           saturating_add(g, n) <= MAX_TOTAL
    PROVE  saturating_add(start + g, n) = start + saturating_add(g, n)
  BY LockAssumption DEF saturating_add

(* The sums of one growth are sizes. *)
LEMMA TotalType ==
    ASSUME LockTypeOK, NEW t \in Thread
    PROVE  granted \in Nat /\ step(t) \in Nat /\ total(t) \in Nat
<1>1. granted \in Nat /\ buffer_len[t] \in Nat /\ HEADROOM \in Nat
  BY LockAssumption DEF LockTypeOK
<1>2. step(t) \in Nat
  BY <1>1, SaturatingType, Zenon DEF step
<1>3. total(t) \in Nat
  BY <1>1, <1>2, SaturatingType, Zenon DEF total
<1>4. QED
  BY <1>1, <1>2, <1>3, ZenonT(30)

(* The invariant holds when the process starts. *)
LEMMA LockInitInv == LockInit => LockInv
  BY LockAssumption
     DEF LockInit, LockInv, LockTypeOK, Place, MutexHeld, InCritical, BelowCeiling,
         SeenIsCurrent, Growth, GrownBy

(* A step that moves one thread outside the critical section, and leaves   *)
(* the mutex, the working set and the snapshots alone, keeps the           *)
(* invariant.                                                              *)
LEMMA OutsideStep ==
    ASSUME LockInv, NEW t \in Thread, NEW p \in Place \ InCritical,
           pc[t] \notin InCritical,
           pc' = [pc EXCEPT ![t] = p],
           buffer_len' \in [Thread -> Nat], \A u \in Thread \ {t} : buffer_len'[u] = buffer_len[u],
           last_error' \in [Thread -> {"quota", "other"}],
           UNCHANGED <<seen, holder, granted, minimum, maximum>>
    PROVE  LockInv'
<1>1. LockTypeOK'
  BY Zenon DEF LockInv, LockTypeOK
<1>2. MutexHeld'
  BY DEF LockInv, LockTypeOK, MutexHeld, InCritical
<1>3. \A u \in Thread : pc'[u] \in InCritical => u # t /\ pc'[u] = pc[u] /\ total(u)' = total(u)
  BY DEF LockInv, LockTypeOK, InCritical, total, step, saturating_add
<1>4. BelowCeiling'
  BY <1>3 DEF LockInv, BelowCeiling, InCritical
<1>5. SeenIsCurrent'
  BY <1>3 DEF LockInv, SeenIsCurrent, InCritical
<1>6. (\A u \in Thread : pc'[u] # "raised") => \A u \in Thread : pc[u] # "raised"
  BY DEF LockInv, LockTypeOK, InCritical
<1>7. Growth'
  BY <1>3, <1>6 DEF LockInv, Growth, GrownBy, InCritical
<1>8. QED
  BY <1>1, <1>2, <1>4, <1>5, <1>7 DEF LockInv

(* Taking the mutex: nobody was inside, so nobody is raised. *)
LEMMA LockGrantedStep ==
    ASSUME LockInv, NEW t \in Thread, lock_granted(t)
    PROVE  LockInv'
<1> USE DEF lock_granted, goto, available, threadVars, systemVars
<1>1. \A u \in Thread : pc[u] \notin InCritical
  BY LockAssumption DEF LockInv, MutexHeld
<1>2. LockTypeOK'
  BY DEF LockInv, LockTypeOK, Place
<1>3. MutexHeld'
  BY <1>1 DEF LockInv, LockTypeOK, MutexHeld, InCritical
<1>4. BelowCeiling' /\ SeenIsCurrent'
  BY <1>1 DEF LockInv, LockTypeOK, BelowCeiling, SeenIsCurrent, InCritical
<1>5. GrownBy(granted)
  BY <1>1 DEF LockInv, Growth, InCritical
<1>6. Growth'
  BY <1>1, <1>5 DEF LockInv, LockTypeOK, Growth, GrownBy, InCritical
<1>7. QED
  BY <1>2, <1>3, <1>4, <1>6 DEF LockInv

(* Inside the critical section every other thread is outside it. *)
LEMMA OthersOutside ==
    ASSUME LockInv, NEW t \in Thread, pc[t] \in InCritical
    PROVE  \A u \in Thread \ {t} : pc[u] \notin InCritical
  BY DEF LockInv, MutexHeld

(* Giving up drops the guard and has changed nothing. *)
LEMMA GiveUpStep ==
    ASSUME LockInv, NEW t \in Thread, give_up(t)
    PROVE  LockInv'
<1> USE DEF give_up, return_err, goto, guard_dropped, threadVars, systemVars
<1>1. pc[t] \in InCritical /\ pc[t] # "raised"
  BY DEF InCritical
<1>2. \A u \in Thread : pc'[u] \notin InCritical
  BY <1>1, OthersOutside DEF LockInv, LockTypeOK, InCritical
<1>3. LockTypeOK'
  BY LockAssumption DEF LockInv, LockTypeOK, Place
<1>4. MutexHeld'
  BY <1>2, LockAssumption DEF MutexHeld
<1>5. BelowCeiling' /\ SeenIsCurrent'
  BY <1>2 DEF BelowCeiling, SeenIsCurrent, InCritical
<1>6. GrownBy(granted)
  BY <1>1, OthersOutside DEF LockInv, Growth, InCritical
<1>7. Growth'
  BY <1>2, <1>6, ZenonT(30) DEF Growth, GrownBy, InCritical
<1>8. QED
  BY <1>3, <1>4, <1>5, <1>7 DEF LockInv

(* What the holder of the mutex reads stays true until it acts on it. *)
LEMMA QueryStep ==
    ASSUME LockInv, NEW t \in Thread, query(t)
    PROVE  LockInv'
<1> USE DEF query, goto, threadVars, mutexVars, systemVars
<1>1. pc[t] \in InCritical /\ pc[t] # "raised" /\ pc' = [pc EXCEPT ![t] = "queried"]
  BY DEF InCritical
<1>2. \A u \in Thread \ {t} : pc[u] \notin InCritical /\ pc'[u] = pc[u]
  BY <1>1, OthersOutside, ZenonT(30) DEF LockInv, LockTypeOK
<1>3. pc'[t] = "queried" /\ total(t)' = total(t)
  BY <1>1 DEF LockInv, LockTypeOK, total, step, saturating_add
<1>4. LockTypeOK'
  BY DEF LockInv, LockTypeOK, Place
<1>5. MutexHeld'
  BY <1>1, <1>2, <1>3 DEF LockInv, MutexHeld, InCritical
<1>6. total(t) <= MAX_TOTAL
  <2>1. total(t) \in Nat
    BY TotalType DEF LockInv
  <2>2. QED
    BY <2>1, LockAssumption DEF over_ceiling
<1>7. BelowCeiling'
  BY <1>2, <1>3, <1>6 DEF BelowCeiling, InCritical
<1>8. SeenIsCurrent'
  BY <1>2 DEF LockInv, LockTypeOK, SeenIsCurrent, InCritical
<1>9. GrownBy(granted)
  BY <1>1, OthersOutside, ZenonT(30) DEF LockInv, Growth, InCritical
<1>10. Growth'
  BY <1>2, <1>3, <1>9 DEF Growth, GrownBy, InCritical
<1>11. QED
  BY <1>4, <1>5, <1>7, <1>8, <1>10, ZenonT(30) DEF LockInv

(* The working set moves by exactly the step. *)
LEMMA SetStep ==
    ASSUME LockInv, NEW t \in Thread, set_working_set(t)
    PROVE  LockInv'
<1> USE DEF set_working_set, goto, threadVars, mutexVars
<1>1. pc[t] \in InCritical /\ pc[t] # "raised" /\ pc' = [pc EXCEPT ![t] = "raised"]
  BY DEF InCritical
<1>2. \A u \in Thread \ {t} : pc[u] \notin InCritical /\ pc'[u] = pc[u]
  BY <1>1, OthersOutside, ZenonT(30) DEF LockInv, LockTypeOK
<1>3. pc'[t] = "raised" /\ total(t)' = total(t)
  BY <1>1, ZenonT(30) DEF LockInv, LockTypeOK, total, step, saturating_add
<1>4. GrownBy(granted) /\ seen[t].minimum = minimum /\ seen[t].maximum = maximum
  BY <1>1, OthersOutside, ZenonT(30) DEF LockInv, Growth, SeenIsCurrent, InCritical
<1>5. granted \in Nat /\ step(t) \in Nat /\ total(t) \in Nat
  BY TotalType DEF LockInv
<1>6. total(t) <= MAX_TOTAL
  BY DEF LockInv, BelowCeiling
<1>7. saturating_add(minimum, step(t)) = StartMinimum + total(t)
  <2>1. StartMinimum + MAX_TOTAL <= USIZE_MAX
    BY LockAssumption
  <2>2. saturating_add(StartMinimum + granted, step(t)) = StartMinimum + saturating_add(granted, step(t))
    BY <1>5, <1>6, <2>1, GrowthIsExact, LockAssumption DEF total
  <2>3. QED
    BY <1>4, <2>2, ZenonT(30) DEF GrownBy, total
<1>8. saturating_add(maximum, step(t)) = StartMaximum + total(t)
  <2>1. saturating_add(StartMaximum + granted, step(t)) = StartMaximum + saturating_add(granted, step(t))
    BY <1>5, <1>6, GrowthIsExact, LockAssumption DEF total
  <2>2. QED
    BY <1>4, <2>1, ZenonT(30) DEF GrownBy, total
<1>9. minimum' = StartMinimum + total(t) /\ maximum' = StartMaximum + total(t)
  <2>1. minimum' = StartMinimum + total(t)
    BY <1>4, <1>7
  <2>2. StartMaximum + total(t) >= StartMinimum + total(t)
    BY <1>5, LockAssumption
  <2>3. QED
    BY <1>4, <1>7, <1>8, <2>1, <2>2
<1>10. LockTypeOK'
  BY <1>5, <1>9, LockAssumption DEF LockInv, LockTypeOK, Place
<1>11. MutexHeld'
  BY <1>1, <1>2, <1>3 DEF LockInv, MutexHeld, InCritical
<1>12. BelowCeiling' /\ SeenIsCurrent'
  BY <1>2, <1>3, <1>6 DEF BelowCeiling, SeenIsCurrent, InCritical
<1>13. Growth'
  BY <1>2, <1>3, <1>9 DEF Growth, GrownBy, InCritical
<1>14. QED
  BY <1>10, <1>11, <1>12, <1>13, ZenonT(30) DEF LockInv

(* Recording the growth, and dropping the guard. *)
LEMMA PublishStep ==
    ASSUME LockInv, NEW t \in Thread, publish(t)
    PROVE  LockInv'
<1> USE DEF publish, goto, guard_dropped, threadVars, systemVars
<1>1. pc[t] \in InCritical /\ pc' = [pc EXCEPT ![t] = "retry"]
  BY DEF InCritical
<1>2. \A u \in Thread : pc'[u] \notin InCritical
  BY <1>1, OthersOutside DEF LockInv, LockTypeOK, InCritical
<1>3. total(t) \in Nat /\ total(t) <= MAX_TOTAL /\ GrownBy(total(t))
  BY TotalType DEF LockInv, BelowCeiling, Growth
<1>4. LockTypeOK'
  BY <1>3, LockAssumption DEF LockInv, LockTypeOK, Place
<1>5. MutexHeld'
  BY <1>2, LockAssumption, ZenonT(30) DEF MutexHeld
<1>6. BelowCeiling' /\ SeenIsCurrent'
  BY <1>2 DEF BelowCeiling, SeenIsCurrent, InCritical
<1>7. Growth'
  BY <1>2, <1>3, ZenonT(30) DEF Growth, GrownBy, InCritical
<1>8. QED
  BY <1>4, <1>5, <1>6, <1>7 DEF LockInv

(* The invariant is inductive: one case per step of a thread. *)
LEMMA LockStep == LockInv /\ [LockNext]_lockVars => LockInv'
<1> SUFFICES ASSUME LockInv, [LockNext]_lockVars PROVE LockInv'
  BY ZenonT(30)
<1>1. CASE UNCHANGED lockVars
  BY <1>1 DEF lockVars, LockInv, LockTypeOK, MutexHeld, BelowCeiling, SeenIsCurrent,
              Growth, GrownBy, total, step, saturating_add
<1>2. ASSUME NEW t \in Thread, NEW n \in BufferLen, mlock(t, n) PROVE LockInv'
  <2>1. n \in Nat
    BY LockAssumption
  <2>2. pc' = [pc EXCEPT ![t] = IF n = 0 THEN "idle" ELSE "try"]
    BY <1>2 DEF mlock, goto
  <2>3. buffer_len' \in [Thread -> Nat] /\ \A u \in Thread \ {t} : buffer_len'[u] = buffer_len[u]
    BY <1>2, <2>1, ZenonT(30) DEF mlock, LockInv, LockTypeOK
  <2>4. QED
    BY <1>2, <2>2, <2>3, OutsideStep, Zenon
       DEF mlock, mutexVars, systemVars, InCritical, Place, LockInv, LockTypeOK
<1>3. ASSUME NEW t \in Thread, try_mlock(t) PROVE LockInv'
  <2>1. last_error' \in [Thread -> {"quota", "other"}]
    BY <1>3 DEF try_mlock, virtual_lock, virtual_lock_refused, LockInv, LockTypeOK
  <2>2. pc' = [pc EXCEPT ![t] = "idle"] \/ pc' = [pc EXCEPT ![t] = "refused"]
    BY <1>3 DEF try_mlock, return_ok, goto
  <2>3. QED
    BY <1>3, <2>1, <2>2, OutsideStep
       DEF try_mlock, mutexVars, InCritical, Place, LockInv, LockTypeOK
<1>4. ASSUME NEW t \in Thread, not_quota(t) PROVE LockInv'
  BY <1>4, OutsideStep, Zenon
     DEF not_quota, return_err, goto, threadVars, mutexVars, systemVars, InCritical, Place,
         LockInv, LockTypeOK
<1>5. ASSUME NEW t \in Thread, retry(t) PROVE LockInv'
  <2>1. last_error' \in [Thread -> {"quota", "other"}]
    BY <1>5 DEF retry, virtual_lock, virtual_lock_refused, LockInv, LockTypeOK
  <2>2. pc' = [pc EXCEPT ![t] = "idle"]
    BY <1>5, ZenonT(30) DEF retry, return_ok, return_err, goto
  <2>3. QED
    BY <1>5, <2>1, <2>2, OutsideStep, ZenonT(30)
       DEF retry, mutexVars, InCritical, Place, LockInv, LockTypeOK
<1>6. ASSUME NEW t \in Thread, munlock(t) PROVE LockInv'
  BY <1>6 DEF munlock, threadVars, mutexVars, LockInv, LockTypeOK, MutexHeld, BelowCeiling,
              SeenIsCurrent, Growth, GrownBy, total, step, saturating_add
<1>7. QED
  BY <1>1, <1>2, <1>3, <1>4, <1>5, <1>6,
     LockGrantedStep, GiveUpStep, QueryStep, SetStep, PublishStep
     DEF LockNext, within_mlock

(* The invariant gives the two properties. *)
LEMMA LockInvSuffices == LockInv => NoLostGrowth /\ GrowthWithinCeiling
<1> SUFFICES ASSUME LockInv PROVE NoLostGrowth /\ GrowthWithinCeiling
  OBVIOUS
<1>1. NoLostGrowth
  BY DEF LockInv, Growth, GrownBy, NoLostGrowth
<1>2. PICK n \in Nat : n <= MAX_TOTAL /\ GrownBy(n)
  <2>1. CASE \A t \in Thread : pc[t] # "raised"
    BY <2>1, LockAssumption DEF LockInv, LockTypeOK, Growth
  <2>2. CASE \E t \in Thread : pc[t] = "raised"
    BY <2>2, TotalType DEF LockInv, BelowCeiling, Growth
  <2>3. QED
    BY <2>1, <2>2, ZenonT(30)
<1>3. GrowthWithinCeiling
  BY <1>2, LockAssumption DEF GrownBy, GrowthWithinCeiling
<1>4. QED
  BY <1>1, <1>3

(* Threads, the mutex and the working set keep their types; in particular  *)
(* GRANTED stays at or below MAX_TOTAL between any two steps of mlock.     *)
THEOREM LockTypes == LockSpec => []LockTypeOK
<1>1. LockInv => LockTypeOK
  BY DEF LockInv
<1>2. QED
  BY <1>1, LockInitInv, LockStep, PTL DEF LockSpec

(* No growth of the working set is lost (grow_locked_page_budget), for any *)
(* number of threads, any buffer lengths and any refusals of the system.   *)
THEOREM NoLostGrowthTheorem == LockSpec => []NoLostGrowth
  BY LockInitInv, LockStep, LockInvSuffices, PTL DEF LockSpec

(* The growth of all calls together stays below MAX_TOTAL, and the pair of *)
(* sizes stays legal.                                                      *)
THEOREM GrowthWithinCeilingTheorem == LockSpec => []GrowthWithinCeiling
  BY LockInitInv, LockStep, LockInvSuffices, PTL DEF LockSpec

-----------------------------------------------------------------------------
(* What threads were told, and what the system has locked for them. *)
ToldInv == told \in [Thread -> Nat] /\ locked = told

(* One attempt to lock keeps the two the same, if its success is reported  *)
(* as such and its failure as such.                                        *)
LEMMA AttemptStep ==
    ASSUME ToldInv, LockTypeOK, NEW t \in Thread,
           \/ virtual_lock(t) /\ return_ok(t)
           \/ virtual_lock_refused(t) /\ UNCHANGED told
    PROVE  ToldInv'
<1>1. CASE virtual_lock(t) /\ return_ok(t)
  BY <1>1 DEF virtual_lock, return_ok, ToldInv, LockTypeOK
<1>2. CASE virtual_lock_refused(t) /\ UNCHANGED told
  BY <1>2 DEF virtual_lock_refused, ToldInv
<1>3. QED
  BY <1>1, <1>2

(* Every step keeps the two the same. *)
LEMMA ToldStep == ToldInv /\ LockTypeOK /\ [LockNext]_lockVars => ToldInv'
<1> SUFFICES ASSUME ToldInv, LockTypeOK, [LockNext]_lockVars PROVE ToldInv'
  OBVIOUS
<1>1. CASE UNCHANGED lockVars
  BY <1>1 DEF lockVars, ToldInv
<1>2. ASSUME NEW t \in Thread, try_mlock(t) PROVE ToldInv'
  BY <1>2, AttemptStep DEF try_mlock
<1>3. ASSUME NEW t \in Thread, retry(t) PROVE ToldInv'
  BY <1>3, AttemptStep DEF retry, return_err
<1>4. ASSUME NEW t \in Thread, munlock(t) PROVE ToldInv'
  <2>1. told[t] - told[t] = 0
    BY DEF ToldInv
  <2>2. locked' = [told EXCEPT ![t] = 0] /\ told' = [told EXCEPT ![t] = 0]
    BY <1>4, <2>1, Zenon DEF munlock, ToldInv
  <2>3. QED
    BY <2>2 DEF ToldInv
<1>5. ASSUME NEW t \in Thread,
             \/ \E n \in BufferLen : mlock(t, n)
             \/ not_quota(t) \/ lock_granted(t) \/ give_up(t) \/ query(t)
             \/ set_working_set(t) \/ publish(t)
      PROVE  ToldInv'
  BY <1>5, Zenon DEF mlock, not_quota, lock_granted, give_up, query, set_working_set, publish,
              return_err, systemVars, ToldInv
<1>6. QED
  BY <1>1, <1>2, <1>3, <1>4, <1>5, ZenonT(30) DEF LockNext, within_mlock

(* What mlock reported as locked is locked, and nothing else, for any      *)
(* number of threads.                                                      *)
THEOREM ToldIsLockedTheorem == LockSpec => []ToldIsLocked
<1>1. LockInit => ToldInv
  BY DEF LockInit, ToldInv
<1>2. LockInv => LockTypeOK
  BY DEF LockInv
<1>3. ToldInv => ToldIsLocked
  BY DEF ToldInv, ToldIsLocked
<1>4. QED
  BY <1>1, <1>2, <1>3, LockInitInv, LockStep, ToldStep, PTL DEF LockSpec

-----------------------------------------------------------------------------
(* The reader thread. *)

(* What read_frame returns: a frame, whose body is part of the stream, and *)
(* the length of its text, which is under the limit and a buffer.          *)
Returned ==
    {[frame |-> parse_frame(text), size |-> size] :
        text \in Seq(Character), size \in 0..(MAX_FRAME_BYTES + CAPACITY - 1)}

ReaderInv ==
    /\ wire \in Seq(Character) /\ buffer \in Seq(Character) /\ raw \in Seq(Character)
    /\ Len(buffer) <= CAPACITY
    /\ Len(raw) <= MAX_FRAME_BYTES
    /\ frames \in Seq(Returned)

-----------------------------------------------------------------------------
(* One look at the stream is at most a buffer of its characters, and what  *)
(* is left of it is still characters.                                      *)
LEMMA AvailableTyped ==
    ASSUME ReaderInv, NEW chunk \in available_now, received(chunk)
    PROVE  /\ chunk \in Seq(Character) /\ Len(chunk) <= CAPACITY
           /\ wire' \in Seq(Character)
<1> USE ReaderAssumption
<1>1. CASE buffer # <<>>
  <2>1. chunk = buffer
    BY <1>1 DEF available_now
  <2>2. wire' = wire
    BY <1>1 DEF received
  <2>3. QED
    BY <2>1, <2>2, ZenonT(30) DEF ReaderInv
<1>2. CASE buffer = <<>>
  <2> DEFINE most == IF Len(wire) < CAPACITY THEN Len(wire) ELSE CAPACITY
  <2>1. wire \in Seq(Character) /\ Len(wire) \in Nat
    BY DEF ReaderInv
  <2>2. most \in Nat /\ most <= CAPACITY /\ most <= Len(wire)
    BY <2>1
  <2>3. available_now = {SubSeq(wire, 1, n) : n \in 1..most}
    BY <1>2, Zenon DEF available_now
  <2> HIDE DEF most
  <2>4. PICK n \in 1..most : chunk = SubSeq(wire, 1, n)
    BY <2>3
  <2>5. n \in Nat /\ 1 <= n /\ n <= Len(wire) /\ n <= CAPACITY
    BY <2>1, <2>2
  <2>6. chunk \in Seq(Character) /\ Len(chunk) = n
    <3>1. \A i \in 1..n : wire[i] \in Character
      BY <2>1, <2>5
    <3>2. QED
      BY <2>4, <2>5, <3>1, SubSeqProperties
  <2>7. wire' = SubSeq(wire, n + 1, Len(wire))
    BY <1>2, <2>6, Zenon DEF received
  <2>8. wire' \in Seq(Character)
    <3>1. \A i \in (n + 1)..Len(wire) : wire[i] \in Character
      BY <2>1, <2>5
    <3>2. n + 1 \in Int /\ Len(wire) \in Int
      BY <2>1, <2>5
    <3>3. QED
      BY <2>7, <3>1, <3>2, SubSeqProperties
  <2>9. QED
    BY <2>5, <2>6, <2>8
<1>3. QED
  BY <1>1, <1>2, ZenonT(30)

(* The place of the first NUL. *)
LEMMA NulIsInside ==
    ASSUME NEW Char, NEW s \in Seq(Char)
    PROVE  nul_at(s) \in 0..Len(s)
<1> DEFINE I == {i \in 1..Len(s) : s[i] = NUL}
<1>1. nul_at(s) = IF I # {} THEN Min(I) ELSE 0
  BY DEF nul_at, SelectInSeq
<1>2. Len(s) \in Nat /\ I \in SUBSET (1..Len(s))
  OBVIOUS
<1> HIDE DEF I
<1>3. CASE I = {}
  BY <1>1, <1>2, <1>3
<1>4. CASE I # {}
  <2>1. Min(I) \in I
    BY <1>2, <1>4, FirstOf, ZenonT(30)
  <2>2. nul_at(s) = Min(I)
    BY <1>1, <1>4, Zenon
  <2>3. Min(I) \in 1..Len(s)
    BY <1>2, <2>1, Zenon
  <2> HIDE DEF I
  <2>4. QED
    BY <1>2, <2>2, <2>3
<1>5. QED
  BY <1>3, <1>4

(* A frame's text is cut into lines from its own characters, so the body   *)
(* of a frame is a part of it.                                             *)
LEMMA BodyIsText ==
    ASSUME NEW Char, NEW text \in Seq(Char)
    PROVE  parse_frame(text).body \in Seq(Char)
<1> DEFINE blank == {i \in 1..(Len(text) - 1) : text[i] = LF /\ text[i + 1] = LF}
           end == IF blank = {} THEN Len(text) + 1
                  ELSE CHOOSE i \in blank : \A j \in blank : i <= j
<1>1. Len(text) \in Nat /\ blank \subseteq Nat /\ \A i \in blank : 1 <= i
  OBVIOUS
<1>2. parse_frame(text).body = SubSeq(text, end + 2, Len(text))
  BY Zenon DEF parse_frame
<1> HIDE DEF blank
<1>3. end \in Nat /\ 1 <= end
  <2>1. CASE blank = {}
    BY <1>1, <2>1
  <2>2. CASE blank # {}
    <3>1. \E i \in blank : \A j \in blank : i <= j
      BY <1>1, <2>2, Least, ZenonT(30)
    <3>2. end \in blank
      BY <2>2, <3>1, ZenonT(30)
    <3>3. QED
      BY <1>1, <3>2, Zenon
  <2>3. QED
    BY <2>1, <2>2
<1> HIDE DEF end
<1>4. \A i \in (end + 2)..Len(text) : text[i] \in Char
  BY <1>1, <1>3
<1>5. end + 2 \in Int /\ Len(text) \in Int
  BY <1>1, <1>3
<1>6. QED
  BY <1>2, <1>4, <1>5, SubSeqProperties

-----------------------------------------------------------------------------
(* Taking a frame off the stream, up to its NUL, keeps the invariant. *)
LEMMA TakeFrameKeeps ==
    ASSUME ReaderInv, NEW chunk \in available_now, take_frame(chunk)
    PROVE  ReaderInv'
<1> USE ReaderAssumption
<1> DEFINE at == nul_at(chunk)
           piece == SubSeq(chunk, 1, at - 1)
           whole == raw \o piece
           text == trim_start(whole, newline)
<1>1. received(chunk)
  BY Zenon DEF take_frame
<1>2. /\ chunk \in Seq(Character) /\ Len(chunk) <= CAPACITY
      /\ wire' \in Seq(Character)
  BY <1>1, AvailableTyped, ZenonT(30)
<1>3. Len(chunk) \in Nat
  BY <1>2
<1>4. at \in 1..Len(chunk)
  <2>1. at # 0
    BY Zenon DEF take_frame
  <2>2. nul_at(chunk) \in 0..Len(chunk)
    BY <1>2, NulIsInside
  <2>3. QED
    BY <1>3, <2>1, <2>2
<1>5. buffer' = SubSeq(chunk, at + 1, Len(chunk)) /\ raw' = <<>>
  BY Zenon DEF take_frame
<1>6. frames' = frames
      \/ frames' = Append(frames, [frame |-> parse_frame(text), size |-> Len(whole)])
  BY Zenon DEF take_frame
<1> HIDE DEF at
<1>7. buffer' \in Seq(Character) /\ Len(buffer') <= CAPACITY
  <2>1. \A i \in (at + 1)..Len(chunk) : chunk[i] \in Character
    BY <1>2, <1>3, <1>4
  <2>2. at + 1 \in Int /\ Len(chunk) \in Int
    BY <1>3, <1>4
  <2>3. /\ buffer' \in Seq(Character)
        /\ Len(buffer') = IF at + 1 <= Len(chunk) THEN Len(chunk) - (at + 1) + 1 ELSE 0
    BY <1>5, <2>1, <2>2, SubSeqProperties
  <2>4. QED
    BY <1>2, <1>3, <1>4, <2>3
<1>8. piece \in Seq(Character) /\ Len(piece) = at - 1
  <2>1. \A i \in 1..(at - 1) : chunk[i] \in Character
    BY <1>2, <1>3, <1>4
  <2>2. 1 \in Int /\ at - 1 \in Int /\ 0 <= at - 1
    BY <1>3, <1>4
  <2>3. QED
    BY <2>1, <2>2, SubSeqProperties
<1> HIDE DEF piece
<1>9. raw \in Seq(Character) /\ Len(raw) \in Nat /\ Len(raw) <= MAX_FRAME_BYTES
  BY DEF ReaderInv
<1>10. whole \in Seq(Character) /\ Len(whole) = Len(raw) + (at - 1)
  BY <1>8, <1>9
<1> HIDE DEF whole
<1>11. Len(whole) \in 0..(MAX_FRAME_BYTES + CAPACITY - 1)
  BY <1>2, <1>3, <1>4, <1>9, <1>10
<1>12. text \in Seq(Character)
  BY <1>10, TrimStartPart, ZenonT(30)
<1> HIDE DEF text
<1>13. [frame |-> parse_frame(text), size |-> Len(whole)] \in Returned
  BY <1>11, <1>12 DEF Returned
<1>14. frames' \in Seq(Returned)
  <2> DEFINE new == [frame |-> parse_frame(text), size |-> Len(whole)]
  <2>1. frames \in Seq(Returned) /\ new \in Returned
    BY <1>13 DEF ReaderInv
  <2> HIDE DEF new
  <2>2. Append(frames, new) \in Seq(Returned)
    BY <2>1
  <2>3. frames' = frames \/ frames' = Append(frames, new)
    BY <1>6, Zenon DEF new
  <2>4. QED
    BY <2>1, <2>2, <2>3, Zenon
<1>15. raw' \in Seq(Character) /\ Len(raw') <= MAX_FRAME_BYTES
  BY <1>5
<1>16. QED
  BY <1>2, <1>7, <1>14, <1>15 DEF ReaderInv

(* Taking all that is buffered, with no NUL in it, keeps the invariant. *)
LEMMA TakeAllKeeps ==
    ASSUME ReaderInv, NEW chunk \in available_now, take_all(chunk)
    PROVE  ReaderInv'
<1> USE ReaderAssumption
<1> DEFINE longer == raw \o chunk
<1>1. /\ received(chunk) /\ buffer' = <<>> /\ frames' = frames
      /\ raw' = <<>> \/ (~over_limit(longer) /\ raw' = longer)
  BY Zenon DEF take_all
<1>2. chunk \in Seq(Character) /\ wire' \in Seq(Character)
  BY <1>1, AvailableTyped, ZenonT(30)
<1>3. longer \in Seq(Character)
  BY <1>2 DEF ReaderInv
<1> HIDE DEF longer
<1>4. ~over_limit(longer) => Len(longer) <= MAX_FRAME_BYTES
  BY <1>3 DEF over_limit
<1>5. <<>> \in Seq(Character) /\ Len(<<>>) = 0
  OBVIOUS
<1>6. raw' \in Seq(Character) /\ Len(raw') <= MAX_FRAME_BYTES
  <2>1. CASE raw' = <<>>
    BY <1>5, <2>1
  <2>2. CASE ~over_limit(longer) /\ raw' = longer
    BY <1>3, <1>4, <2>2, Zenon
  <2>3. QED
    BY <1>1, <2>1, <2>2, ZenonT(30)
<1>7. QED
  BY <1>1, <1>2, <1>5, <1>6 DEF ReaderInv

(* The invariant of the reader thread. *)
LEMMA ReaderInvHolds == StompSpec => []ReaderInv
<1> USE ReaderAssumption
<1>1. StompInit => ReaderInv
  <2> SUFFICES ASSUME StompInit PROVE ReaderInv
    OBVIOUS
  <2>1. stream \in Seq(Character)
    BY DEF StompInit
  <2>2. <<>> \in Seq(Character) /\ <<>> \in Seq(Returned) /\ Len(<<>>) = 0
    OBVIOUS
  <2>3. QED
    BY <2>1, <2>2 DEF StompInit, ReaderInv
<1>2. ReaderInv /\ [StompNext]_stompVars => ReaderInv'
  <2> SUFFICES ASSUME ReaderInv, [StompNext]_stompVars PROVE ReaderInv'
    OBVIOUS
  <2>1. ASSUME NEW chunk \in available_now, take_frame(chunk)
        PROVE  ReaderInv'
    BY <2>1, TakeFrameKeeps
  <2>2. ASSUME NEW chunk \in available_now, take_all(chunk)
        PROVE  ReaderInv'
    BY <2>2, TakeAllKeeps, ZenonT(30)
  <2>3. <<>> \in Seq(Character) /\ Len(<<>>) = 0
    OBVIOUS
  <2>4. CASE end_of_stream
    BY <2>3, <2>4 DEF end_of_stream, ReaderInv
  <2>5. CASE transport_error
    BY <2>3, <2>5 DEF transport_error, ReaderInv
  <2>6. CASE UNCHANGED stompVars
    BY <2>6 DEF stompVars, ReaderInv
  <2>7. QED
    BY <2>1, <2>2, <2>4, <2>5, <2>6, ZenonT(30) DEF StompNext, read_frame, ended
<1>3. QED
  BY <1>1, <1>2, PTL DEF StompSpec

(* A connection that never sends a NUL costs a bounded frame: read_frame   *)
(* tests the limit after every look at the stream, so a frame in the       *)
(* making is within it, and one handed on exceeds it by less than what the *)
(* BufReader holds.                                                        *)
THEOREM MemoryIsBounded == StompSpec => []MemoryBounded
<1>1. ReaderInv => MemoryBounded
  <2> SUFFICES ASSUME ReaderInv PROVE MemoryBounded
    OBVIOUS
  <2>1. ASSUME NEW n \in DOMAIN frames
        PROVE  frames[n].size < MAX_FRAME_BYTES + CAPACITY
    <3>1. frames[n] \in Returned
      BY DEF ReaderInv
    <3>2. frames[n].size \in 0..(MAX_FRAME_BYTES + CAPACITY - 1)
      BY <3>1 DEF Returned
    <3>3. QED
      BY <3>2, ReaderAssumption
  <2>2. QED
    BY <2>1 DEF ReaderInv, MemoryBounded
<1>2. QED
  BY <1>1, ReaderInvHolds, PTL

(* The body of a frame is part of the stream. *)
LEMMA BodiesAreText ==
    ASSUME ReaderInv, NEW n \in DOMAIN frames
    PROVE  n \in Nat /\ frames[n].frame.body \in Seq(Character)
<1>1. frames[n] \in Returned /\ n \in Nat
  BY DEF ReaderInv
<1>2. PICK text \in Seq(Character) : frames[n].frame = parse_frame(text)
  BY <1>1 DEF Returned
<1>3. QED
  BY <1>1, <1>2, BodyIsText, ZenonT(30)

(* Whatever clients write, the operation Op::parse reads in a frame of     *)
(* theirs is the one the other node decodes, and the value comes back as   *)
(* it was stored.                                                          *)
THEOREM ForwardsAreAsAsked == StompSpec => []ForwardedAsAsked
<1>1. ReaderInv => ForwardedAsAsked
  <2> SUFFICES ASSUME ReaderInv PROVE ForwardedAsAsked
    OBVIOUS
  <2>1. ASSUME NEW n \in DOMAIN frames, parse(frames[n].frame.body).ok
        PROVE  LET asked == parse(frames[n].frame.body)
               IN  /\ decode(encode(Request(n, asked.op))) = decoded(Request(n, asked.op))
                   /\ decode(encode(Response(n, Value(asked.op.value)))) =
                         decoded(Response(n, Value(asked.op.value)))
    <3>1. n \in Nat /\ frames[n].frame.body \in Seq(Character)
      BY BodiesAreText
    <3>2. QED
      BY <2>1, <3>1, AskedIsForwarded, Zenon
  <2>2. QED
    BY <2>1, Zenon DEF ForwardedAsAsked
<1>2. QED
  BY <1>1, ReaderInvHolds, PTL

(* The limit Op::parse puts on a PUT is a limit on what is forwarded, so   *)
(* that every accepted PUT fits one datagram.                              *)
THEOREM ForwardsFit == StompSpec => []ForwardFitsDatagram
<1>1. ReaderInv => ForwardFitsDatagram
  <2> SUFFICES ASSUME ReaderInv PROVE ForwardFitsDatagram
    OBVIOUS
  <2>1. ASSUME NEW n \in DOMAIN frames, parse(frames[n].frame.body).ok,
               parse(frames[n].frame.body).op.verb = "Put"
        PROVE  LET asked == parse(frames[n].frame.body)
               IN  Len(encode(Request(n, asked.op))) <= MAX_PUT_BYTES + Len(decimal[n]) + 3
    <3>1. n \in Nat /\ frames[n].frame.body \in Seq(Character)
      BY BodiesAreText
    <3>2. QED
      BY <2>1, <3>1, AskedIsForwarded, ZenonT(30)
  <2>2. QED
    BY <2>1, Zenon DEF ForwardFitsDatagram
<1>2. QED
  BY <1>1, ReaderInvHolds, PTL

=============================================================================
