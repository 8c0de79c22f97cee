-------------------------- MODULE RwSpinLockProofs --------------------------
(* Proofs about rw_spin_lock for any number of threads and slots. *)
EXTENDS RwSpinLock, FiniteSetTheorems, TLAPS

LEMMA InitInv == Init => IInv
<1> SUFFICES ASSUME Init PROVE IInv
    OBVIOUS
<1>1. Registered = {} /\ Claimants = {}
  BY DEF Init, Registered, Claimants, NoTid
<1>2. TypeOK
  BY RegistryAssumption DEF Init, TypeOK, Slots, PCs, NoTid, UNLOCKED, LOCKED,
     NOT_READING, READING
<1>3. IdsDrawn
  BY <1>1, FS_EmptySet DEF Init, IdsDrawn, OwnSlot, NoTid
<1>4. Positions /\ ArrivedRegistered
  BY DEF Init, Positions, ArrivedRegistered
<1>5. ClaimHeld /\ ScannedAreOut
  BY <1>1 DEF Init, ClaimHeld, WriterExclusion, ScannedAreOut, UNLOCKED, LOCKED
<1> QED BY <1>2, <1>3, <1>4, <1>5 DEF IInv

\* The slot of a registered thread is one that is_empty() reads.
LEMMA IdInRange == ASSUME SoundUse, IInv, NEW t \in Registered
                   PROVE  /\ thread_id[t] \in Slots
                          /\ thread_counter <= REGISTRY_MAX_THREADS
<1>1. IsFiniteSet(Registered) /\ Cardinality(Registered) <= Cardinality(Threads)
  BY ThreadsAssumption, FS_Subset DEF Registered
<1>2. Cardinality(Threads) \in Nat
  BY ThreadsAssumption, FS_CardinalityType
<1> QED BY <1>1, <1>2, RegistryAssumption
        DEF SoundUse, IInv, TypeOK, IdsDrawn, Slots, Registered, NoTid

LEMMA NextInv == ASSUME SoundUse, IInv, [Next]_vars PROVE IInv'
<1> USE RegistryAssumption, DepthAssumption DEF SoundUse, IInv, TypeOK, Goto, Stored, PCs,
        UNLOCKED, LOCKED, NOT_READING, READING, NoTid
<1>0. \A u \in Registered : thread_id[u] \in Slots
  BY IdInRange
<1>1. ASSUME NEW t \in Threads, LockSharedCall(t) PROVE IInv'
  <2>1. CASE thread_id[t] = NoTid
    <3>1. Registered' = Registered \union {t} /\ t \notin Registered
      BY <1>1, <2>1 DEF LockSharedCall, Registered
    <3>2. IsFiniteSet(Registered)
      BY ThreadsAssumption, FS_Subset DEF Registered
    <3>3. Cardinality(Registered') = Cardinality(Registered) + 1
      BY <3>1, <3>2, FS_AddElement
    <3>4. TypeOK'
      BY <1>1, <2>1 DEF LockSharedCall
    <3>5. IdsDrawn'
      BY <1>1, <2>1, <3>1, <3>3 DEF LockSharedCall, IdsDrawn, OwnSlot, Registered
    <3>6. Positions' /\ ArrivedRegistered'
      BY <1>1, <2>1, <3>1 DEF LockSharedCall, Positions, ArrivedRegistered, Registered
    <3>7. ClaimHeld' /\ ScannedAreOut'
      BY <1>1, <2>1, <3>1 DEF LockSharedCall, ClaimHeld, WriterExclusion,
         ScannedAreOut, Claimants, Positions, Registered
    <3> QED BY <3>4, <3>5, <3>6, <3>7
  <2>2. CASE thread_id[t] # NoTid
    BY <1>1, <2>2 DEF LockSharedCall, IdsDrawn, OwnSlot, Positions, ArrivedRegistered,
       ClaimHeld, WriterExclusion, ScannedAreOut, Claimants, Registered
  <2> QED BY <2>1, <2>2
<1>2. ASSUME NEW t \in Threads, Arrive(t) PROVE IInv'
  <2>1. TypeOK' /\ Positions' /\ IdsDrawn'
    BY <1>2 DEF Arrive, Positions, IdsDrawn, OwnSlot, Registered
  <2>2. t \in Registered /\ thread_id[t] \in Slots
    BY <1>0, <1>2 DEF Arrive, Positions
  <2>3. ArrivedRegistered'
    BY <1>0, <1>2, <2>2 DEF Arrive, ArrivedRegistered, Positions
  <2>4. ClaimHeld' /\ ScannedAreOut'
    BY <1>2 DEF Arrive, ClaimHeld, WriterExclusion, ScannedAreOut, Claimants, Registered
  <2> QED BY <2>1, <2>3, <2>4
<1>3. ASSUME NEW t \in Threads, DrainArrive(t) PROVE IInv'
  BY <1>3 DEF DrainArrive, Positions
<1>4. ASSUME NEW t \in Threads, Check(t) PROVE IInv'
  <2>1. CASE writers_ = UNLOCKED
    <3>1. Claimants = {} /\ Claimants' = {}
      BY <1>4, <2>1 DEF Check, ClaimHeld, Claimants
    <3>2. TypeOK' /\ Positions' /\ IdsDrawn'
      BY <1>4, <2>1 DEF Check, Positions, IdsDrawn, OwnSlot, Registered
    <3>3. ArrivedRegistered'
      BY <1>4, <2>1 DEF Check, ArrivedRegistered
    <3>4. ClaimHeld' /\ ScannedAreOut'
      BY <1>4, <2>1, <3>1 DEF Check, ClaimHeld, WriterExclusion, ScannedAreOut
    <3> QED BY <3>2, <3>3, <3>4
  <2>2. CASE writers_ # UNLOCKED
    <3>0. pc[t] = "check" /\ pc' = [pc EXCEPT ![t] = "wait"]
      BY <1>4, <2>2 DEF Check
    <3>1. TypeOK'
      BY <1>4, <2>2, <3>0 DEF Check, Depart
    <3>4. Positions'
      BY <1>4, <2>2, <3>0 DEF Check, Depart, Positions, Registered
    <3>5. IdsDrawn'
      BY <1>4, <2>2 DEF Check, IdsDrawn, OwnSlot, Registered
    <3>2. ArrivedRegistered'
      BY <1>0, <1>4, <2>2 DEF Check, Depart, ArrivedRegistered, Positions, IdsDrawn,
         OwnSlot, Registered
    <3>3. ClaimHeld' /\ ScannedAreOut'
      BY <1>4, <2>2 DEF Check, ClaimHeld, WriterExclusion, ScannedAreOut, Claimants,
         Registered
    <3> QED BY <3>1, <3>2, <3>3, <3>4, <3>5
  <2> QED BY <2>1, <2>2
<1>5. ASSUME NEW t \in Threads, Wait(t) PROVE IInv'
  BY <1>5 DEF Wait, IdsDrawn, OwnSlot, Positions, ArrivedRegistered,
     ClaimHeld, WriterExclusion, ScannedAreOut, Claimants, Registered
<1>6. ASSUME NEW t \in Threads, UnlockShared(t) PROVE IInv'
  <2>1. depth[t] = 1 /\ depth'[t] = 0
    BY <1>6 DEF UnlockShared, Positions
  <2>2. TypeOK' /\ Positions' /\ IdsDrawn'
    BY <1>6, <2>1 DEF UnlockShared, Depart, Positions, IdsDrawn, OwnSlot, Registered
  <2>3. ArrivedRegistered'
    BY <1>0, <1>6, <2>1 DEF UnlockShared, Depart, ArrivedRegistered, Positions, IdsDrawn,
       OwnSlot, Registered
  <2>4. ClaimHeld' /\ ScannedAreOut'
    BY <1>6, <2>1 DEF UnlockShared, ClaimHeld, WriterExclusion, ScannedAreOut, Claimants,
       Registered
  <2> QED BY <2>2, <2>3, <2>4
<1>7. ASSUME NEW t \in Threads, LockCall(t) PROVE IInv'
  BY <1>7 DEF LockCall, IdsDrawn, OwnSlot, Positions, ArrivedRegistered,
     ClaimHeld, WriterExclusion, ScannedAreOut, Claimants, Registered
<1>8. ASSUME NEW t \in Threads, SpinLoad(t) PROVE IInv'
  BY <1>8 DEF SpinLoad, IdsDrawn, OwnSlot, Positions, ArrivedRegistered,
     ClaimHeld, WriterExclusion, ScannedAreOut, Claimants, Registered
<1>9. ASSUME NEW t \in Threads, SpinCas(t) PROVE IInv'
  BY <1>9 DEF SpinCas, IdsDrawn, OwnSlot, Positions, ArrivedRegistered,
     ClaimHeld, WriterExclusion, ScannedAreOut, Claimants, Registered
<1>10. ASSUME NEW t \in Threads, Scan(t) PROVE IInv'
  BY <1>10 DEF Scan, IdsDrawn, OwnSlot, Positions, ArrivedRegistered,
     ClaimHeld, WriterExclusion, ScannedAreOut, Claimants, Registered, Slots
<1>11. ASSUME NEW t \in Threads, EnterWrite(t) PROVE IInv'
  BY <1>0, <1>11 DEF EnterWrite, IdsDrawn, OwnSlot, Positions, ArrivedRegistered,
     ClaimHeld, WriterExclusion, ScannedAreOut, Claimants, Registered, Slots
<1>12. ASSUME NEW t \in Threads, Unlock(t) PROVE IInv'
  BY <1>12 DEF Unlock, IdsDrawn, OwnSlot, Positions, ArrivedRegistered,
     ClaimHeld, WriterExclusion, ScannedAreOut, Claimants, Registered
<1>13. ASSUME NEW t \in Threads, TryLockCall(t) \/ TryLoad(t) \/ TryCas(t) PROVE IInv'
  BY <1>13 DEF TryLockCall, TryLoad, TryCas, Positions
<1>14. CASE UNCHANGED vars
  BY <1>14 DEF vars, IdsDrawn, OwnSlot, Positions, ArrivedRegistered,
     ClaimHeld, WriterExclusion, ScannedAreOut, Claimants, Registered
<1> QED BY <1>1, <1>2, <1>3, <1>4, <1>5, <1>6, <1>7, <1>8, <1>9, <1>10, <1>11,
           <1>12, <1>13, <1>14 DEF Next, Progress, Call

\* Under SoundUse the argument of the lock's exclusion holds at every step:
\* ids without gaps, arrivals before looks, no reader behind the scan.
THEOREM LockInvariant == ASSUME SoundUse PROVE Spec => []IInv
<1>1. IInv /\ [Next]_vars => IInv'
  BY NextInv
<1> QED BY <1>1, InitInv, PTL DEF Spec

\* Under SoundUse every variable keeps its type, for any set of threads.
THEOREM TypeCorrect == ASSUME SoundUse PROVE Spec => []TypeOK
<1>1. IInv => TypeOK
  BY DEF IInv
<1> QED BY <1>1, LockInvariant, PTL

\* Under SoundUse no thread is inside a shared section while another is
\* inside the exclusive one: the guarantee the repository's closures need.
THEOREM ReadersExcluded == ASSUME SoundUse PROVE Spec => []ReaderExclusion
<1>1. IInv => ReaderExclusion
  <2> SUFFICES ASSUME IInv, NEW t \in Writers, NEW u \in Readers PROVE FALSE
    BY DEF ReaderExclusion
  <2>1. u \in Registered /\ depth[u] # 0
    BY DEF IInv, TypeOK, Positions, Readers
  <2> QED BY <2>1 DEF IInv, ScannedAreOut, Claimants, Writers
<1> QED BY <1>1, LockInvariant, PTL

\* Under SoundUse a reader that is inside has a slot, and is registered in it.
THEOREM ReadersAreRegistered == ASSUME SoundUse PROVE Spec => []ReadersRegistered
<1>1. IInv => ReadersRegistered
  <2> SUFFICES ASSUME IInv, NEW t \in Readers
               PROVE thread_id[t] \in Slots /\ states_[thread_id[t]] = READING
    BY DEF ReadersRegistered
  <2>1. depth[t] = 1 /\ t \in Registered
    BY DEF IInv, TypeOK, Positions, Readers
  <2> QED BY <2>1, IdInRange DEF IInv, ArrivedRegistered, Readers
<1> QED BY <1>1, LockInvariant, PTL

\* Under SoundUse a slot is set only for a thread that is inside or about to
\* look for a writer: no registration is left behind to hold writers up.
THEOREM NoRegistrationLeaks == ASSUME SoundUse PROVE Spec => []NoLeakedRegistration
<1>1. Init => NoLeakedRegistration
  BY DEF Init, NoLeakedRegistration, NOT_READING, READING
<1>2. IInv /\ NoLeakedRegistration /\ [Next]_vars => NoLeakedRegistration'
  <2> SUFFICES ASSUME IInv, NoLeakedRegistration, [Next]_vars,
                      NEW i \in Slots, states_'[i] = READING
               PROVE  \E u \in Threads :
                         thread_id'[u] = i /\ (depth'[u] > 0 \/ pc'[u] = "check")
    BY DEF NoLeakedRegistration
  <2> USE DEF SoundUse, IInv, TypeOK, Goto, Stored, PCs, NOT_READING, READING, NoTid, Slots
  <2>0. \A u \in Threads : ~arriving[u] /\ (u \in Registered => thread_id[u] \in Slots)
    BY IdInRange DEF Positions
  <2>1. ASSUME NEW t \in Threads, Arrive(t), thread_id[t] = i
        PROVE  thread_id'[t] = i /\ pc'[t] = "check"
    BY <2>1 DEF Arrive
  <2>2. ASSUME NEW t \in Threads, Check(t) \/ UnlockShared(t), thread_id[t] = i
        PROVE  Check(t) /\ depth'[t] > 0 /\ thread_id'[t] = i
    BY <2>2, <2>0, RegistryAssumption DEF Check, UnlockShared, Depart, Positions, Registered
  <2>3. CASE \E t \in Threads : /\ Arrive(t) \/ Check(t) \/ UnlockShared(t)
                                /\ thread_id[t] = i
    BY <2>1, <2>2, <2>3
  <2>4. CASE ~\E t \in Threads : /\ Arrive(t) \/ Check(t) \/ UnlockShared(t)
                                 /\ thread_id[t] = i
    <3>1. states_[i] = READING
      BY <2>4, <2>0, RegistryAssumption
         DEF Next, Progress, Call, LockSharedCall, Arrive, DrainArrive, Check, Wait, UnlockShared,
             Depart, LockCall, SpinLoad, SpinCas, Scan, EnterWrite, Unlock, TryLockCall,
             TryLoad, TryCas, vars, Positions, Registered
    <3>2. PICK u \in Threads : thread_id[u] = i /\ (depth[u] > 0 \/ pc[u] = "check")
      BY <3>1 DEF NoLeakedRegistration
    <3>3. thread_id'[u] = i /\ (depth'[u] > 0 \/ pc'[u] = "check")
      BY <2>4, <3>2, <2>0, RegistryAssumption
         DEF Next, Progress, Call, LockSharedCall, Arrive, DrainArrive, Check, Wait, UnlockShared,
             Depart, LockCall, SpinLoad, SpinCas, Scan, EnterWrite, Unlock, TryLockCall,
             TryLoad, TryCas, vars, Positions, Registered
    <3> QED BY <3>3
  <2> QED BY <2>3, <2>4
<1> QED BY <1>1, <1>2, LockInvariant, PTL DEF Spec

\* At most one thread holds the writers' lock, however the lock is used:
\* with any compiler, nesting, number of threads and use of try_lock().
WInv == /\ pc \in [Threads -> PCs]
        /\ WriterExclusion
        /\ writers_ = UNLOCKED => Claimants = {}

THEOREM WritersExcluded == Spec => []WriterExclusion
<1>1. Init => WInv
  BY DEF Init, WInv, WriterExclusion, Claimants, PCs
<1>2. WInv /\ [Next]_vars => WInv'
  <2> SUFFICES ASSUME WInv, [Next]_vars PROVE WInv'
    OBVIOUS
  <2> USE DEF WInv, WriterExclusion, Claimants, Goto, PCs, UNLOCKED, LOCKED
  <2>1. ASSUME NEW t \in Threads, LockSharedCall(t) PROVE WInv'
    BY <2>1 DEF LockSharedCall
  <2>2. ASSUME NEW t \in Threads, Arrive(t) \/ DrainArrive(t) PROVE WInv'
    BY <2>2 DEF Arrive, DrainArrive
  <2>3. ASSUME NEW t \in Threads, Check(t) PROVE WInv'
    BY <2>3 DEF Check
  <2>4. ASSUME NEW t \in Threads, Wait(t) \/ UnlockShared(t) PROVE WInv'
    BY <2>4 DEF Wait, UnlockShared
  <2>5. ASSUME NEW t \in Threads, LockCall(t) \/ TryLockCall(t) PROVE WInv'
    BY <2>5 DEF LockCall, TryLockCall
  <2>6. ASSUME NEW t \in Threads, SpinLoad(t) \/ TryLoad(t) PROVE WInv'
    BY <2>6 DEF SpinLoad, TryLoad
  <2>7. ASSUME NEW t \in Threads, SpinCas(t) PROVE WInv'
    BY <2>7 DEF SpinCas
  <2>8. ASSUME NEW t \in Threads, TryCas(t) PROVE WInv'
    BY <2>8 DEF TryCas
  <2>9. ASSUME NEW t \in Threads, Scan(t) \/ EnterWrite(t) PROVE WInv'
    BY <2>9 DEF Scan, EnterWrite
  <2>10. ASSUME NEW t \in Threads, Unlock(t) PROVE WInv'
    BY <2>10 DEF Unlock
  <2>11. CASE UNCHANGED vars
    BY <2>11 DEF vars
  <2> QED BY <2>1, <2>2, <2>3, <2>4, <2>5, <2>6, <2>7, <2>8, <2>9, <2>10, <2>11
          DEF Next, Progress, Call
<1>3. WInv => WriterExclusion
  BY DEF WInv
<1> QED BY <1>1, <1>2, <1>3, PTL DEF Spec

\* Under IInv the refinement mapping's claim names the one claiming thread.
LEMMA ClaimantIs == ASSUME ClaimHeld, NEW t \in Claimants
                    PROVE  Claimant = t /\ t # NoThread
  BY ThreadsAssumption DEF ClaimHeld, WriterExclusion, Claimant, Claimants

LEMMA StepRefines == ASSUME SoundUse, IInv, IInv', [Next]_vars
                     PROVE  [RW!Next]_(RW!vars)
<1> USE DEF Goto, PCs
<1> DEFINE Same == UNCHANGED <<Readers, Claimant, Writers # {}>>
<1> SUFFICES Same \/ RW!Next
  BY DEF RW!vars
<1>1. ASSUME NEW t \in Threads, UNCHANGED depth,
             pc' = [pc EXCEPT ![t] = pc'[t]],
             pc[t] \notin {"scan", "writing"}, pc'[t] \notin {"scan", "writing"}
      PROVE  Same
  <2>1. \A u \in Threads : u # t => pc'[u] = pc[u]
    BY <1>1 DEF IInv, TypeOK
  <2>2. Claimants' = Claimants /\ Writers' = Writers
    BY <1>1, <2>1 DEF Claimants, Writers
  <2> QED BY <1>1, <2>2 DEF Readers, Claimant
<1>2. ASSUME NEW t \in Threads, Check(t) PROVE Same \/ RW!Next
  <2>1. CASE writers_ = UNLOCKED
    <3>1. pc[t] = "check" /\ depth[t] = 0 /\ depth' = [depth EXCEPT ![t] = 1]
      BY <1>2, <2>1 DEF Check, IInv, Positions
    <3>2. Readers' = Readers \union {t} /\ t \notin Readers
      BY <3>1 DEF Readers, IInv, TypeOK
    <3>3. Claimants = {} /\ Claimants' = {} /\ Writers = {} /\ Writers' = {}
      BY <1>2, <2>1 DEF Check, IInv, TypeOK, ClaimHeld, Claimants, Writers, UNLOCKED, LOCKED
    <3>4. RW!BeginRead(t)
      BY <3>2, <3>3 DEF RW!BeginRead, Claimant
    <3> QED BY <3>4 DEF RW!Next
  <2>2. CASE writers_ # UNLOCKED
    BY <1>1, <1>2, <2>2 DEF Check, IInv, TypeOK
  <2> QED BY <2>1, <2>2
<1>3. ASSUME NEW t \in Threads, UnlockShared(t) PROVE Same \/ RW!Next
  <2>1. depth[t] = 1 /\ depth' = [depth EXCEPT ![t] = 0] /\ UNCHANGED pc
    <3>1. depth[t] = 1
      BY <1>3 DEF UnlockShared, IInv, Positions
    <3> QED BY <1>3, <3>1 DEF UnlockShared
  <2>2. Readers' = Readers \ {t} /\ t \in Readers
    BY <2>1 DEF Readers, IInv, TypeOK
  <2>3. UNCHANGED <<Claimant, Writers # {}>>
    BY <2>1 DEF Claimants, Claimant, Writers
  <2>4. RW!EndRead(t)
    BY <2>2, <2>3 DEF RW!EndRead
  <2> QED BY <2>4 DEF RW!Next
<1>4. ASSUME NEW t \in Threads, SpinCas(t) PROVE Same \/ RW!Next
  <2>1. CASE writers_ = UNLOCKED
    <3>1. pc[t] = "cas" /\ pc' = [pc EXCEPT ![t] = "scan"] /\ UNCHANGED depth
      BY <1>4, <2>1 DEF SpinCas
    <3>2. Claimants = {} /\ t \in Claimants'
      BY <2>1, <3>1 DEF IInv, TypeOK, ClaimHeld, Claimants, UNLOCKED, LOCKED
    <3>3. Claimant = NoThread /\ Claimant' = t
      BY <3>2, ClaimantIs DEF Claimant, IInv, ClaimHeld, WriterExclusion
    <3>4. Readers' = Readers /\ t \notin Readers
      BY <3>1 DEF Readers, IInv, TypeOK, Positions
    <3>5. Writers = {} /\ Writers' = {}
      BY <3>1, <3>2 DEF Writers, Claimants, IInv, TypeOK
    <3>6. RW!Claim(t)
      BY <3>3, <3>4, <3>5 DEF RW!Claim
    <3> QED BY <3>6 DEF RW!Next
  <2>2. CASE writers_ # UNLOCKED
    BY <1>1, <1>4, <2>2 DEF SpinCas, IInv, TypeOK
  <2> QED BY <2>1, <2>2
<1>5. ASSUME NEW t \in Threads, Scan(t) PROVE Same \/ RW!Next
  <2>1. UNCHANGED <<pc, depth>>
    BY <1>5 DEF Scan, IInv, TypeOK
  <2> QED BY <2>1 DEF Readers, Claimants, Claimant, Writers
<1>6. ASSUME NEW t \in Threads, EnterWrite(t) PROVE Same \/ RW!Next
  <2>1. pc[t] = "scan" /\ pc' = [pc EXCEPT ![t] = "writing"] /\ UNCHANGED depth
    BY <1>6 DEF EnterWrite
  <2>2. t \in Claimants /\ Claimants' = Claimants /\ t \in Writers'
    BY <2>1 DEF Claimants, Writers, IInv, TypeOK
  <2>3. Claimant = t /\ Claimant' = t
    BY <2>2, ClaimantIs DEF Claimant, IInv
  <2>4. Writers = {}
    BY <2>1, <2>2 DEF IInv, ClaimHeld, WriterExclusion, Claimants, Writers
  <2>5. Readers = {} /\ Readers' = {}
    <3>1. ASSUME NEW u \in Readers' PROVE FALSE
      BY <2>2, <3>1 DEF Readers, Writers, Claimants, IInv, TypeOK, Positions, ScannedAreOut
    <3> QED BY <2>1, <3>1 DEF Readers
  <2>6. RW!BeginWrite(t)
    BY <2>2, <2>3, <2>4, <2>5 DEF RW!BeginWrite
  <2> QED BY <2>6 DEF RW!Next
<1>7. ASSUME NEW t \in Threads, Unlock(t) PROVE Same \/ RW!Next
  <2>1. pc[t] = "writing" /\ pc' = [pc EXCEPT ![t] = "client"] /\ UNCHANGED depth
    BY <1>7 DEF Unlock
  <2>2. t \in Claimants /\ t \in Writers /\ Claimant = t
    BY <2>1, ClaimantIs DEF Claimants, Writers, IInv
  <2>3. Claimants' = {} /\ Writers' = {}
    BY <2>1, <2>2 DEF IInv, TypeOK, ClaimHeld, WriterExclusion, Claimants, Writers
  <2>4. RW!EndWrite(t)
    BY <2>1, <2>2, <2>3 DEF RW!EndWrite, Claimant, Readers
  <2> QED BY <2>4 DEF RW!Next
<1>8. ASSUME NEW t \in Threads, \/ LockSharedCall(t) \/ Arrive(t) \/ Wait(t)
                                \/ LockCall(t) \/ SpinLoad(t)
      PROVE  Same
  BY <1>1, <1>8 DEF LockSharedCall, Arrive, Wait, LockCall, SpinLoad, IInv, TypeOK
<1>9. ASSUME NEW t \in Threads, \/ DrainArrive(t) \/ TryLockCall(t)
                                \/ TryLoad(t) \/ TryCas(t)
      PROVE  FALSE
  BY <1>9 DEF DrainArrive, TryLockCall, TryLoad, TryCas, IInv, Positions, SoundUse
<1>10. CASE UNCHANGED vars
  BY <1>10 DEF vars, Readers, Claimants, Claimant, Writers
<1> QED BY <1>2, <1>3, <1>4, <1>5, <1>6, <1>7, <1>8, <1>9, <1>10
        DEF Next, Progress, Call

\* Under SoundUse the lock implements the reader-writer lock with writer
\* preference of RwLock: no reader enters between a writer's claim and its exit.
THEOREM LockImplementsRwLock == ASSUME SoundUse PROVE Spec => Implements
<1>1. Init => RW!Init
  BY DEF Init, RW!Init, Readers, Claimants, Claimant, Writers
<1>2. IInv /\ IInv' /\ [Next]_vars => [RW!Next]_(RW!vars)
  BY StepRefines
<1> QED BY <1>1, <1>2, LockInvariant, PTL DEF Implements, Spec, RW!Spec
=============================================================================
