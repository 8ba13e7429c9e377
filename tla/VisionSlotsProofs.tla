-------------------------- MODULE VisionSlotsProofs --------------------------
(***************************************************************************)
(* Proofs about VisionSlots: the lease of a request covers the call that   *)
(* was made under it, so the number of calls never exceeds the number of   *)
(* leases that a script would still count.                                 *)
(***************************************************************************)
EXTENDS VisionSlots, FiniteSetTheorems, TLAPS

USE VisionAssumption

(* Every set of leases is finite and the cleanup of expired ones leaves no
   more than there were (distributed_limit.py, 26-27).                     *)
LEMMA LiveIsSmaller ==
    ASSUME leases \subseteq Image
    PROVE  /\ IsFiniteSet(leases)
           /\ IsFiniteSet(Live)
           /\ Cardinality(leases) \in Nat
           /\ Cardinality(Live) \in Nat
           /\ Cardinality(Live) <= Cardinality(leases)
<1>1. IsFiniteSet(leases)
  BY FS_Subset
<1>2. Live \subseteq leases
  BY DEF Live
<1>3. QED
  BY <1>1, <1>2, FS_Subset, FS_CardinalityType

(* A script that finds fewer live leases than slots adds its own without
   exceeding them (distributed_limit.py, 27-28).                           *)
LEMMA AddedLeaseFits ==
    ASSUME NEW i \in Image, leases \subseteq Image, Cardinality(Live) < Slots
    PROVE  Cardinality(Live \cup {i}) <= Slots
<1>1. IsFiniteSet(Live) /\ Cardinality(Live) \in Nat
  BY LiveIsSmaller
<1>2. \/ Cardinality(Live \cup {i}) = Cardinality(Live)
      \/ Cardinality(Live \cup {i}) = Cardinality(Live) + 1
  BY <1>1, FS_AddElement
<1>3. QED
  BY <1>1, <1>2

-----------------------------------------------------------------------------
LEMMA InitInvariant == Init => IInv
<1> SUFFICES ASSUME Init PROVE IInv
  OBVIOUS
<1>1. TypeOK
  BY DEF Init, TypeOK, ImagePc
<1>2. Cardinality(leases) <= Slots
  BY FS_EmptySet DEF Init
<1>3. \A i \in Image : LeaseCovers(i)
  BY DEF Init, LeaseCovers
<1>4. QED
  BY <1>1, <1>2, <1>3 DEF IInv

(* Steps of a coroutine that touch no lease. *)
LEMMA LocalSteps ==
    ASSUME IInv, NEW i \in Image,
           \/ StartOcr(i) \/ EndOcr(i) \/ EnterLocal(i) \/ Try(i)
           \/ AcquireError(i) \/ Resume(i) \/ EndCall(i)
    PROVE  IInv'
<1> USE DEF Goto
<1>1. UNCHANGED redis
  BY DEF StartOcr, EndOcr, EnterLocal, Try, AcquireError, Resume, EndCall
<1>2. TypeOK'
  <2>1. CASE StartOcr(i)
    BY <2>1 DEF StartOcr, IInv, TypeOK, ImagePc, redis
  <2>2. CASE EndOcr(i)
    BY <2>2 DEF EndOcr, IInv, TypeOK, ImagePc, redis
  <2>3. CASE EnterLocal(i)
    BY <2>3 DEF EnterLocal, IInv, TypeOK, ImagePc, redis
  <2>4. CASE Try(i)
    BY <2>4 DEF Try, IInv, TypeOK, ImagePc, redis
  <2>5. CASE AcquireError(i)
    BY <2>5 DEF AcquireError, IInv, TypeOK, ImagePc, redis
  <2>6. CASE Resume(i)
    BY <2>6 DEF Resume, IInv, TypeOK, ImagePc, redis
  <2>7. CASE EndCall(i)
    BY <2>7 DEF EndCall, IInv, TypeOK, ImagePc, redis
  <2>8. QED
    BY <2>1, <2>2, <2>3, <2>4, <2>5, <2>6, <2>7
<1>3. ASSUME NEW j \in Image PROVE LeaseCovers(j)'
  <2> USE DEF IInv, TypeOK, LeaseCovers, redis, ImagePc
  <2>1. CASE StartOcr(i)
    BY <2>1 DEF StartOcr
  <2>2. CASE EndOcr(i)
    BY <2>2 DEF EndOcr
  <2>3. CASE EnterLocal(i)
    BY <2>3 DEF EnterLocal
  <2>4. CASE Try(i)
    BY <2>4 DEF Try
  <2>5. CASE AcquireError(i)
    BY <2>5 DEF AcquireError
  <2>6. CASE Resume(i)
    BY <2>6 DEF Resume
  <2>7. CASE EndCall(i)
    BY <2>7 DEF EndCall
  <2>8. QED
    BY <2>1, <2>2, <2>3, <2>4, <2>5, <2>6, <2>7
<1>4. QED
  BY <1>1, <1>2, <1>3 DEF IInv, redis

(* The call begins while its lease has more time left than the call takes. *)
LEMMA AnsweredStep == ASSUME IInv, NEW i \in Image, Answered(i) PROVE IInv'
<1> USE DEF Goto, IInv, TypeOK, redis, ImagePc
<1>1. TypeOK'
  BY DEF Answered
<1>2. ASSUME NEW j \in Image PROVE LeaseCovers(j)'
  BY DEF Answered, LeaseCovers
<1>3. QED
  BY <1>1, <1>2 DEF Answered

(* A script removes only members without time left, so it leaves the lease of
   every request that has one, and gives its own the full time.            *)
LEMMA EvalStep == ASSUME IInv, NEW i \in Image, Eval(i) PROVE IInv'
<1> USE DEF IInv, redis
<1>1. leases \subseteq Image /\ Live \subseteq Image
  BY DEF TypeOK, Live
<1>2. TypeOK'
  BY <1>1 DEF Eval, TypeOK, ImagePc
<1>3. Cardinality(leases')  <= Slots
  <2>1. CASE leases' = Live \cup {i} /\ Cardinality(Live) < Slots
    BY <1>1, <2>1, AddedLeaseFits
  <2>2. CASE leases' = Live
    BY <1>1, <2>2, LiveIsSmaller
  <2>3. QED
    BY <2>1, <2>2 DEF Eval
<1>4. ASSUME NEW j \in Image PROVE LeaseCovers(j)'
  <2>1. /\ LeaseCovers(i) /\ LeaseCovers(j)
        /\ timer \in [Image -> Nat] /\ left \in [Image -> 0..TTL]
        /\ answer \in [Image -> {"none", "yes", "no"}] /\ keyLeft \in 0..TTL + 1
    BY DEF TypeOK
  <2>2. CASE leases' = Live
    BY <2>1, <2>2 DEF Eval, LeaseCovers, Live
  <2>3. CASE leases' = Live \cup {i} /\ j = i
    BY <2>1, <2>3 DEF Eval, LeaseCovers, Live
  <2>4. CASE leases' = Live \cup {i} /\ j # i
    BY <2>1, <2>4 DEF Eval, LeaseCovers, Live
  <2>5. QED
    BY <2>2, <2>3, <2>4 DEF Eval
<1>5. QED
  BY <1>2, <1>3, <1>4

LEMMA LoseStep == ASSUME IInv, NEW i \in Image, Lose(i) PROVE IInv'
<1>1. TypeOK'
  BY DEF Lose, IInv, TypeOK, redis
<1>2. ASSUME NEW j \in Image PROVE LeaseCovers(j)'
  BY DEF Lose, IInv, TypeOK, LeaseCovers, redis
<1>3. QED
  BY <1>1, <1>2 DEF Lose, IInv, redis

(* A release takes away its own lease, and the key only when it was the last. *)
LEMMA ReleaseStep == ASSUME IInv, NEW i \in Image, Release(i) PROVE IInv'
<1> USE DEF Goto, IInv, redis
<1>1. TypeOK'
  BY DEF Release, TypeOK, ImagePc
<1>2. Cardinality(leases') <= Slots
  <2>1. leases' \subseteq leases
    BY DEF Release
  <2>2. IsFiniteSet(leases) /\ Cardinality(leases) \in Nat
    BY LiveIsSmaller DEF TypeOK
  <2>3. Cardinality(leases') \in Nat /\ Cardinality(leases') <= Cardinality(leases)
    BY <2>1, <2>2, FS_Subset, FS_CardinalityType
  <2>4. QED
    BY <2>2, <2>3
<1>3. ASSUME NEW j \in Image PROVE LeaseCovers(j)'
  BY DEF Release, TypeOK, LeaseCovers
<1>4. QED
  BY <1>1, <1>2, <1>3

(* A cancelled or crashed conversion touches no lease. *)
LEMMA EndOfConversion ==
    ASSUME IInv, NEW d \in Doc, Cancel(d) \/ Crash(d) PROVE IInv'
<1> USE DEF IInv, redis
<1>1. TypeOK'
  <2>1. CASE Cancel(d)
    BY <2>1 DEF Cancel, TypeOK, ImagePc
  <2>2. CASE Crash(d)
    BY <2>2 DEF Crash, TypeOK, ImagePc
  <2>3. QED
    BY <2>1, <2>2
<1>2. ASSUME NEW j \in Image PROVE LeaseCovers(j)'
  <2>1. CASE Cancel(d)
    BY <2>1 DEF Cancel, TypeOK, LeaseCovers, ImagePc
  <2>2. CASE Crash(d)
    BY <2>2 DEF Crash, TypeOK, LeaseCovers
  <2>3. QED
    BY <2>1, <2>2
<1>3. leases' = leases
  BY DEF Cancel, Crash
<1>4. QED
  BY <1>1, <1>2, <1>3

(* Time lowers the lease and what it has to cover alike, and the key lives
   longer than each of its members.                                        *)
LEMMA TickStep == ASSUME IInv, Tick PROVE IInv'
<1> USE DEF IInv, redis
<1>1. TypeOK'
  BY DEF Tick, TypeOK, Less
<1>2. Cardinality(leases') <= Slots
  BY FS_EmptySet DEF Tick
<1>3. ASSUME NEW j \in Image PROVE LeaseCovers(j)'
  BY DEF Tick, TypeOK, LeaseCovers, Less
<1>4. QED
  BY <1>1, <1>2, <1>3

LEMMA NextInvariant == IInv /\ [Next]_vars => IInv'
<1> SUFFICES ASSUME IInv, [Next]_vars PROVE IInv'
  OBVIOUS
<1>1. ASSUME NEW i \in Image, ImageStep(i) PROVE IInv'
  BY <1>1, LocalSteps, AnsweredStep, ReleaseStep DEF ImageStep
<1>2. ASSUME NEW i \in Image, Eval(i) \/ Lose(i) PROVE IInv'
  BY <1>2, EvalStep, LoseStep
<1>3. ASSUME NEW d \in Doc, Cancel(d) \/ Crash(d) PROVE IInv'
  BY <1>3, EndOfConversion
<1>4. CASE Tick
  BY <1>4, TickStep
<1>5. CASE UNCHANGED vars
  BY <1>5 DEF vars, coroutines, redis, IInv, TypeOK, LeaseCovers
<1>6. QED
  BY <1>1, <1>2, <1>3, <1>4, <1>5 DEF Next

(* The inductive invariant: what a request knows of its lease is true, and
   there are no more leases than slots.                                    *)
THEOREM Invariant == Spec => []IInv
  BY InitInvariant, NextInvariant, PTL DEF Spec

-----------------------------------------------------------------------------
(* Over all worker processes, at most VISION_GLOBAL_CONCURRENCY calls of the
   vision model are under way, for any number of images and documents and any
   timeouts that config.py admits.                                         *)
THEOREM SlotsAreRespected == Spec => []SlotsRespected
<1>1. IInv => SlotsRespected
  <2> SUFFICES ASSUME IInv PROVE Cardinality(Calling) <= Slots
    BY DEF SlotsRespected
  <2>1. Calling \subseteq leases
    BY DEF IInv, LeaseCovers, Calling
  <2>2. IsFiniteSet(leases) /\ Cardinality(leases) \in Nat
    BY LiveIsSmaller DEF IInv, TypeOK
  <2>3. Cardinality(Calling) \in Nat /\ Cardinality(Calling) <= Cardinality(leases)
    BY <2>1, <2>2, FS_Subset, FS_CardinalityType
  <2>4. QED
    BY <2>2, <2>3 DEF IInv
<1>2. QED
  BY <1>1, Invariant, PTL

(* A lease with time left goes only by its own release. *)
THEOREM LiveLeasesStay == Spec => LiveLeaseStays
<1>1. IInv /\ [Next]_vars
        => [\A i \in Live : i \notin leases' => pc[i] = "release"]_vars
  <2> SUFFICES ASSUME IInv, Next, NEW i \in Live, i \notin leases'
               PROVE  pc[i] = "release"
    BY DEF vars
  <2>1. i \in Image /\ i \in leases /\ left[i] > 0
    BY DEF Live, IInv, TypeOK
  <2>2. ASSUME NEW j \in Image, ImageStep(j) PROVE pc[i] = "release"
    <3>1. CASE Release(j)
      BY <2>1, <3>1 DEF Release, redis
    <3>2. CASE ~Release(j)
      BY <2>1, <2>2, <3>2 DEF ImageStep, StartOcr, EndOcr, EnterLocal, Try,
           Answered, AcquireError, Resume, EndCall, redis
    <3>3. QED
      BY <3>1, <3>2
  <2>3. ASSUME NEW j \in Image, Eval(j) \/ Lose(j) PROVE FALSE
    BY <2>1, <2>3 DEF Eval, Lose, Live, redis
  <2>4. ASSUME NEW d \in Doc, Cancel(d) \/ Crash(d) PROVE FALSE
    BY <2>1, <2>4 DEF Cancel, Crash, redis
  <2>5. ASSUME Tick PROVE FALSE
    <3>1. keyLeft > left[i] /\ keyLeft \in Nat /\ left[i] \in Nat
      BY <2>1 DEF IInv, LeaseCovers, TypeOK
    <3>2. keyLeft' # 0
      BY <2>1, <2>5, <3>1 DEF Tick, Less
    <3>3. QED
      BY <2>1, <2>5, <3>2 DEF Tick
  <2>6. QED
    BY <2>2, <2>3, <2>4, <2>5 DEF Next
<1>2. QED
  BY <1>1, Invariant, PTL DEF Spec, LiveLeaseStays
=============================================================================
