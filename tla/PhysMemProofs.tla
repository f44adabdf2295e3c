--------------------------- MODULE PhysMemProofs ----------------------------
(***************************************************************************)
(* For any number of callers, blocks and bits to a word: the invariants of *)
(* PhysMem, and that PhysMem implements BlockAllocator.                    *)
(***************************************************************************)
EXTENDS PhysMem, WellFoundedInduction, FiniteSetTheorems, TLAPS

\* What the holder of phys_mutex knows between its reads and its store, and
\* what a caller's arguments are until it has been answered.
HolderKnows ==
    \A c \in Callers :
        /\ pc[c] \in {"lock", "read"} => op[c] # "none"
        /\ pc[c] \in {"load", "store"} => op[c] \in {"alloc", "specific", "free"}
        /\ pc[c] \in {"load", "store"} /\ op[c] # "free" => block[c] \notin bitset
        /\ pc[c] \in {"lock", "read", "load", "store"} /\ op[c] = "free" =>
               block[c] \in owned[c]
        /\ pc[c] \in {"lock", "read", "load", "store"} /\ op[c] = "specific" =>
               block[c] \in Blocks
        /\ pc[c] = "store" => word[c] = bitset \cap Box(block[c])

IInv ==
    /\ TypeOK
    /\ MutualExclusion
    /\ BitsMatchOwners
    /\ ExclusiveOwners
    /\ NoPanic
    /\ HolderKnows

LEMMA ReservedBits == Reserved \subseteq Bits /\ 0 \in Reserved /\ Blocks # {}
BY PhysMemAssumption DEF PhysMemAssumption, Reserved, Bits, Blocks

\* What mem_stats counts is finite, so its answer is a number.
LEMMA UsedIsNat ==
    ASSUME NEW s PROVE Cardinality(s \cap 0..(TotalBlocks - 1)) \in Nat
<1>1. 0 \in Int /\ TotalBlocks - 1 \in Int
  BY PhysMemAssumption DEF PhysMemAssumption
<1>2. IsFiniteSet(0..(TotalBlocks - 1))
  BY <1>1, FS_Interval
<1>3. s \cap 0..(TotalBlocks - 1) \in SUBSET (0..(TotalBlocks - 1))
  OBVIOUS
<1> QED
  BY <1>2, <1>3, FS_Subset, FS_CardinalityType

\* Of the clear bits of the array, if there are any, one is the lowest.
LEMMA LeastOfNats ==
    ASSUME NEW S, S \subseteq Nat, S # {}
    PROVE  \E m \in S : \A n \in S : m <= n
<1> DEFINE R == OpToRel(<, Nat)
<1>1. IsWellFoundedOn(R, Nat)
  BY NatLessThanWellFounded, Zenon
<1>2. PICK m \in S : \A n \in S : ~(<<n, m>> \in R)
  BY <1>1, WFMin, Zenon
<1>3. \A n \in S : ~(n < m)
  BY <1>2 DEF OpToRel
<1> QED
  BY <1>3

\* The scan of physical_alloc_block stops at a clear bit of the array.
LEMMA ScanFinds ==
    ASSUME NEW s, NEW clear, clear = {i \in Bits : i \notin s}, clear # {}
    PROVE  (CHOOSE i \in clear : \A j \in clear : i <= j) \in Bits \ s
<1>1. clear \subseteq Nat
  BY DEF Bits
<1>2. \E i \in clear : \A j \in clear : i <= j
  BY <1>1, LeastOfNats
<1> QED
  BY <1>2

LEMMA InBox == \A b \in Bits : b \in Box(b) /\ Box(b) \subseteq Bits
BY DEF Box

LEMMA InitIInv == Init => IInv
BY ReservedBits DEF Init, IInv, TypeOK, MutualExclusion, BitsMatchOwners,
   ExclusiveOwners, NoPanic, HolderKnows, AllOwned, Bits, Labels, Holding,
   Operations, Refused

\* The store of bitset_set or bitset_clear changes one bit, whatever shares
\* its word, as long as the word loaded is still the word in memory.
LEMMA StoreOneBit ==
    ASSUME NEW s, NEW b \in Bits, NEW w, w = s \cap Box(b), s \subseteq Bits
    PROVE  /\ (s \ Box(b)) \cup w \cup {b} = s \cup {b}
           /\ (s \ Box(b)) \cup (w \ {b}) = s \ {b}
BY InBox

LEMMA StepIInv == IInv /\ [Next]_vars => IInv'
<1> SUFFICES ASSUME IInv, [Next]_vars PROVE IInv'
  OBVIOUS
<1> USE DEF IInv
<1>1. CASE UNCHANGED vars
  BY <1>1 DEF vars, TypeOK, MutualExclusion, BitsMatchOwners, ExclusiveOwners,
     NoPanic, HolderKnows, AllOwned
<1>2. ASSUME NEW c \in Callers, NEW f \in Operations, NEW b \in Bits, Call(c, f, b)
      PROVE  IInv'
  BY <1>2 DEF Call, Goto, TypeOK, MutualExclusion, BitsMatchOwners,
       ExclusiveOwners,
     NoPanic, HolderKnows, AllOwned, Labels, Holding, Operations, Bits, Blocks
<1>3. ASSUME NEW c \in Callers, Lock(c) PROVE IInv'
  BY <1>3 DEF Lock, Goto, TypeOK, MutualExclusion, BitsMatchOwners,
       ExclusiveOwners,
     NoPanic, HolderKnows, AllOwned, Labels, Holding, Operations
<1>4. ASSUME NEW c \in Callers, Unlock(c) PROVE IInv'
  <2>1. TypeOK'
    BY <1>4, ReservedBits DEF Unlock, Goto, TypeOK, Labels, Operations, Refused
  <2>2. MutualExclusion'
    BY <1>4 DEF Unlock, Goto, TypeOK, MutualExclusion, Holding, Refused, Bits
  <2>3. (BitsMatchOwners /\ ExclusiveOwners)'
    BY <1>4 DEF Unlock, Goto, TypeOK, BitsMatchOwners, ExclusiveOwners,
         AllOwned, MutualExclusion, HolderKnows, Holding, Refused, Bits
  <2>4. (NoPanic /\ HolderKnows)'
    BY <1>4 DEF Unlock, Goto, TypeOK, NoPanic, HolderKnows, MutualExclusion,
         Holding, BitsMatchOwners, AllOwned, ExclusiveOwners, Refused, Bits
  <2> QED
    BY <2>1, <2>2, <2>3, <2>4
<1>5. ASSUME NEW c \in Callers, Scan(c) PROVE IInv'
  <2> DEFINE clear == {i \in Bits : i \notin bitset}
             first == CHOOSE i \in clear : \A j \in clear : i <= j
  <2>1. CASE clear = {}
    <3>1. /\ pc[c] = "read" /\ op[c] = "alloc"
          /\ answer' = [answer EXCEPT ![c] = Refused]
          /\ pc' = [pc EXCEPT ![c] = "unlock"]
          /\ UNCHANGED <<bitset, phys_mutex, op, block, word, owned>>
      BY <1>5, <2>1 DEF Scan, ScanUpTo, Goto, Bits
    <3> QED
      BY <3>1 DEF TypeOK, MutualExclusion, BitsMatchOwners, ExclusiveOwners,
         NoPanic, HolderKnows, AllOwned, Labels, Holding, Operations, Refused
  <2>2. CASE clear # {}
    <3>1. /\ pc[c] = "read" /\ op[c] = "alloc"
          /\ block' = [block EXCEPT ![c] = first]
          /\ pc' = [pc EXCEPT ![c] = "load"]
          /\ UNCHANGED <<bitset, phys_mutex, op, answer, word, owned>>
      BY <1>5, <2>2 DEF Scan, ScanUpTo, Goto, Bits
    <3>2. first \in Bits \ bitset
      BY <2>2, ScanFinds
    <3> HIDE DEF first
    <3> QED
      BY <3>1, <3>2 DEF TypeOK, MutualExclusion, BitsMatchOwners,
           ExclusiveOwners,
         NoPanic, HolderKnows, AllOwned, Labels, Holding, Operations
  <2> QED
    BY <2>1, <2>2
<1>6. ASSUME NEW c \in Callers, CheckSpecific(c) PROVE IInv'
  BY <1>6 DEF CheckSpecific, Goto, TypeOK, MutualExclusion, BitsMatchOwners,
       ExclusiveOwners,
     NoPanic, HolderKnows, AllOwned, Labels, Holding, Operations, Refused
<1>7. ASSUME NEW c \in Callers, CheckFree(c) PROVE IInv'
  BY <1>7 DEF CheckFree, Goto, TypeOK, MutualExclusion, BitsMatchOwners,
       ExclusiveOwners,
     NoPanic, HolderKnows, AllOwned, Labels, Holding, Operations
<1>8. ASSUME NEW c \in Callers, Report(c) PROVE IInv'
  <2>1. TypeOK'
    BY <1>8, UsedIsNat DEF Report, Goto, TypeOK, Labels, Operations
  <2>2. MutualExclusion'
    BY <1>8 DEF Report, Goto, TypeOK, MutualExclusion, Holding
  <2>3. (BitsMatchOwners /\ ExclusiveOwners)'
    BY <1>8 DEF Report, Goto, TypeOK, BitsMatchOwners, ExclusiveOwners,
         AllOwned, MutualExclusion, HolderKnows, Holding
  <2>4. (NoPanic /\ HolderKnows)'
    BY <1>8 DEF Report, Goto, TypeOK, NoPanic, HolderKnows, MutualExclusion,
         Holding, BitsMatchOwners, AllOwned, ExclusiveOwners
  <2> QED
    BY <2>1, <2>2, <2>3, <2>4
<1>9. ASSUME NEW c \in Callers, Load(c) PROVE IInv'
  BY <1>9 DEF Load, Goto, TypeOK, MutualExclusion, BitsMatchOwners,
       ExclusiveOwners,
     NoPanic, HolderKnows, AllOwned, Labels, Holding, Operations
<1>10. ASSUME NEW c \in Callers, StoreSet(c) PROVE IInv'
  <2>1. TypeOK'
    <3>1. bitset' \subseteq Bits
      BY <1>10, InBox DEF StoreSet, TypeOK
    <3>2. Bits \subseteq Nat
      BY DEF Bits
    <3> QED
      BY <1>10, <3>1, <3>2 DEF StoreSet, Goto, TypeOK, Labels, Operations
  <2>2. MutualExclusion'
    BY <1>10, StoreOneBit DEF StoreSet, Goto, TypeOK, MutualExclusion, Holding
  <2>3. (BitsMatchOwners /\ ExclusiveOwners)'
    BY <1>10, StoreOneBit DEF StoreSet, Goto, TypeOK, BitsMatchOwners,
         ExclusiveOwners, AllOwned, MutualExclusion, HolderKnows, Holding
  <2>4. (NoPanic /\ HolderKnows)'
    BY <1>10, StoreOneBit DEF StoreSet, Goto, TypeOK, NoPanic, HolderKnows,
         MutualExclusion, Holding, BitsMatchOwners, AllOwned, ExclusiveOwners
  <2> QED
    BY <2>1, <2>2, <2>3, <2>4
<1>11. ASSUME NEW c \in Callers, StoreClear(c) PROVE IInv'
  <2>1. /\ pc[c] = "store" /\ op[c] = "free"
        /\ pc' = [pc EXCEPT ![c] = "unlock"]
        /\ owned' = [owned EXCEPT ![c] = @ \ {block[c]}]
        /\ UNCHANGED <<phys_mutex, op, block, word, answer>>
    BY <1>11 DEF StoreClear, Goto
  <2>2. block[c] \in owned[c] /\ block[c] \in Bits /\ bitset \subseteq Bits
    BY <2>1 DEF HolderKnows, TypeOK
  <2>3. bitset' = bitset \ {block[c]}
    <3>1. word[c] = bitset \cap Box(block[c])
      BY <2>1 DEF HolderKnows
    <3> QED
      BY <1>11, <2>2, <3>1, StoreOneBit DEF StoreClear
  <2>4. TypeOK'
    BY <2>1, <2>2, <2>3 DEF TypeOK, Labels
  <2>5. MutualExclusion'
    BY <2>1 DEF TypeOK, MutualExclusion, Holding
  <2>6. \A d \in Callers \ {c} : pc[d] \notin Holding
    BY <2>1 DEF MutualExclusion, Holding
  <2>7. \A d \in Callers \ {c} : block[c] \notin owned[d] /\ owned'[d] = owned[d]
    BY <2>1, <2>2 DEF ExclusiveOwners, TypeOK
  <2>8. AllOwned' = AllOwned \ {block[c]} /\ block[c] \notin Reserved
    BY <2>1, <2>2, <2>7 DEF AllOwned, ExclusiveOwners, TypeOK
  <2>9. BitsMatchOwners'
    BY <2>3, <2>8 DEF BitsMatchOwners
  <2>10. ExclusiveOwners'
    BY <2>1, <2>7, <2>8 DEF ExclusiveOwners, TypeOK
  <2>11. NoPanic'
    BY <2>1 DEF NoPanic, TypeOK
  <2>12. HolderKnows'
    BY <2>1, <2>6, <2>7 DEF HolderKnows, TypeOK, Holding
  <2> QED
    BY <2>4, <2>5, <2>9, <2>10, <2>11, <2>12
<1> QED
  BY <1>1, <1>2, <1>3, <1>4, <1>5, <1>6, <1>7, <1>8, <1>9, <1>10, <1>11
  DEF Next, InCall

\* Only the holder of phys_mutex is at "unlock", and nobody else can store.
LEMMA StepReport == IInv /\ ReportIsCurrent /\ [Next]_vars => ReportIsCurrent'
<1> SUFFICES ASSUME IInv, ReportIsCurrent, [Next]_vars PROVE ReportIsCurrent'
  OBVIOUS
<1> USE DEF IInv
<1>1. CASE UNCHANGED vars
  BY <1>1 DEF vars, ReportIsCurrent, AllOwned
<1>2. ASSUME NEW c \in Callers, Report(c) PROVE ReportIsCurrent'
  <2>1. bitset = Reserved \cup AllOwned /\ AllOwned' = AllOwned
    BY <1>2 DEF Report, BitsMatchOwners, AllOwned
  <2>2. \A d \in Callers \ {c} : pc'[d] # "unlock"
    BY <1>2 DEF Report, Goto, TypeOK, MutualExclusion, Holding
  <2>3. op'[c] = op[c] /\ block'[c] = block[c] /\ answer'[c] =
            IF op[c] = "stats" THEN Cardinality(bitset \cap 0..(TotalBlocks - 1))
            ELSE IF block[c] \in bitset THEN 1 ELSE 0
    BY <1>2 DEF Report, TypeOK
  <2> QED
    BY <2>1, <2>2, <2>3 DEF ReportIsCurrent
<1>3. ASSUME NEW c \in Callers, StoreSet(c) \/ StoreClear(c) PROVE ReportIsCurrent'
  <2>1. \A d \in Callers : pc'[d] = "unlock" => d = c
    BY <1>3 DEF StoreSet, StoreClear, Goto, TypeOK, MutualExclusion, Holding
  <2>2. op'[c] = op[c] /\ op[c] \notin {"query", "stats"}
    BY <1>3 DEF StoreSet, StoreClear
  <2> QED
    BY <2>1, <2>2 DEF ReportIsCurrent
<1>4. ASSUME NEW c \in Callers, Scan(c) \/ CheckSpecific(c) \/ CheckFree(c)
      PROVE  ReportIsCurrent'
  <2>1. \A d \in Callers : pc'[d] = "unlock" => d = c
    BY <1>4 DEF Scan, ScanUpTo, CheckSpecific, CheckFree, Goto, TypeOK,
       MutualExclusion, Holding
  <2>2. op'[c] = op[c] /\ op[c] \notin {"query", "stats"}
    BY <1>4 DEF Scan, ScanUpTo, CheckSpecific, CheckFree
  <2> QED
    BY <2>1, <2>2 DEF ReportIsCurrent
<1>5. ASSUME NEW c \in Callers,
             \/ \E f \in Operations, b \in Bits : Call(c, f, b)
             \/ Lock(c) \/ Unlock(c) \/ Load(c)
      PROVE  ReportIsCurrent'
  <2>1. AllOwned' = AllOwned
    BY <1>5 DEF Call, Lock, Unlock, Load, AllOwned
  <2>2. pc'[c] # "unlock"
    BY <1>5 DEF Call, Lock, Unlock, Load, Goto, TypeOK
  <2>3. \A d \in Callers \ {c} : /\ pc'[d] = pc[d] /\ op'[d] = op[d]
                                 /\ block'[d] = block[d] /\ answer'[d] = answer[d]
    BY <1>5 DEF Call, Lock, Unlock, Load, Goto, TypeOK
  <2> QED
    BY <2>1, <2>2, <2>3 DEF ReportIsCurrent
<1> QED
  BY <1>1, <1>2, <1>3, <1>4, <1>5 DEF Next, InCall

LEMMA Invariance == Spec => [](IInv /\ ReportIsCurrent)
<1>1. Init => IInv /\ ReportIsCurrent
  BY InitIInv DEF Init, ReportIsCurrent
<1>2. IInv /\ ReportIsCurrent /\ [Next]_vars => (IInv /\ ReportIsCurrent)'
  BY StepIInv, StepReport
<1> QED
  BY <1>1, <1>2, PTL DEF Spec

\* Type correctness of the allocator.
THEOREM TypeCorrect == Spec => []TypeOK
BY Invariance, PTL DEF IInv

\* physical_alloc_block and _specific keep every block to one owner, and the
\* bitset says exactly which blocks are owned or reserved.
THEOREM BlocksAreExclusive == Spec => [](BitsMatchOwners /\ ExclusiveOwners)
BY Invariance, PTL DEF IInv

\* Callers that free what they were given never fail an assertion of mem.c.
THEOREM CallersNeverPanic == Spec => []NoPanic
BY Invariance, PTL DEF IInv

\* What block_is_not_free and mem_stats return was true when they unlocked.
THEOREM ReportsAreCurrent == Spec => []ReportIsCurrent
BY Invariance, PTL

-----------------------------------------------------------------------------
(* The refinement: every step of mem.c is a step of BlockAllocator or none. *)

LEMMA AvailableIsClear == IInv => Promise!Available = Bits \ bitset
BY DEF IInv, BitsMatchOwners, TypeOK, Promise!Available, AllOwned

LEMMA InitRefines == Init => Promise!Init
BY DEF Init, Promise!Init, asked, Pending

LEMMA StepRefines == IInv /\ [Next]_vars => [Promise!Next]_(Promise!vars)
<1> SUFFICES ASSUME IInv, [Next]_vars PROVE [Promise!Next]_(Promise!vars)
  OBVIOUS
<1>t. TypeOK
  BY DEF IInv
<1>s. ASSUME UNCHANGED owned, UNCHANGED asked PROVE UNCHANGED Promise!vars
  BY <1>s DEF Promise!vars
\* A step that changes neither what is owned nor what is pending is a stutter.
<1>k. ASSUME NEW c \in Callers, UNCHANGED owned,
             \A d \in Callers \ {c} :
                pc'[d] = pc[d] /\ op'[d] = op[d] /\ block'[d] = block[d],
             asked'[c] = asked[c]
      PROVE  UNCHANGED Promise!vars
  <2>1. \A d \in Callers : asked'[d] = asked[d]
    BY <1>k DEF asked, Pending
  <2>2. asked' = asked
    BY <2>1 DEF asked
  <2> QED
    BY <1>k, <1>s, <2>2
\* One that ends c's request, or begins it, changes asked at c only.
<1>e. ASSUME NEW c \in Callers, NEW S,
             \A d \in Callers \ {c} :
                pc'[d] = pc[d] /\ op'[d] = op[d] /\ block'[d] = block[d],
             asked'[c] = S
      PROVE  asked' = [asked EXCEPT ![c] = S]
  <2>1. \A d \in Callers \ {c} : asked'[d] = asked[d]
    BY <1>e DEF asked, Pending
  <2>2. asked = [d \in Callers |-> asked[d]]
    BY DEF asked
  <2>3. asked' = [d \in Callers |-> asked'[d]]
    BY DEF asked
  <2>4. \A d \in Callers : asked'[d] = [asked EXCEPT ![c] = S][d]
    BY <1>e, <2>1, <2>2
  <2> QED
    BY <2>2, <2>3, <2>4, Zenon
<1>1. CASE UNCHANGED vars
  BY <1>1, <1>s DEF vars, asked, Pending
<1>2. ASSUME NEW c \in Callers, NEW f \in Operations, NEW b \in Bits, Call(c, f, b)
      PROVE  [Promise!Next]_(Promise!vars)
  <2>1. /\ \A d \in Callers \ {c} :
                pc'[d] = pc[d] /\ op'[d] = op[d] /\ block'[d] = block[d]
        /\ pc[c] = "idle" /\ pc'[c] = "lock" /\ op'[c] = f /\ block'[c] = b
        /\ UNCHANGED owned
    BY <1>2, <1>t DEF Call, Goto, TypeOK
  <2>2. asked[c] = {}
    BY <2>1 DEF asked, Pending
  <2>3. CASE f = "alloc"
    <3>1. asked'[c] = Blocks
      BY <2>1, <2>3 DEF asked, Pending
    <3>2. asked' = [asked EXCEPT ![c] = Blocks]
      BY <2>1, <3>1, <1>e
    <3>3. Promise!Ask(c, Blocks)
      BY <2>1, <2>2, <3>2 DEF Promise!Ask
    <3> QED
      BY <3>3 DEF Promise!Next
  <2>4. CASE f = "specific"
    <3>1. asked'[c] = {b} /\ b \in Blocks
      BY <1>2, <2>1, <2>4 DEF asked, Pending, Call
    <3>2. asked' = [asked EXCEPT ![c] = {b}]
      BY <2>1, <3>1, <1>e
    <3>3. Promise!Ask(c, {b})
      BY <2>1, <2>2, <3>2 DEF Promise!Ask
    <3> QED
      BY <3>1, <3>3 DEF Promise!Next
  <2>5. CASE f \notin {"alloc", "specific"}
    <3>1. asked'[c] = {}
      BY <2>1, <2>5 DEF asked, Pending
    <3> QED
      BY <2>1, <2>2, <3>1, <1>k
  <2> QED
    BY <2>3, <2>4, <2>5
<1>3. ASSUME NEW c \in Callers,
             Lock(c) \/ Unlock(c) \/ CheckFree(c) \/ Report(c) \/ Load(c)
      PROVE  [Promise!Next]_(Promise!vars)
  <2>1. /\ \A d \in Callers \ {c} :
                pc'[d] = pc[d] /\ op'[d] = op[d] /\ block'[d] = block[d]
        /\ UNCHANGED owned
    BY <1>3, <1>t DEF Lock, Unlock, CheckFree, Report, Load, Goto, TypeOK
  <2>2. asked'[c] = asked[c]
    BY <1>3, <1>t DEF Lock, Unlock, CheckFree, Report, Load, Goto, TypeOK,
       asked, Pending
  <2> QED
    BY <2>1, <2>2, <1>k
<1>4. ASSUME NEW c \in Callers, Scan(c) PROVE [Promise!Next]_(Promise!vars)
  <2> DEFINE clear == {i \in Bits : i \notin bitset}
             first == CHOOSE i \in clear : \A j \in clear : i <= j
  <2>1. CASE clear = {}
    <3>1. /\ pc[c] = "read" /\ op[c] = "alloc"
          /\ pc' = [pc EXCEPT ![c] = "unlock"]
          /\ UNCHANGED <<op, block, owned>>
      BY <1>4, <2>1 DEF Scan, ScanUpTo, Goto, Bits
    <3>2. asked[c] = Blocks /\ asked'[c] = {}
      BY <3>1, <1>t DEF asked, Pending, TypeOK
    <3>3. asked' = [asked EXCEPT ![c] = {}]
      BY <3>1, <3>2, <1>e, <1>t DEF TypeOK
    <3>4. Promise!Refuse(c)
      BY <2>1, <3>1, <3>2, <3>3, AvailableIsClear,
           ReservedBits DEF Promise!Refuse
    <3> QED
      BY <3>4 DEF Promise!Next
  <2>2. CASE clear # {}
    <3>1. /\ pc[c] = "read" /\ op[c] = "alloc"
          /\ block' = [block EXCEPT ![c] = first]
          /\ pc' = [pc EXCEPT ![c] = "load"]
          /\ UNCHANGED <<op, owned>>
      BY <1>4, <2>2 DEF Scan, ScanUpTo, Goto, Bits
    <3>2. asked'[c] = asked[c]
      BY <3>1, <1>t DEF asked, Pending, TypeOK
    <3> QED
      BY <3>1, <3>2, <1>k, <1>t DEF TypeOK
  <2> QED
    BY <2>1, <2>2
<1>5. ASSUME NEW c \in Callers, CheckSpecific(c) PROVE [Promise!Next]_(Promise!vars)
  <2>1. /\ pc[c] = "read" /\ op[c] = "specific"
        /\ UNCHANGED <<op, block, owned>>
    BY <1>5 DEF CheckSpecific
  <2>2. CASE block[c] \in bitset
    <3>1. pc' = [pc EXCEPT ![c] = "unlock"]
      BY <1>5, <2>2 DEF CheckSpecific, Goto
    <3>2. asked[c] = {block[c]} /\ asked'[c] = {}
      BY <2>1, <3>1, <1>t DEF asked, Pending, TypeOK
    <3>3. asked' = [asked EXCEPT ![c] = {}]
      BY <2>1, <3>1, <3>2, <1>e, <1>t DEF TypeOK
    <3>4. Promise!Refuse(c)
      BY <2>1, <2>2, <3>2, <3>3, AvailableIsClear DEF Promise!Refuse
    <3> QED
      BY <3>4 DEF Promise!Next
  <2>3. CASE block[c] \notin bitset
    <3>1. pc' = [pc EXCEPT ![c] = "load"]
      BY <1>5, <2>3 DEF CheckSpecific, Goto
    <3>2. asked'[c] = asked[c]
      BY <2>1, <3>1, <1>t DEF asked, Pending, TypeOK
    <3> QED
      BY <2>1, <3>1, <3>2, <1>k, <1>t DEF TypeOK
  <2> QED
    BY <2>2, <2>3
<1>6. ASSUME NEW c \in Callers, StoreSet(c) PROVE [Promise!Next]_(Promise!vars)
  <2>1. /\ pc[c] = "store" /\ op[c] \in {"alloc", "specific"}
        /\ pc' = [pc EXCEPT ![c] = "unlock"]
        /\ UNCHANGED <<op, block>>
        /\ owned' = [owned EXCEPT ![c] = @ \cup {block[c]}]
    BY <1>6 DEF StoreSet, Goto
  <2>2. asked'[c] = {}
    BY <2>1, <1>t DEF asked, Pending, TypeOK
  <2>3. asked' = [asked EXCEPT ![c] = {}]
    BY <2>1, <2>2, <1>e, <1>t DEF TypeOK
  <2>4. block[c] \in Bits \ bitset /\ block[c] \in Blocks
    BY <2>1, ReservedBits DEF IInv, TypeOK, HolderKnows, BitsMatchOwners, Blocks
  <2>5. block[c] \in asked[c]
    BY <2>1, <2>4 DEF asked, Pending
  <2>6. Promise!Allocate(c, block[c])
    BY <2>1, <2>3, <2>4, <2>5, AvailableIsClear DEF Promise!Allocate
  <2> QED
    BY <2>4, <2>6 DEF Promise!Next
<1>7. ASSUME NEW c \in Callers, StoreClear(c) PROVE [Promise!Next]_(Promise!vars)
  <2>1. /\ pc[c] = "store" /\ op[c] = "free"
        /\ pc' = [pc EXCEPT ![c] = "unlock"]
        /\ UNCHANGED <<op, block>>
        /\ owned' = [owned EXCEPT ![c] = @ \ {block[c]}]
    BY <1>7 DEF StoreClear, Goto
  <2>2. asked'[c] = asked[c]
    BY <2>1, <1>t DEF asked, Pending, TypeOK
  <2>3. \A d \in Callers : asked'[d] = asked[d]
    BY <2>1, <2>2, <1>t DEF asked, Pending, TypeOK
  <2>4. asked' = asked
    BY <2>3 DEF asked
  <2>5. block[c] \in owned[c] /\ block[c] \in Blocks
    BY <2>1, ReservedBits DEF IInv, TypeOK, HolderKnows, ExclusiveOwners,
         AllOwned, Blocks
  <2>6. Promise!Free(c, block[c])
    BY <2>1, <2>4, <2>5 DEF Promise!Free
  <2> QED
    BY <2>5, <2>6 DEF Promise!Next
<1> QED
  BY <1>1, <1>2, <1>3, <1>4, <1>5, <1>6, <1>7 DEF Next, InCall

\* mem.c, with its lock and its word-wide updates, does what BlockAllocator
\* promises: requests are answered one at a time, and rightly.
THEOREM Refinement == Spec => ImplementsPromise
<1>1. IInv /\ [Next]_vars => [Promise!Next]_(Promise!vars)
  BY StepRefines
<1> QED
  BY <1>1, InitRefines, Invariance, PTL DEF Spec, ImplementsPromise,
       Promise!Spec
=============================================================================
