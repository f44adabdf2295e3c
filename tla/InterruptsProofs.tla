-------------------------- MODULE InterruptsProofs --------------------------
(***************************************************************************)
(* For any devices, whichever of them are served, any exceptions and any   *)
(* int instructions: the safety invariants of Interrupts.                  *)
(***************************************************************************)
EXTENDS Interrupts, WellFoundedInduction, TLAPS

\* What a controller can be programmed with.
ChipStates == [expects : {"ready", "icw2", "icw3", "icw4"},
               cascade : Nat, imr : SUBSET (0..7), base : Nat]

TypeInv ==
    /\ chip \in [Chips -> ChipStates]
    /\ irr \in [Chips -> SUBSET (0..7)]
    /\ isr \in [Chips -> SUBSET (0..7)]
    /\ intf \in BOOLEAN
    /\ booted \in 0..12
    /\ hpc \in {"none", "master", "slave", "dispatch", "handler", "eoi",
                "iret", "panic"}
    /\ vector \in Int
    /\ owed \in [Lines -> Int]
    /\ raises \in Nat

\* What pic_remap has programmed, word by word.
ChipInv ==
    /\ chip["master"].expects = IF booted = 0 \/ booted >= 7 THEN "ready"
                                ELSE IF booted <= 2 THEN "icw2"
                                ELSE IF booted <= 4 THEN "icw3" ELSE "icw4"
    /\ chip["slave"].expects = IF booted <= 1 \/ booted >= 8 THEN "ready"
                               ELSE IF booted <= 3 THEN "icw2"
                               ELSE IF booted <= 5 THEN "icw3" ELSE "icw4"
    /\ booted >= 3 => chip["master"].base = 32
    /\ booted >= 5 => chip["master"].cascade = 4
    /\ booted >= 4 => chip["slave"].base = 40
    /\ booted >= 6 => chip["slave"].cascade = 2

\* Interrupts come only when the table has been loaded, and only lines of
\* devices are requested.
BootInv ==
    /\ ~TableLoaded => ~intf /\ hpc = "none"
    /\ handlers \subseteq {32 + l : l \in Served} \cup {Syscall}
    /\ \A b \in irr["master"] : b \in Lines /\ b < 8
    /\ \A b \in irr["slave"] : b + 8 \in Lines

\* Between interrupts only line 8 is in service.
Quiet == isr["master"] = {} /\ isr["slave"] \subseteq {0}

\* The interrupt is of the line being served, and of no other.
InService ==
    \/ /\ idx \in 0..7 \ {Cascade} /\ isr["master"] = {idx}
       /\ isr["slave"] \subseteq {0}
    \/ /\ idx \in 8..15 /\ isr["master"] = {Cascade}
       /\ isr["slave"] = {idx - 8}

\* The interrupt is of no line: the controllers answered a withdrawn request.
ServesNothing ==
    \/ idx = 7 /\ Quiet
    \/ idx = 15 /\ isr["master"] = {Cascade} /\ isr["slave"] \subseteq {0}

\* What is in service, wherever the interrupt is.
ServiceInv ==
    /\ hpc \in {"none", "master", "iret"} => Quiet
    /\ hpc = "slave" => /\ isr["master"] = {Cascade}
                        /\ isr["slave"] \subseteq {0}
    /\ hpc = "dispatch" => \/ InService \/ ServesNothing
                           \/ Quiet /\ (vector < 32 \/ vector = Syscall)
    /\ hpc \in {"handler", "eoi"} =>
           \/ InService /\ idx \in Served
           \/ Quiet /\ vector = Syscall

\* The requests waiting at the controllers.
Pending(l) == IF l % 8 \in irr[ChipOf(l)] THEN 1 ELSE 0

\* The request that has been taken out of its controller and not handled yet.
Taken(l) ==
    IF hpc \in {"dispatch", "handler"} /\ l = idx /\ InService THEN 1 ELSE 0

OwedInv == hpc # "panic" => \A l \in Lines : owed[l] = Pending(l) + Taken(l)

IInv == TypeInv /\ ChipInv /\ BootInv /\ ServiceInv /\ OwedInv
-----------------------------------------------------------------------------
(* Lines and their inputs.                                                 *)

\* The input of a line at its controller.
LEMMA LineInput ==
    ASSUME NEW l \in 0..15
    PROVE  /\ l % 8 \in 0..7
           /\ l < 8 => ChipOf(l) = "master" /\ l % 8 = l
           /\ l >= 8 => ChipOf(l) = "slave" /\ l % 8 = l - 8
BY DEF ChipOf

\* Two lines of a controller do not share an input.
LEMMA LinesDiffer ==
    ASSUME NEW k \in 0..15, NEW l \in 0..15,
           ChipOf(k) = ChipOf(l), k % 8 = l % 8
    PROVE  k = l
BY LineInput DEF ChipOf

\* Of the inputs of a controller asked for, if any is, one is the lowest.
LEMMA LeastOfNats ==
    ASSUME NEW S, S \subseteq Nat, S # {}
    PROVE  \E m \in S : \A n \in S : m <= n
<1> DEFINE R == OpToRel(<, Nat)
<1>1. IsWellFoundedOn(R, Nat)
  BY NatLessThanWellFounded, Zenon
<1>2. PICK m \in S : \A n \in S : ~(<<n, m>> \in R)
  BY <1>1, WFMin, Zenon
<1>3. \A n \in S : ~(n < m)
  BY <1>2 DEF OpToRel
<1> QED
  BY <1>3

\* What the controllers' priorities pick is one of the inputs asked for.
LEMMA MinIsMember ==
    ASSUME NEW S, S \subseteq Nat, S # {}
    PROVE  /\ Min(S) \in S
           /\ \A n \in S : Min(S) <= n
<1>1. PICK m \in S : \A n \in S : m <= n
  BY LeastOfNats
<1> QED
  BY <1>1 DEF Min

\* An end of interrupt ends the only service there is.
LEMMA EndsTheOnlyOne ==
    ASSUME NEW b \in Nat
    PROVE  Ended({b}) = {} /\ Ended({}) = {}
<1>1. Min({b}) = b
  BY MinIsMember
<1> QED
  BY <1>1 DEF Ended

\* The mask register has eight bits.
LEMMA MaskBits == \A v : Bits(v) \in SUBSET (0..7)
BY DEF Bits
-----------------------------------------------------------------------------
(* The invariant holds initially.                                          *)

\* The controllers are the BIOS's, and nothing is requested.
LEMMA InitIInv == ASSUME Init PROVE IInv
<1> USE InterruptsAssumption DEF Init, Chips, TableLoaded, Cascade
<1>1. Len(RemapWrites) = 10
  BY DEF RemapWrites
<1>2. TypeInv
  <2>1. chip \in [Chips -> ChipStates]
    BY DEF ChipStates
  <2>2. /\ irr \in [Chips -> SUBSET (0..7)] /\ isr \in [Chips -> SUBSET (0..7)]
        /\ owed \in [Lines -> Int]
    OBVIOUS
  <2>3. intf \in BOOLEAN
    BY Zenon
  <2> QED
    BY <2>1, <2>2, <2>3 DEF TypeInv
<1>3. ChipInv
  BY DEF ChipInv
<1>4. BootInv
  BY <1>1 DEF BootInv
<1>5. ServiceInv
  BY DEF ServiceInv, Quiet
<1>6. OwedInv
  BY LineInput DEF OwedInv, Pending, Taken, ChipOf
<1> QED
  BY <1>2, <1>3, <1>4, <1>5, <1>6 DEF IInv
-----------------------------------------------------------------------------
(* Steps of the kernel outside interrupts.                                 *)

\* What a step of the kernel must show: it takes no interrupt and no request.
LEMMA KernelKeeps ==
    ASSUME IInv, KernelStep, TypeInv', ChipInv', BootInv'
    PROVE  IInv'
<1>1. ServiceInv'
  BY DEF IInv, KernelStep, ServiceInv, Quiet
<1>2. OwedInv'
  BY DEF IInv, KernelStep, OwedInv, Pending, Taken
<1> QED
  BY <1>1, <1>2 DEF IInv

\* What the start of the initialisation leaves in a controller.
LEMMA RestartWrites ==
    ASSUME NEW ch \in ChipStates
    PROVE  /\ Restart(ch) \in ChipStates
           /\ Restart(ch).expects = "icw2"
           /\ Restart(ch).base = ch.base /\ Restart(ch).cascade = ch.cascade
BY DEF Restart, ChipStates

\* What a write to the data port leaves in a controller.
LEMMA DataWrites ==
    ASSUME NEW ch \in ChipStates, NEW v \in Nat
    PROVE  /\ Data(ch, v) \in ChipStates
           /\ Data(ch, v).expects =
                IF ch.expects = "icw2" THEN "icw3"
                ELSE IF ch.expects = "icw3" THEN "icw4" ELSE "ready"
           /\ Data(ch, v).base = IF ch.expects = "icw2" THEN v ELSE ch.base
           /\ Data(ch, v).cascade =
                IF ch.expects = "icw3" THEN v ELSE ch.cascade
<1> USE DEF ChipStates
<1>1. CASE ch.expects = "icw2"
  <2>1. Data(ch, v) = [ch EXCEPT !.base = v, !.expects = "icw3"]
    BY <1>1 DEF Data
  <2> QED
    BY <1>1, <2>1
<1>2. CASE ch.expects = "icw3"
  <2>1. Data(ch, v) = [ch EXCEPT !.cascade = v, !.expects = "icw4"]
    BY <1>2 DEF Data
  <2> QED
    BY <1>2, <2>1
<1>3. CASE ch.expects = "icw4"
  <2>1. Data(ch, v) = [ch EXCEPT !.expects = "ready"]
    BY <1>3 DEF Data
  <2> QED
    BY <1>3, <2>1
<1>4. CASE ch.expects = "ready"
  <2>1. Data(ch, v) = [ch EXCEPT !.imr = Bits(v)]
    BY <1>4 DEF Data
  <2> QED
    BY <1>4, <2>1, MaskBits
<1> QED
  BY <1>1, <1>2, <1>3, <1>4

\* A write of pic_remap leaves a controller expecting the next.
LEMMA RemapKeeps == ASSUME IInv, RemapWrite PROVE IInv'
<1> USE DEF Chips
<1> DEFINE w == RemapWrites[booted + 1]
           new == IF w[2] = "cmd" THEN Restart(chip[w[1]])
                                  ELSE Data(chip[w[1]], w[3])
<1>1. /\ Len(RemapWrites) = 10
      /\ RemapWrites[1] = <<"master", "cmd", 17>>
      /\ RemapWrites[2] = <<"slave", "cmd", 17>>
      /\ RemapWrites[3] = <<"master", "data", 32>>
      /\ RemapWrites[4] = <<"slave", "data", 40>>
      /\ RemapWrites[5] = <<"master", "data", 4>>
      /\ RemapWrites[6] = <<"slave", "data", 2>>
      /\ RemapWrites[7] = <<"master", "data", 1>>
      /\ RemapWrites[8] = <<"slave", "data", 1>>
      /\ RemapWrites[9] = <<"master", "data", 255>>
      /\ RemapWrites[10] = <<"slave", "data", 255>>
  BY DEF RemapWrites
<1>2. /\ booted \in 0..9 /\ booted' = booted + 1
      /\ chip' = [chip EXCEPT ![w[1]] = new]
      /\ UNCHANGED <<intf, handlers, irr, isr, hpc, vector, owed, raises>>
  BY <1>1 DEF RemapWrite, KernelStep, IInv, TypeInv
<1>3. TypeInv /\ ChipInv /\ BootInv /\ chip[w[1]] \in ChipStates
  BY <1>1, <1>2 DEF IInv, TypeInv
<1>4. w[1] \in Chips /\ w[3] \in Nat
  BY <1>1, <1>2
<1>5. new \in ChipStates
  <2> HIDE DEF w
  <2> QED
    BY <1>3, <1>4, RestartWrites, DataWrites
<1>8. TypeInv'
  <2> HIDE DEF new, w
  <2>1. chip' \in [Chips -> ChipStates]
    BY <1>2, <1>3, <1>4, <1>5 DEF TypeInv
  <2> QED
    BY <1>2, <1>3, <2>1 DEF TypeInv
<1>9. ChipInv'
  <2> DEFINE ch == chip[w[1]]
  <2>2. /\ new.expects = IF w[2] = "cmd" THEN "icw2"
                         ELSE IF ch.expects = "icw2" THEN "icw3"
                         ELSE IF ch.expects = "icw3" THEN "icw4" ELSE "ready"
        /\ new.base = IF w[2] # "cmd" /\ ch.expects = "icw2" THEN w[3]
                                                            ELSE ch.base
        /\ new.cascade = IF w[2] # "cmd" /\ ch.expects = "icw3" THEN w[3]
                                                               ELSE ch.cascade
    <3> HIDE DEF w
    <3> QED
      BY <1>3, <1>4, RestartWrites, DataWrites
  <2>3. \A c \in Chips : chip'[c] = IF c = w[1] THEN new ELSE chip[c]
    BY <1>2, <1>3 DEF TypeInv
  <2> HIDE DEF new
  <2>5. CASE booted \in {0, 2, 4, 6, 8}
    <3>1. w[1] = "master"
      BY <1>1, <2>5
    <3>2. chip'["slave"] = chip["slave"] /\ chip'["master"] = new
      BY <2>3, <3>1
    <3> QED
      BY <1>1, <1>2, <1>3, <2>2, <2>5, <3>1, <3>2 DEF ChipInv
  <2>6. CASE booted \in {1, 3, 5, 7, 9}
    <3>1. w[1] = "slave"
      BY <1>1, <2>6
    <3>2. chip'["master"] = chip["master"] /\ chip'["slave"] = new
      BY <2>3, <3>1
    <3> QED
      BY <1>1, <1>2, <1>3, <2>2, <2>6, <3>1, <3>2 DEF ChipInv
  <2> QED
    BY <1>2, <2>5, <2>6
<1>10. BootInv'
  BY <1>1, <1>2, <1>3 DEF BootInv, TableLoaded
<1> QED
  BY <1>8, <1>9, <1>10, KernelKeeps DEF RemapWrite

\* pic_clear_mask changes a mask and nothing else.
LEMMA ClearMaskKeeps ==
    ASSUME TypeInv, ChipInv, NEW l \in Int, ClearMask(l),
           booted' = booted \/ (booted = 10 /\ booted' = 11)
    PROVE  /\ chip' \in [Chips -> ChipStates]
           /\ ChipInv'
<1>1. PICK c \in Chips : chip' = [chip EXCEPT ![c].imr = @ \ {l % 8}]
  BY DEF ClearMask, Chips
<1>2. \A d \in Chips :
        /\ chip'[d].expects = chip[d].expects
        /\ chip'[d].base = chip[d].base
        /\ chip'[d].cascade = chip[d].cascade
  BY <1>1 DEF TypeInv
<1>3. ChipInv'
  BY <1>2 DEF ChipInv, Chips, TypeInv
<1> QED
  BY <1>1, <1>3 DEF TypeInv, ChipStates

\* main's steps after pic_remap's writes.
LEMMA KernelIInv == ASSUME IInv, MainStep PROVE IInv'
<1> USE InterruptsAssumption
<1>0. TypeInv /\ ChipInv /\ BootInv /\ Len(RemapWrites) = 10
  BY DEF IInv, RemapWrites
<1>1. CASE RemapWrite
  BY <1>1, RemapKeeps
<1>2. CASE UnmaskCascade
  <2>1. TypeInv' /\ ChipInv'
    BY <1>0, <1>2, ClearMaskKeeps
       DEF UnmaskCascade, KernelStep, TypeInv, Cascade
  <2>2. BootInv'
    BY <1>0, <1>2 DEF UnmaskCascade, KernelStep, BootInv, TableLoaded
  <2> QED
    BY <1>2, <2>1, <2>2, KernelKeeps DEF UnmaskCascade
<1>3. CASE InitIsrs
  <2>1. TypeInv' /\ ChipInv'
    BY <1>0, <1>3 DEF InitIsrs, KernelStep, TypeInv, ChipInv
  <2>2. BootInv'
    BY <1>0, <1>3 DEF InitIsrs, KernelStep, BootInv, TableLoaded
  <2> QED
    BY <1>3, <2>1, <2>2, KernelKeeps DEF InitIsrs
<1>4. CASE Sti
  <2>1. TypeInv' /\ ChipInv' /\ BootInv'
    BY <1>0, <1>4
       DEF Sti, KernelStep, kernelVars, TypeInv, ChipInv, BootInv, TableLoaded
  <2> QED
    BY <1>4, <2>1, KernelKeeps DEF Sti
<1>5. ASSUME NEW n \in {32 + l : l \in Served} \cup {Syscall}, Register(n)
      PROVE  IInv'
  <2>1. TypeInv' /\ ChipInv' /\ BootInv'
    BY <1>0, <1>5 DEF Register, KernelStep, TypeInv, ChipInv, BootInv,
       TableLoaded
  <2> QED
    BY <1>5, <2>1, KernelKeeps DEF Register
<1>6. ASSUME NEW l \in Served, Unmask(l) PROVE IInv'
  <2>0. l \in Int
    OBVIOUS
  <2>1. ClearMask(l) /\ UNCHANGED <<intf, booted, handlers, irr, isr, hpc,
                                    vector,
                                    owed, raises>>
    BY <1>6 DEF Unmask, KernelStep
  <2>3. ChipInv' /\ chip' \in [Chips -> ChipStates]
    BY <1>0, <2>0, <2>1, ClearMaskKeeps
  <2>4. TypeInv'
    BY <1>0, <2>1, <2>3 DEF TypeInv
  <2>2. BootInv'
    BY <1>0, <1>6 DEF Unmask, KernelStep, BootInv, TableLoaded
  <2> QED
    BY <1>6, <2>2, <2>3, <2>4, KernelKeeps DEF Unmask
<1> QED
  BY <1>1, <1>2, <1>3, <1>4, <1>5, <1>6 DEF MainStep
-----------------------------------------------------------------------------
(* Steps of the devices.                                                   *)

\* A request is made or withdrawn: what is pending changes with what is owed.
LEMMA DeviceIInv ==
    ASSUME IInv, NEW l \in Lines, Raise(l) \/ Withdraw(l)
    PROVE  IInv'
<1> USE InterruptsAssumption
<1> DEFINE c == ChipOf(l)
           b == l % 8
<1>1. /\ c \in Chips /\ b \in 0..7 /\ l \in 0..15
      /\ c = "master" => b = l
      /\ c = "slave" => b = l - 8
  BY LineInput DEF ChipOf, Chips
<1>2. UNCHANGED <<chip, booted, handlers, isr, intf, hpc, vector>>
  BY DEF Raise, Withdraw, kernelVars
<1>3. CASE Raise(l)
  <2>1. /\ b \notin irr[c]
        /\ irr' = [irr EXCEPT ![c] = @ \cup {b}]
        /\ owed' = [owed EXCEPT ![l] = @ + 1]
        /\ raises' = raises + 1 /\ booted >= 10
    BY <1>3 DEF Raise, Remapped, RemapWrites
  <2>2. TypeInv'
    BY <1>1, <1>2, <2>1 DEF IInv, TypeInv
  <2>3. BootInv'
    BY <1>1, <1>2, <2>1 DEF IInv, TypeInv, BootInv, TableLoaded, Chips
  <2>4. OwedInv'
    <3> SUFFICES ASSUME hpc # "panic", NEW k \in Lines
                 PROVE  owed'[k] = Pending(k)' + Taken(k)'
      BY <1>2 DEF OwedInv
    <3>1. Taken(k)' = Taken(k) /\ owed[k] = Pending(k) + Taken(k)
      BY <1>2 DEF Taken, IInv, OwedInv, InService, idx
    <3>2. k # l => k % 8 # b \/ ChipOf(k) # c
      BY LinesDiffer
    <3>3. Pending(k)' = IF k = l THEN 1 ELSE Pending(k)
      BY <1>1, <2>1, <3>2 DEF Pending, IInv, TypeInv
    <3>4. k = l => Pending(k) = 0
      BY <2>1 DEF Pending
    <3>5. Taken(k) \in Int /\ Pending(k) \in Int
      BY DEF Taken, Pending
    <3>6. owed'[k] = IF k = l THEN owed[k] + 1 ELSE owed[k]
      BY <2>1 DEF IInv, TypeInv
    <3> QED
      BY <3>1, <3>3, <3>4, <3>5, <3>6
  <2> QED
    BY <1>2, <2>2, <2>3, <2>4 DEF IInv, ChipInv, ServiceInv, InService,
       ServesNothing, Quiet, idx
<1>4. CASE Withdraw(l)
  <2>1. /\ b \in irr[c]
        /\ irr' = [irr EXCEPT ![c] = @ \ {b}]
        /\ owed' = [owed EXCEPT ![l] = @ - 1]
        /\ raises' = raises
    BY <1>4 DEF Withdraw
  <2>2. TypeInv'
    BY <1>1, <1>2, <2>1 DEF IInv, TypeInv
  <2>3. BootInv'
    BY <1>1, <1>2, <2>1 DEF IInv, TypeInv, BootInv, TableLoaded, Chips
  <2>4. OwedInv'
    <3> SUFFICES ASSUME hpc # "panic", NEW k \in Lines
                 PROVE  owed'[k] = Pending(k)' + Taken(k)'
      BY <1>2 DEF OwedInv
    <3>1. Taken(k)' = Taken(k) /\ owed[k] = Pending(k) + Taken(k)
      BY <1>2 DEF Taken, IInv, OwedInv, InService, idx
    <3>2. k # l => k % 8 # b \/ ChipOf(k) # c
      BY LinesDiffer
    <3>3. Pending(k)' = IF k = l THEN 0 ELSE Pending(k)
      BY <1>1, <2>1, <3>2 DEF Pending, IInv, TypeInv
    <3>4. k = l => Pending(k) = 1
      BY <2>1 DEF Pending
    <3>5. Taken(k) \in Int /\ Pending(k) \in Int
      BY DEF Taken, Pending
    <3>6. owed'[k] = IF k = l THEN owed[k] - 1 ELSE owed[k]
      BY <2>1 DEF IInv, TypeInv
    <3> QED
      BY <3>1, <3>3, <3>4, <3>5, <3>6
  <2> QED
    BY <1>2, <2>2, <2>3, <2>4 DEF IInv, ChipInv, ServiceInv, InService,
       ServesNothing, Quiet, idx
<1> QED
  BY <1>3, <1>4
-----------------------------------------------------------------------------
(* The controllers answer.                                                 *)

\* Once the table is loaded the controllers are as pic_remap means them.
LEMMA Programmed ==
    ASSUME IInv, hpc # "none" \/ intf
    PROVE  /\ booted = 12
           /\ chip["master"].base = 32 /\ chip["master"].cascade = 4
           /\ chip["slave"].base = 40 /\ chip["slave"].cascade = 2
<1>1. Len(RemapWrites) = 10
  BY DEF RemapWrites
<1> QED
  BY <1>1 DEF IInv, TypeInv, ChipInv, BootInv, TableLoaded

\* A controller serves an input that is requested and not masked; the master
\* serves the cascade only when the slave has one to serve.
LEMMA ServesRequested ==
    ASSUME TypeInv, NEW c \in Chips, Asked(c) # {}
    PROVE  /\ Min(Asked(c)) \in 0..7
           /\ \/ Min(Asked(c)) \in irr[c]
              \/ c = "master" /\ Min(Asked(c)) = Cascade
<1>1. Asked(c) \subseteq irr[c] \cup IF c = "master" THEN {Cascade} ELSE {}
  BY DEF Asked, Eligible
<1>2. irr[c] \subseteq 0..7
  BY DEF TypeInv
<1>3. Asked(c) \subseteq 0..7
  BY <1>1, <1>2 DEF Cascade
<1>4. Asked(c) \subseteq Nat
  BY <1>3
<1>5. Min(Asked(c)) \in Asked(c)
  BY <1>4, MinIsMember
<1> QED
  BY <1>1, <1>3, <1>5

\* The master answers: with an input of its own, for the slave, or for nothing.
LEMMA MasterServes == ASSUME IInv, Serve("master") PROVE IInv'
<1> USE InterruptsAssumption DEF Chips
<1> DEFINE b == Min(Asked("master"))
<1>1. /\ hpc = "master"
      /\ UNCHANGED <<chip, booted, handlers, owed, raises, intf>>
  BY DEF Serve, InterruptStep, kernelVars
<1>2. TypeInv /\ ChipInv /\ BootInv /\ ServiceInv /\ OwedInv /\ Quiet
  BY <1>1 DEF IInv, ServiceInv
<1>3. chip["master"].base = 32 /\ booted = 12
  BY <1>1, Programmed
<1>4. CASE Asked("master") = {}
  <2>1. vector' = 39 /\ hpc' = "dispatch" /\ UNCHANGED <<irr, isr>>
    BY <1>3, <1>4 DEF Serve
  <2>2. ServesNothing' /\ ~InService'
    BY <1>2, <2>1 DEF ServesNothing, InService, Quiet, idx
  <2>3. TypeInv' /\ ChipInv' /\ BootInv'
    BY <1>1, <1>2, <2>1 DEF TypeInv, ChipInv, BootInv, TableLoaded
  <2>4. ServiceInv'
    BY <2>1, <2>2 DEF ServiceInv
  <2>5. OwedInv'
    BY <1>1, <1>2, <2>1, <2>2 DEF OwedInv, Pending, Taken
  <2> QED
    BY <2>3, <2>4, <2>5 DEF IInv
<1>5. CASE Asked("master") # {} /\ b = Cascade
  <2>1. /\ hpc' = "slave" /\ UNCHANGED vector
        /\ isr' = [isr EXCEPT !["master"] = @ \cup {Cascade}]
        /\ irr' = [irr EXCEPT !["master"] = @ \ {Cascade}]
    BY <1>5 DEF Serve
  <2>2. irr' = irr
    BY <1>2, <2>1 DEF TypeInv, BootInv
  <2>3. TypeInv' /\ ChipInv' /\ BootInv'
    BY <1>1, <1>2, <1>3, <2>1, <2>2 DEF TypeInv, ChipInv, BootInv, TableLoaded,
       Cascade
  <2>4. ServiceInv'
    BY <1>2, <2>1 DEF ServiceInv, Quiet, TypeInv
  <2>5. OwedInv'
    BY <1>1, <1>2, <2>1, <2>2 DEF OwedInv, Pending, Taken
  <2> QED
    BY <2>3, <2>4, <2>5 DEF IInv
<1>6. CASE Asked("master") # {} /\ b # Cascade
  <2>1. /\ hpc' = "dispatch" /\ vector' = 32 + b
        /\ isr' = [isr EXCEPT !["master"] = @ \cup {b}]
        /\ irr' = [irr EXCEPT !["master"] = @ \ {b}]
    BY <1>3, <1>6 DEF Serve
  <2>2. b \in irr["master"] /\ b \in 0..7
    BY <1>2, <1>6, ServesRequested
  <2> HIDE DEF b
  <2>3. b \in Lines /\ b # Cascade
    BY <1>2, <1>6, <2>2 DEF BootInv
  <2>4. TypeInv' /\ ChipInv' /\ BootInv'
    BY <1>1, <1>2, <1>3, <2>1, <2>2 DEF TypeInv, ChipInv, BootInv, TableLoaded
  <2>5. InService' /\ idx' = b
    BY <1>2, <2>1, <2>2, <2>3 DEF InService, Quiet, TypeInv, idx
  <2>6. ServiceInv'
    BY <2>1, <2>5 DEF ServiceInv
  <2>7. OwedInv'
    <3> SUFFICES ASSUME NEW k \in Lines
                 PROVE  owed[k] = Pending(k)' + Taken(k)'
      BY <1>1 DEF OwedInv
    <3>1. owed[k] = Pending(k)
      BY <1>1, <1>2 DEF OwedInv, Taken, Pending
    <3>2. Taken(k)' = IF k = b THEN 1 ELSE 0
      BY <2>1, <2>5 DEF Taken
    <3>3. CASE k = b
      <4>1. ChipOf(k) = "master" /\ k % 8 = b
        BY <2>2, <3>3 DEF ChipOf
      <4>2. Pending(k) = 1 /\ Pending(k)' = 0
        BY <1>2, <2>1, <2>2, <4>1 DEF Pending, TypeInv
      <4> QED
        BY <3>1, <3>2, <3>3, <4>2
    <3>4. CASE k # b
      <4>1. ChipOf(k) # "master" \/ k % 8 # b
        BY <2>2, <3>4, LineInput DEF ChipOf
      <4>2. Pending(k)' = Pending(k) /\ Pending(k) \in Int
        BY <1>2, <2>1, <4>1 DEF Pending, TypeInv, ChipOf
      <4> QED
        BY <3>1, <3>2, <3>4, <4>2
    <3> QED
      BY <3>3, <3>4
  <2> QED
    BY <2>4, <2>6, <2>7 DEF IInv
<1> QED
  BY <1>4, <1>5, <1>6

\* The slave answers: with one of its inputs, or for nothing.
LEMMA SlaveServes == ASSUME IInv, Serve("slave") PROVE IInv'
<1> USE InterruptsAssumption DEF Chips
<1> DEFINE b == Min(Asked("slave"))
<1>1. /\ hpc = "slave" /\ hpc' = "dispatch"
      /\ UNCHANGED <<chip, booted, handlers, owed, raises, intf>>
  BY DEF Serve, InterruptStep, kernelVars
<1>2. /\ TypeInv /\ ChipInv /\ BootInv /\ OwedInv
      /\ isr["master"] = {Cascade} /\ isr["slave"] \subseteq {0}
  BY <1>1 DEF IInv, ServiceInv
<1>3. chip["slave"].base = 40 /\ booted = 12
  BY <1>1, Programmed
<1>4. CASE Asked("slave") = {}
  <2>1. vector' = 47 /\ UNCHANGED <<irr, isr>>
    BY <1>3, <1>4 DEF Serve
  <2>2. ServesNothing' /\ ~InService'
    BY <1>2, <2>1 DEF ServesNothing, InService, Quiet, idx, Cascade
  <2>3. TypeInv' /\ ChipInv' /\ BootInv'
    BY <1>1, <1>2, <2>1 DEF TypeInv, ChipInv, BootInv, TableLoaded
  <2>4. ServiceInv'
    BY <1>1, <2>1, <2>2 DEF ServiceInv
  <2>5. OwedInv'
    BY <1>1, <1>2, <2>1, <2>2 DEF OwedInv, Pending, Taken
  <2> QED
    BY <2>3, <2>4, <2>5 DEF IInv
<1>5. CASE Asked("slave") # {}
  <2>1. /\ vector' = 40 + b
        /\ isr' = [isr EXCEPT !["slave"] = @ \cup {b}]
        /\ irr' = [irr EXCEPT !["slave"] = @ \ {b}]
    BY <1>3, <1>5 DEF Serve
  <2>2. b \in irr["slave"] /\ b \in 0..7
    BY <1>2, <1>5, ServesRequested
  <2>3. isr["slave"] = {}
    \* Nothing has a higher priority than input 0.
    <3>1. 0 \notin isr["slave"]
      <4>1. Asked("slave") \subseteq
              {n \in irr["slave"] : \A s \in isr["slave"] : n < s}
        BY DEF Asked, Eligible
      <4>2. PICK n \in irr["slave"] : \A s \in isr["slave"] : n < s
        BY <1>5, <4>1
      <4> QED
        BY <1>2, <4>2 DEF TypeInv
    <3> QED
      BY <1>2, <3>1
  <2> HIDE DEF b
  <2>4. TypeInv' /\ ChipInv' /\ BootInv'
    BY <1>1, <1>2, <1>3, <2>1, <2>2 DEF TypeInv, ChipInv, BootInv, TableLoaded
  <2>5. InService' /\ idx' = b + 8
    BY <1>2, <2>1, <2>2, <2>3 DEF InService, TypeInv, idx
  <2>6. ServiceInv'
    BY <1>1, <2>1, <2>5 DEF ServiceInv
  <2>7. OwedInv'
    <3> SUFFICES ASSUME NEW k \in Lines
                 PROVE  owed[k] = Pending(k)' + Taken(k)'
      BY <1>1 DEF OwedInv
    <3>1. owed[k] = Pending(k)
      BY <1>1, <1>2 DEF OwedInv, Taken, Pending
    <3>2. Taken(k)' = IF k = b + 8 THEN 1 ELSE 0
      BY <1>1, <2>1, <2>5 DEF Taken
    <3>3. CASE k = b + 8
      <4>1. ChipOf(k) = "slave" /\ k % 8 = b
        BY <2>2, <3>3 DEF ChipOf
      <4>2. Pending(k) = 1 /\ Pending(k)' = 0
        BY <1>2, <2>1, <2>2, <4>1 DEF Pending, TypeInv
      <4> QED
        BY <3>1, <3>2, <3>3, <4>2
    <3>4. CASE k # b + 8
      <4>1. ChipOf(k) # "slave" \/ k % 8 # b
        BY <2>2, <3>4, LineInput DEF ChipOf
      <4>2. Pending(k)' = Pending(k) /\ Pending(k) \in Int
        BY <1>2, <2>1, <4>1 DEF Pending, TypeInv, ChipOf
      <4> QED
        BY <3>1, <3>2, <3>4, <4>2
    <3> QED
      BY <3>3, <3>4
  <2> QED
    BY <2>4, <2>6, <2>7 DEF IInv
<1> QED
  BY <1>4, <1>5
-----------------------------------------------------------------------------
(* The CPU's other steps.                                                  *)

\* The step by which an interrupt comes, by request, by int or by exception.
LEMMA EnterIInv ==
    ASSUME IInv,
           \/ Accept
           \/ \E n \in Called : IntInstruction(n)
           \/ \E v \in Exceptions : Fault(v)
    PROVE  IInv'
<1> USE InterruptsAssumption
<1> DEFINE Entered ==
             /\ hpc = "none" /\ intf' = FALSE /\ TableLoaded
             /\ \/ hpc' = "master" /\ vector' = vector
                \/ /\ hpc' = "dispatch" /\ vector' \in Int
                   /\ vector' < 32 \/ vector' = Syscall
             /\ UNCHANGED <<chip, booted, handlers, owed, raises, irr, isr>>
<1>1. Entered
  <2>1. CASE Accept
    BY <2>1 DEF Accept, InterruptStep, kernelVars, IInv, BootInv
  <2>2. ASSUME NEW n \in Called, IntInstruction(n) PROVE Entered
    BY <2>2 DEF IntInstruction, InterruptStep, kernelVars, IInv, BootInv,
       GateDpl, Syscall, Protection
  <2>3. ASSUME NEW v \in Exceptions, Fault(v) PROVE Entered
    BY <2>3 DEF Fault, InterruptStep, kernelVars, Syscall
  <2> HIDE DEF Entered
  <2> QED
    BY <2>1, <2>2, <2>3
<1>2. Quiet /\ ~InService'
  BY <1>1 DEF IInv, ServiceInv, Quiet, InService, idx, Syscall, Cascade
<1>3. intf' \in BOOLEAN
  BY <1>1, Zenon
<1>4. TypeInv'
  BY <1>1, <1>3 DEF IInv, TypeInv
<1>5. ChipInv' /\ BootInv'
  BY <1>1 DEF IInv, ChipInv, BootInv, TableLoaded
<1>6. ServiceInv'
  BY <1>1, <1>2 DEF ServiceInv, Quiet
<1>7. OwedInv'
  BY <1>1, <1>2 DEF IInv, OwedInv, Pending, Taken
<1> QED
  BY <1>4, <1>5, <1>6, <1>7 DEF IInv

\* A spurious interrupt of the slave ends the master's service of it.
LEMMA SpuriousIInv == ASSUME IInv, IrqSpurious PROVE IInv'
<1>1. /\ hpc = "dispatch" /\ hpc' = "iret" /\ Spurious
      /\ UNCHANGED <<chip, booted, handlers, owed, raises, irr, intf, vector>>
      /\ isr' = IF idx = 15 THEN [isr EXCEPT !["master"] = Ended(@)] ELSE isr
  BY DEF IrqSpurious, InterruptStep, kernelVars
<1>2. ServesNothing /\ ~InService
  BY <1>1 DEF IInv, ServiceInv, Spurious, InService, ServesNothing, idx,
     Syscall,
     Cascade, TypeInv
<1>3. Quiet' /\ isr' \in [Chips -> SUBSET (0..7)]
  BY <1>1, <1>2, EndsTheOnlyOne
     DEF IInv, TypeInv, ServesNothing, Quiet, Chips, Cascade
<1>4. TypeInv' /\ ChipInv' /\ BootInv'
  BY <1>1, <1>3 DEF IInv, TypeInv, ChipInv, BootInv, TableLoaded
<1>5. ServiceInv'
  BY <1>1, <1>3 DEF ServiceInv
<1>6. OwedInv'
  BY <1>1, <1>2 DEF IInv, OwedInv, Pending, Taken
<1> QED
  BY <1>4, <1>5, <1>6 DEF IInv

\* irq_handler finds the handler, or panics.
LEMMA DispatchIInv == ASSUME IInv, Dispatch PROVE IInv'
<1> USE InterruptsAssumption
<1>1. /\ hpc = "dispatch" /\ hpc' \in {"handler", "panic"}
      /\ hpc' = "handler" => ~Spurious /\ vector \in handlers /\ vector >= 32
      /\ UNCHANGED <<chip, booted, handlers, owed, raises, irr, isr, intf,
                     vector>>
  BY DEF Dispatch, InterruptStep, kernelVars
<1>2. TypeInv' /\ ChipInv' /\ BootInv'
  <2>1. TypeInv'
    <3>1. /\ hpc' = "handler" \/ hpc' = "panic"
          /\ UNCHANGED <<chip, booted, owed, raises, irr, isr, intf, vector>>
      BY <1>1
    <3> QED
      BY <3>1 DEF IInv, TypeInv
  <2>2. ChipInv' /\ BootInv'
    BY <1>1 DEF IInv, ChipInv, BootInv, TableLoaded
  <2> QED
    BY <2>1, <2>2
<1>3. ServiceInv'
  <2>1. CASE hpc' = "handler"
    <3>1. ~ServesNothing
      BY <1>1, <2>1 DEF Spurious, ServesNothing, Quiet, Cascade
    <3>2. InService => idx \in Served
      BY <1>1, <2>1 DEF IInv, TypeInv, BootInv, InService, idx, Syscall
    <3> QED
      BY <1>1, <2>1, <3>1, <3>2 DEF IInv, TypeInv, ServiceInv, InService,
         Quiet, idx
  <2> QED
    BY <1>1, <2>1 DEF ServiceInv
<1>4. OwedInv'
  BY <1>1 DEF IInv, OwedInv, Pending, Taken, InService, idx
<1> QED
  BY <1>2, <1>3, <1>4 DEF IInv

\* The handler serves the request that has been taken.
LEMMA RunHandlerIInv == ASSUME IInv, RunHandler PROVE IInv'
<1> USE InterruptsAssumption
<1>1. /\ hpc = "handler" /\ hpc' = "eoi"
      /\ owed' = IF idx \in Lines THEN [owed EXCEPT ![idx] = @ - 1] ELSE owed
      /\ UNCHANGED <<chip, booted, handlers, raises, irr, isr, intf, vector>>
  BY DEF RunHandler, kernelVars
<1>2. TypeInv' /\ ChipInv' /\ BootInv'
  <2>1. owed' \in [Lines -> Int]
    <3>1. owed \in [Lines -> Int]
      BY DEF IInv, TypeInv
    <3>2. CASE idx \in Lines
      <4>1. owed[idx] - 1 \in Int
        BY <3>1, <3>2
      <4>2. owed' = [owed EXCEPT ![idx] = owed[idx] - 1]
        BY <1>1, <3>2
      <4> QED
        BY <3>1, <4>1, <4>2
    <3>3. CASE idx \notin Lines
      BY <1>1, <3>1, <3>3
    <3> QED
      BY <3>2, <3>3
  <2>2. TypeInv'
    BY <1>1, <2>1 DEF IInv, TypeInv
  <2>3. ChipInv' /\ BootInv'
    BY <1>1 DEF IInv, ChipInv, BootInv, TableLoaded
  <2> QED
    BY <2>2, <2>3
<1>3. ServiceInv'
  BY <1>1 DEF IInv, ServiceInv, InService, Quiet, idx
<1>4. idx \in Lines => InService
  BY <1>1 DEF IInv, ServiceInv, idx, Syscall
<1>5. OwedInv'
  <2> SUFFICES ASSUME NEW k \in Lines
               PROVE  owed'[k] = Pending(k)' + Taken(k)'
    BY DEF OwedInv
  <2>1. owed[k] = Pending(k) + Taken(k) /\ Pending(k) \in Int
    BY <1>1 DEF IInv, OwedInv, Pending
  <2>2. Pending(k)' = Pending(k) /\ Taken(k)' = 0
    BY <1>1 DEF Pending, Taken
  <2>3. Taken(k) = IF k = idx THEN 1 ELSE 0
    BY <1>1, <1>4 DEF Taken
  <2>4. owed'[k] = IF k = idx THEN owed[k] - 1 ELSE owed[k]
    BY <1>1 DEF IInv, TypeInv
  <2> QED
    BY <2>1, <2>2, <2>3, <2>4
<1> QED
  BY <1>2, <1>3, <1>5 DEF IInv

\* pic_write_eoi ends what is in service, save line 8 at the slave.
LEMMA EoiIInv == ASSUME IInv, Eoi PROVE IInv'
<1>1. /\ hpc = "eoi" /\ hpc' = "iret"
      /\ isr' = [c \in Chips |->
                  IF c = "master" \/ idx > 8 THEN Ended(isr[c]) ELSE isr[c]]
      /\ UNCHANGED <<chip, booted, handlers, owed, raises, irr, intf, vector>>
  BY DEF Eoi, InterruptStep, kernelVars
<1>2. /\ isr'["master"] = Ended(isr["master"])
      /\ isr'["slave"] = IF idx > 8 THEN Ended(isr["slave"]) ELSE isr["slave"]
      /\ Ended(isr["slave"]) \subseteq isr["slave"]
  BY <1>1 DEF Chips, Ended
<1>3. isr'["master"] = {}
  <2>1. PICK b \in Nat : isr["master"] \in {{}, {b}}
    BY <1>1 DEF IInv, ServiceInv, InService, Quiet, Cascade
  <2> QED
    BY <1>2, <2>1, EndsTheOnlyOne
<1>4. isr'["slave"] \subseteq {0}
  <2>1. CASE isr["slave"] \subseteq {0}
    BY <1>2, <2>1
  <2>2. CASE idx \in 8..15 /\ isr["slave"] = {idx - 8}
    <3>1. idx > 8 => Ended(isr["slave"]) = {}
      BY <2>2, EndsTheOnlyOne
    <3> QED
      BY <1>2, <2>2, <3>1
  <2> QED
    BY <1>1, <2>1, <2>2 DEF IInv, ServiceInv, InService, Quiet
<1>5. TypeInv' /\ ChipInv' /\ BootInv'
  <2>1. isr' \in [Chips -> SUBSET (0..7)]
    BY <1>1, <1>3, <1>4 DEF Chips
  <2> QED
    BY <1>1, <2>1 DEF IInv, TypeInv, ChipInv, BootInv, TableLoaded
<1>6. ServiceInv'
  BY <1>1, <1>3, <1>4 DEF ServiceInv, Quiet
<1>7. OwedInv'
  BY <1>1 DEF IInv, OwedInv, Pending, Taken
<1> QED
  BY <1>5, <1>6, <1>7 DEF IInv

\* What was interrupted goes on.
LEMMA IretIInv == ASSUME IInv, Iret PROVE IInv'
<1>1. /\ hpc = "iret" /\ hpc' = "none" /\ intf' = TRUE
      /\ UNCHANGED <<chip, booted, handlers, owed, raises, irr, isr, vector>>
  BY DEF Iret, InterruptStep, kernelVars
<1>2. intf' \in BOOLEAN
  BY <1>1, Zenon
<1>3. TypeInv'
  BY <1>1, <1>2 DEF IInv, TypeInv
<1>4. ChipInv' /\ BootInv'
  BY <1>1 DEF IInv, ChipInv, BootInv, TableLoaded
<1>5. ServiceInv' /\ OwedInv'
  BY <1>1 DEF IInv, ServiceInv, Quiet, OwedInv, Pending, Taken
<1> QED
  BY <1>3, <1>4, <1>5 DEF IInv
-----------------------------------------------------------------------------
(* The invariant and what follows from it.                                 *)

\* Every step of every run preserves the invariant.
THEOREM Inductive == Spec => []IInv
<1>1. IInv /\ [Next]_vars => IInv'
  <2> SUFFICES ASSUME IInv, [Next]_vars PROVE IInv'
    OBVIOUS
  <2>1. CASE MainStep
    BY <2>1, KernelIInv
  <2>2. CASE \E l \in Lines : Raise(l) \/ Withdraw(l)
    BY <2>2, DeviceIInv
  <2>3. CASE \/ Accept
             \/ \E n \in Called : IntInstruction(n)
             \/ \E v \in Exceptions : Fault(v)
    BY <2>3, EnterIInv
  <2>4. CASE \E c \in Chips : Serve(c)
    BY <2>4, MasterServes, SlaveServes DEF Chips
  <2>5. CASE IrqSpurious \/ Dispatch \/ RunHandler \/ Eoi \/ Iret
    BY <2>5, SpuriousIInv, DispatchIInv, RunHandlerIInv, EoiIInv, IretIInv
  <2>6. CASE UNCHANGED vars
    <3>1. UNCHANGED <<chip, booted, handlers, irr, isr, intf, hpc, vector, owed,
                      raises>>
      BY <2>6 DEF vars, kernelVars
    <3>2. TypeInv'
      BY <3>1 DEF IInv, TypeInv
    <3>3. ChipInv' /\ BootInv'
      BY <3>1 DEF IInv, ChipInv, BootInv, TableLoaded
    <3>4. ServiceInv'
      BY <3>1 DEF IInv, ServiceInv, Quiet, InService, ServesNothing, idx
    <3>5. OwedInv'
      BY <3>1 DEF IInv, OwedInv, Pending, Taken, InService, idx
    <3> QED
      BY <3>2, <3>3, <3>4, <3>5 DEF IInv
  <2> QED
    BY <2>1, <2>2, <2>3, <2>4, <2>5, <2>6 DEF Next, CpuStep
<1> QED
  BY InitIInv, <1>1, PTL DEF Spec

\* irq_handler calls a line's handler only while the controllers serve that
\* line: pic_spurious turns back every answer to a withdrawn request, and the
\* gates keep int instructions out.
THEOREM HandlersServe == Spec => []HandlersServeTheirLine
<1>1. IInv => HandlersServeTheirLine
  <2> SUFFICES ASSUME IInv, hpc = "handler", vector # Syscall
               PROVE  idx % 8 \in isr[ChipOf(idx)]
    BY DEF HandlersServeTheirLine
  <2>1. InService
    BY DEF IInv, ServiceInv
  <2> QED
    BY <2>1, LineInput DEF InService
<1> QED
  BY Inductive, <1>1, PTL

\* No request is lost and none is handled twice, whichever are withdrawn and
\* whatever interrupts the kernel otherwise.
THEOREM RequestsAreAccountedFor == Spec => []RequestsAccountedFor
<1>1. IInv => RequestsAccountedFor
  BY DEF IInv, OwedInv, RequestsAccountedFor, Pending, Taken
<1> QED
  BY Inductive, <1>1, PTL

\* pic_write_eoi and the acknowledgement of spurious interrupts leave nothing
\* in service but line 8, which pic_write_eoi takes for the master's.
THEOREM ServicesEnd == Spec => []NothingStaysInService
<1>1. IInv => NothingStaysInService
  BY DEF IInv, ServiceInv, Quiet, NothingStaysInService
<1> QED
  BY Inductive, <1>1, PTL
=============================================================================
