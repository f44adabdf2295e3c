----------------------------- MODULE BootProofs -----------------------------
(***************************************************************************)
(* For any layout of the image and any memory: what the kernel needs stays *)
(* mapped from _start2 on, the lower half faults, mem.c and paging.c are   *)
(* left in the initial states of their models, and only machines that are  *)
(* large and small enough boot.                                            *)
(***************************************************************************)
EXTENDS Boot, WellFoundedInduction, TLAPS

Labels == {"boot", "load_cr3", "enable", "jump", "memory", "reserve", "panic",
           "clear", "map", "map_vga", "recover", "switch", "running"}

PageTables == [0..(Dirs - 1) -> [0..(Entries - 1) -> Nat]]

TypeInv ==
    /\ pc \in Labels /\ i \in Nat /\ memory \in Memories
    /\ boot_dir \in [0..(Dirs - 1) -> Nat]
    /\ page_table \in PageTables
    /\ bitset \subseteq 0..(MAX_PAGES - 1)
    /\ pc # "running" => given = {}

\* Which directory the MMU reads.
CpuInv ==
    /\ paging = (pc \notin {"boot", "load_cr3", "enable"})
    /\ pc \notin {"boot", "load_cr3", "running"} => cr3 = BootDir
    /\ pc \in {"boot", "load_cr3"} => cr3 = Null
    /\ pc = "running" => cr3 = PageDir

\* The big pages, as far as enable_boot_paging has come: the image is at its
\* own address and in the higher half.
Covers(d) == d * Entries < KernelStop

BigInv ==
    \A d \in Nat : Covers(d) /\ (pc = "boot" => d < i) =>
        boot_dir[d] = d /\ boot_dir[FirstKernelDir + d] = d

\* The frames physical_mem_init marks, and the tables page_free has given back.
Marked == (TotalBlocks..(MAX_PAGES - 1)) \cup {Null, VgaBlock}
              \cup (KernelStart..KernelStop)
TablesTo(n) == {Table(d) : d \in 0..(n - 1)}

MemoryInv ==
    /\ BeforeJump \/ pc = "memory" => bitset = {}
    /\ pc = "reserve" =>
         TotalBlocks < MAX_PAGES /\ bitset = TotalBlocks..(MAX_PAGES - 1)
    /\ pc = "panic" => ~Fit
    /\ pc \in {"clear", "map", "map_vga"} => bitset = Marked
    /\ pc = "recover" => bitset = Marked \ TablesTo(i) /\ i <= FirstKernelDir
    /\ pc = "switch" => bitset = Marked \ TablesTo(FirstKernelDir)
    /\ pc = "running" =>
         /\ bitset = (Marked \ TablesTo(FirstKernelDir)) \cup given
         /\ given \cap (Marked \ TablesTo(FirstKernelDir)) = {}
    /\ pc \in {"clear", "map", "map_vga", "recover", "switch", "running"} => Fit

\* The page tables, as one function of the page.
FrameOf(t, v) == t[DirOf(v)][EntryOf(v)]

\* The pages paging_init maps, and how far it is.
PagesOf(F) == {Kernel(f) : f \in F}
Booted == PagesOf(Image \cup {VgaBlock}) \cup {Null}

MappedInv ==
    \A v \in 0..(AddressPages - 1) :
        FrameOf(page_table, v) = IF v \in virtual_bitset \ {Null}
                                 THEN v - FirstKernelPage ELSE Null

TablesInv ==
    /\ pc \in {"map", "map_vga", "recover", "switch", "running"} =>
         page_directory = [d \in 0..(Dirs - 1) |-> Table(d)]
    /\ pc \in {"map", "map_vga", "recover", "switch"} => MappedInv
    /\ pc = "map" => /\ KernelStart <= i /\ i <= KernelStop
                     /\ virtual_bitset = PagesOf(KernelStart..(i - 1))
    /\ pc = "map_vga" => virtual_bitset = PagesOf(Image) /\ i = 0
    /\ pc = "recover" => virtual_bitset = Booted \ PagesOf(TablesTo(i))
    /\ pc = "switch" =>
         virtual_bitset = Booted \ PagesOf(TablesTo(FirstKernelDir))

\* What the running kernel's allocations leave alone.
RunningInv ==
    pc = "running" =>
        /\ Booted \ PagesOf(TablesTo(FirstKernelDir)) \subseteq virtual_bitset
        /\ \A f \in Needed : FrameOf(page_table, Kernel(f)) = f
        /\ \A d \in 0..(FirstKernelDir - 1) :
               Table(d) \notin given => page_table[d] = Empty
        /\ given = {} =>
             /\ virtual_bitset = Booted \ PagesOf(TablesTo(FirstKernelDir))
             /\ MappedInv

IInv ==
    /\ TypeInv
    /\ CpuInv
    /\ BigInv
    /\ MemoryInv
    /\ TablesInv
    /\ RunningInv

-----------------------------------------------------------------------------
(* Numbers: the layout, and pages as pairs of a directory and an entry.    *)

Pages == 0..(AddressPages - 1)

\* The layout, with the products of the page table's dimensions left alone.
LEMMA Layout ==
    /\ Dirs \in Nat \ {0} /\ Entries \in Nat \ {0} /\ FirstKernelDir \in Nat \ {0}
    /\ AddressPages \in Nat \ {0} /\ FirstKernelPage \in Nat \ {0}
    /\ VgaBlock \in Nat \ {0} /\ BootDir \in Nat \ {0}
    /\ KernelStart \in Nat \ {0} /\ KernelStop \in Nat \ {0}
    /\ PageDir \in Nat \ {0} /\ FirstTable \in Nat \ {0}
    /\ MAX_PAGES = AddressPages - 2 /\ MAX_PAGES \in Nat
    /\ FirstKernelDir < Dirs
    /\ KernelStop <= FirstKernelPage
    /\ FirstKernelPage + KernelStop < MAX_PAGES
    /\ VgaBlock < BootDir /\ BootDir < KernelStart /\ KernelStart < KernelStop
    /\ KernelStart <= PageDir /\ PageDir < KernelStop
    /\ KernelStart < FirstTable /\ FirstTable + Dirs <= KernelStop
    /\ PageDir < FirstTable \/ FirstTable + Dirs - 1 < PageDir
<1>1. /\ AddressPages \in Nat \ {0} /\ FirstKernelPage \in Nat \ {0}
  BY BootAssumption DEF AddressPages, FirstKernelPage
<1> QED
  BY <1>1, BootAssumption DEF MAX_PAGES, Kernel, Table

\* Division by the length of a table.
LEMMA Division ==
    ASSUME NEW v \in Nat
    PROVE  /\ DirOf(v) \in Nat /\ EntryOf(v) \in 0..(Entries - 1)
           /\ DirOf(v) * Entries + EntryOf(v) = v
           /\ DirOf(v) * Entries <= v
<1>1. Entries \in Nat \ {0}
  BY BootAssumption
<1> DEFINE q == v \div Entries
<1>2. q \in Nat /\ v % Entries \in 0..(Entries - 1)
  BY <1>1
<1>3. q * Entries <= v /\ v < (q + 1) * Entries
  BY <1>1
<1>4. \E d \in Nat, e \in 0..(Entries - 1) :
        v = d * Entries + e /\ d = v \div Entries /\ e = v % Entries
  BY <1>1, <1>2, <1>3
<1> QED
  BY <1>1, <1>3, <1>4 DEF DirOf, EntryOf

\* A pair of a directory entry and a table entry is one page.
LEMMA PageAt ==
    ASSUME NEW d \in 0..(Dirs - 1), NEW e \in 0..(Entries - 1)
    PROVE  /\ d * Entries + e \in Pages
           /\ DirOf(d * Entries + e) = d /\ EntryOf(d * Entries + e) = e
<1>1. Entries \in Nat \ {0} /\ Dirs \in Nat \ {0}
  BY BootAssumption
<1>2. d * Entries + e \in Nat
  BY <1>1
<1>3. (d * Entries + e) \div Entries = d /\ (d * Entries + e) % Entries = e
  BY <1>1
<1>4. d * Entries + e < Dirs * Entries
  <2>1. (d + 1) * Entries <= Dirs * Entries
    BY <1>1
  <2>2. d * Entries + e < (d + 1) * Entries
    BY <1>1
  <2> QED
    BY <2>1, <2>2, <1>1, <1>2
<1> QED
  BY <1>1, <1>2, <1>3, <1>4 DEF Pages, AddressPages, DirOf, EntryOf

\* The page of an address; its half is that of its directory entry.
LEMMA PageNumber ==
    ASSUME NEW v \in Pages
    PROVE  /\ v \in Nat
           /\ DirOf(v) \in 0..(Dirs - 1) /\ EntryOf(v) \in 0..(Entries - 1)
           /\ v < FirstKernelPage <=> DirOf(v) < FirstKernelDir
<1>1. Entries \in Nat \ {0} /\ Dirs \in Nat \ {0} /\ FirstKernelDir \in Nat
  BY BootAssumption
<1>2. v \in Nat /\ v < Dirs * Entries
  BY <1>1, Layout DEF Pages, AddressPages
<1>3. DirOf(v) < Dirs
  BY <1>1, <1>2 DEF DirOf
<1>4. v < FirstKernelDir * Entries => DirOf(v) < FirstKernelDir
  BY <1>1, <1>2 DEF DirOf
<1>5. v >= FirstKernelDir * Entries => DirOf(v) >= FirstKernelDir
  BY <1>1, <1>2 DEF DirOf
<1>6. /\ DirOf(v) \in Nat /\ EntryOf(v) \in 0..(Entries - 1)
  BY <1>2, Division
<1>7. FirstKernelDir * Entries \in Nat
  BY <1>1
<1>8. v < FirstKernelDir * Entries <=> DirOf(v) < FirstKernelDir
  BY <1>1, <1>2, <1>4, <1>5, <1>6, <1>7
<1> QED
  BY <1>1, <1>2, <1>3, <1>6, <1>8 DEF FirstKernelPage

\* Two pages differ in one of the two.
LEMMA PagesDiffer ==
    ASSUME NEW v \in Pages, NEW w \in Pages,
           DirOf(v) = DirOf(w), EntryOf(v) = EntryOf(w)
    PROVE  v = w
<1>1. v \in Nat /\ w \in Nat
  BY PageNumber
<1> QED
  BY <1>1, Division

\* A frame of the image at its address in the higher half.
LEMMA HigherHalf ==
    ASSUME NEW f \in Nat, f <= KernelStop
    PROVE  /\ f \in Pages /\ Kernel(f) \in Pages
           /\ Kernel(f) < MAX_PAGES /\ Kernel(f) >= FirstKernelPage
           /\ DirOf(Kernel(f)) = FirstKernelDir + DirOf(f)
           /\ EntryOf(Kernel(f)) = EntryOf(f)
<1>1. f \in Pages /\ Kernel(f) \in Pages /\ Kernel(f) < MAX_PAGES
      /\ Kernel(f) >= FirstKernelPage
  BY Layout DEF Pages, Kernel
<1>2. Entries \in Nat \ {0} /\ FirstKernelDir \in Nat
  BY BootAssumption
<1>3. /\ DirOf(f) \in Nat /\ EntryOf(f) \in 0..(Entries - 1)
      /\ DirOf(f) * Entries + EntryOf(f) = f
  BY Division
<1>4. (FirstKernelDir + DirOf(f)) * Entries + EntryOf(f) = Kernel(f)
  BY <1>2, <1>3 DEF Kernel, FirstKernelPage
<1>5. \A d \in Nat, e \in 0..(Entries - 1) :
        (d * Entries + e) \div Entries = d /\ (d * Entries + e) % Entries = e
  BY <1>2
<1>6. /\ Kernel(f) \div Entries = FirstKernelDir + DirOf(f)
      /\ Kernel(f) % Entries = EntryOf(f)
  <2> DEFINE d == FirstKernelDir + DirOf(f)
             e == EntryOf(f)
  <2>1. d \in Nat /\ e \in 0..(Entries - 1) /\ d * Entries + e = Kernel(f)
    BY <1>2, <1>3, <1>4
  <2>2. d = FirstKernelDir + DirOf(f) /\ e = EntryOf(f)
    OBVIOUS
  <2> HIDE DEF d, e
  <2> QED
    BY <2>1, <2>2, <1>5
<1> QED
  BY <1>1, <1>6 DEF DirOf, EntryOf

\* No memory is taken for there that is not; the count is a frame number.
LEMMA BlocksType ==
    ASSUME TypeInv
    PROVE  TotalBlocks \in Nat /\ TotalBlocks < AddressPages
<1>1. memory \in Nat /\ AddressPages \in Nat \ {0}
  BY BootAssumption, Layout DEF TypeInv
<1>2. /\ memory % (4 * AddressPages) \in Nat
      /\ memory % (4 * AddressPages) < 4 * AddressPages
  BY <1>1
<1> DEFINE m == memory % (4 * AddressPages)
<1>3. m \in Nat /\ m < 4 * AddressPages
  BY <1>2
<1> HIDE DEF m
<1>4. m \div 4 \in Nat /\ m \div 4 < AddressPages
  BY <1>1, <1>3
<1> QED
  BY <1>4 DEF TotalBlocks, m
-----------------------------------------------------------------------------
(* Tables.                                                                 *)

\* The frames of the page tables are in the image, and not the directory's.
LEMMA TableFrames ==
    ASSUME NEW d \in 0..(Dirs - 1)
    PROVE  /\ Table(d) \in Nat \ {Null} /\ Table(d) \in FirstTable..Table(Dirs - 1)
           /\ KernelStart < Table(d) /\ Table(d) < KernelStop
           /\ Table(d) \in Image
           /\ Table(d) - FirstTable = d
           /\ Table(d) # PageDir /\ Table(d) # VgaBlock
           /\ \A c \in 0..(Dirs - 1) : Table(c) = Table(d) => c = d
  BY Layout DEF Table, Image, Null

\* A 4 MB page of the image is in the lower half, its second place in the table.
LEMMA BigPage ==
    ASSUME NEW d \in Nat, Covers(d)
    PROVE  d < FirstKernelDir /\ FirstKernelDir + d < Dirs
<1>1. Entries \in Nat \ {0} /\ FirstKernelDir \in Nat /\ Dirs \in Nat
  BY BootAssumption
<1>2. /\ KernelStop \in Nat /\ AddressPages \in Nat
      /\ KernelStop <= FirstKernelDir * Entries
      /\ FirstKernelDir * Entries + KernelStop < Dirs * Entries
      /\ d * Entries < KernelStop
  BY Layout DEF FirstKernelPage, AddressPages, Covers
<1>3. d >= FirstKernelDir => d * Entries >= FirstKernelDir * Entries
  BY <1>1
<1>4. (FirstKernelDir + d) * Entries < Dirs * Entries
  BY <1>1, <1>2
<1>5. FirstKernelDir + d >= Dirs =>
         (FirstKernelDir + d) * Entries >= Dirs * Entries
  BY <1>1
<1> QED
  BY <1>1, <1>2, <1>3, <1>4, <1>5

\* Mapped changes one page.
LEMMA MapsOne ==
    ASSUME NEW t \in PageTables, NEW v \in Pages, NEW f \in Nat
    PROVE  /\ Mapped(t, v, f) \in PageTables
           /\ FrameOf(Mapped(t, v, f), v) = f
           /\ \A w \in Pages : w # v => FrameOf(Mapped(t, v, f), w) = FrameOf(t, w)
           /\ \A d \in 0..(Dirs - 1) :
                d # DirOf(v) => Mapped(t, v, f)[d] = t[d]
<1>1. DirOf(v) \in 0..(Dirs - 1) /\ EntryOf(v) \in 0..(Entries - 1)
  BY PageNumber
<1>2. Mapped(t, v, f) \in PageTables
  BY <1>1 DEF Mapped, PageTables
<1>3. FrameOf(Mapped(t, v, f), v) = f
  BY <1>1 DEF Mapped, PageTables, FrameOf
<1>4. ASSUME NEW w \in Pages, w # v
      PROVE  FrameOf(Mapped(t, v, f), w) = FrameOf(t, w)
  <2>1. DirOf(w) \in 0..(Dirs - 1) /\ EntryOf(w) \in 0..(Entries - 1)
    BY PageNumber
  <2>2. DirOf(w) # DirOf(v) \/ EntryOf(w) # EntryOf(v)
    BY <1>4, PagesDiffer
  <2> QED
    BY <2>1, <2>2, <1>1 DEF Mapped, PageTables, FrameOf
<1>5. \A d \in 0..(Dirs - 1) : d # DirOf(v) => Mapped(t, v, f)[d] = t[d]
  BY <1>1 DEF Mapped, PageTables
<1> QED
  BY <1>2, <1>3, <1>4, <1>5

\* A table none of whose pages is mapped is empty.
LEMMA EmptyTable ==
    ASSUME NEW t \in PageTables, NEW d \in 0..(Dirs - 1),
           \A v \in Pages : DirOf(v) = d => FrameOf(t, v) = Null
    PROVE  t[d] = Empty
<1>1. t[d] \in [0..(Entries - 1) -> Nat]
  BY DEF PageTables
<1>2. ASSUME NEW e \in 0..(Entries - 1)
      PROVE  t[d][e] = Null
  <2>1. /\ d * Entries + e \in Pages
        /\ DirOf(d * Entries + e) = d /\ EntryOf(d * Entries + e) = e
    BY PageAt
  <2> QED
    BY <2>1 DEF FrameOf
<1> QED
  BY <1>1, <1>2 DEF Empty

\* With nothing marked below the kernel's half, its tables are empty.
LEMMA LowerEmpty ==
    ASSUME page_table \in PageTables, MappedInv,
           \A v \in virtual_bitset : v # Null => v >= FirstKernelPage,
           NEW d \in 0..(FirstKernelDir - 1)
    PROVE  page_table[d] = Empty
<1>1. d \in 0..(Dirs - 1)
  BY Layout
<1>2. ASSUME NEW v \in Pages, DirOf(v) = d
      PROVE  FrameOf(page_table, v) = Null
  <2>1. v \in Nat /\ v < FirstKernelPage
    BY <1>2, PageNumber, Layout
  <2>2. v \notin virtual_bitset \ {Null}
    BY <2>1, Layout
  <2> QED
    BY <2>2 DEF MappedInv, Pages
<1> QED
  BY <1>1, <1>2, EmptyTable

\* What paging_init marks, and what recover_page_tables leaves of it, is in the
\* kernel's half.
LEMMA BootedPages ==
    ASSUME NEW v \in Booted, v # Null
    PROVE  /\ v \in Pages /\ v >= FirstKernelPage /\ v < MAX_PAGES
           /\ \E f \in Image \cup {VgaBlock} : v = Kernel(f)
<1>1. PICK f \in Image \cup {VgaBlock} : v = Kernel(f)
  BY DEF Booted, PagesOf
<1>2. f \in Nat /\ f <= KernelStop
  BY <1>1, Layout DEF Image
<1> QED
  BY <1>1, <1>2, HigherHalf

\* What the boot directory makes of the image's addresses.
LEMMA BootTranslates ==
    ASSUME BigInv, paging, cr3 = BootDir, pc # "boot",
           NEW f \in Nat, f < KernelStop
    PROVE  Translate(f) = f /\ Translate(Kernel(f)) = f
<1>1. /\ DirOf(f) \in Nat /\ DirOf(f) * Entries + EntryOf(f) = f
      /\ DirOf(f) * Entries <= f
  BY Division
<1>2. /\ DirOf(Kernel(f)) = FirstKernelDir + DirOf(f)
      /\ EntryOf(Kernel(f)) = EntryOf(f) /\ f \in Pages
  BY HigherHalf, Layout
<1>3. \A v : Translate(v) = IF boot_dir[DirOf(v)] = None THEN None
                           ELSE boot_dir[DirOf(v)] * Entries + EntryOf(v)
  BY Layout DEF Translate
<1>4. DirOf(f) * Entries \in Nat /\ Entries \in Nat
  BY <1>1, BootAssumption
<1>5. DirOf(f) * Entries < KernelStop /\ Covers(DirOf(f))
  BY <1>1, <1>4, Layout DEF Covers
<1>6. boot_dir[DirOf(f)] = DirOf(f) /\ boot_dir[DirOf(Kernel(f))] = DirOf(f)
  BY <1>1, <1>2, <1>5 DEF BigInv
<1>7. DirOf(f) # None
  <2>1. DirOf(f) < FirstKernelDir
    BY <1>1, <1>5, BigPage
  <2>2. DirOf(f) <= DirOf(f) * Entries
    BY <1>1, BootAssumption
  <2> QED
    BY <2>2, <1>1, <1>4, <1>5, Layout DEF None
<1>8. /\ Translate(f) = DirOf(f) * Entries + EntryOf(f)
      /\ Translate(Kernel(f)) = DirOf(f) * Entries + EntryOf(f)
  BY <1>2, <1>3, <1>6, <1>7
<1> QED
  BY <1>1, <1>8

\* What the kernel's directory makes of them.
LEMMA KernelTranslates ==
    ASSUME paging, cr3 = PageDir,
           page_directory = [d \in 0..(Dirs - 1) |-> Table(d)],
           NEW v \in Pages
    PROVE  Translate(v) = IF FrameOf(page_table, v) = Null THEN None
                          ELSE FrameOf(page_table, v)
<1>1. DirOf(v) \in 0..(Dirs - 1)
  BY PageNumber
<1>2. page_directory[DirOf(v)] = Table(DirOf(v))
  BY <1>1
<1>3. /\ Table(DirOf(v)) \in FirstTable..Table(Dirs - 1)
      /\ Table(DirOf(v)) - FirstTable = DirOf(v)
      /\ Table(DirOf(v)) # None
  BY <1>1, TableFrames, Layout DEF None
<1>4. cr3 # BootDir
  BY Layout
<1> QED
  BY <1>2, <1>3, <1>4 DEF Translate, Walk, FrameOf

\* The sizes of memory do not change.
LEMMA SameMachine ==
    ASSUME memory' = memory
    PROVE  /\ TotalBlocks' = TotalBlocks /\ Marked' = Marked
           /\ Fit' = Fit
  BY DEF TotalBlocks, Marked, Fit

\* What mem.c marks is in its bitset.
LEMMA MarkedType ==
    ASSUME TypeInv
    PROVE  Marked \subseteq 0..(MAX_PAGES - 1)
  BY BlocksType, Layout DEF Marked, Null
-----------------------------------------------------------------------------
(* boot.c.                                                                 *)

\* The boot loader's state: nothing is mapped, marked or loaded.
LEMMA InitIInv == Init => IInv
<1> SUFFICES ASSUME Init PROVE IInv
  OBVIOUS
<1>1. TypeInv
  <2>1. page_table \in PageTables
    BY DEF Init, PageTables, Empty, Null
  <2>2. boot_dir \in [0..(Dirs - 1) -> Nat]
    BY Layout DEF Init, None
  <2> QED
    BY <2>1, <2>2 DEF Init, TypeInv, Labels
<1>2. CpuInv /\ BigInv
  <2>1. paging = FALSE /\ pc = "boot" /\ cr3 = Null /\ i = 0
    BY DEF Init
  <2>2. CpuInv
    BY <2>1 DEF CpuInv
  <2>3. BigInv
    BY <2>1 DEF BigInv
  <2> QED
    BY <2>2, <2>3
<1>3. MemoryInv /\ TablesInv /\ RunningInv
  BY DEF Init, MemoryInv, TablesInv, RunningInv, BeforeJump
<1> QED
  BY <1>1, <1>2, <1>3 DEF IInv

\* A 4 MB page more, at both its places, or all of them.
LEMMA BigStep == IInv /\ MapBig => IInv'
<1> SUFFICES ASSUME IInv, MapBig PROVE IInv'
  OBVIOUS
<1>1. /\ pc = "boot" /\ pc' \in {"boot", "load_cr3"} /\ i' \in Nat
      /\ i \in Nat /\ boot_dir \in [0..(Dirs - 1) -> Nat]
      /\ UNCHANGED <<memory, paging, cr3, bitset, tables, given>>
  BY DEF MapBig, IInv, TypeInv
<1>2. i * Entries \in Nat /\ KernelStop \in Nat /\ Entries \in Nat
  BY <1>1, BootAssumption
<1>3. boot_dir' \in [0..(Dirs - 1) -> Nat] /\ BigInv'
  <2>1. CASE Covers(i)
    <3>1. /\ boot_dir' = [boot_dir EXCEPT ![FirstKernelDir + i] = i, ![i] = i]
          /\ i' = i + 1 /\ pc' = "boot"
      BY <2>1, <1>1 DEF MapBig, Covers
    <3>2. /\ i < FirstKernelDir /\ i \in 0..(Dirs - 1)
          /\ FirstKernelDir + i \in 0..(Dirs - 1)
      <4>1. i \in Nat
        BY <1>1
      <4>2. i < FirstKernelDir /\ FirstKernelDir + i < Dirs
        BY <4>1, <2>1, BigPage
      <4> QED
        BY <4>1, <4>2, Layout
    <3>3. ASSUME NEW d \in Nat, Covers(d), d < i + 1
          PROVE  boot_dir'[d] = d /\ boot_dir'[FirstKernelDir + d] = d
      <4>1. /\ d < FirstKernelDir /\ d \in 0..(Dirs - 1)
            /\ FirstKernelDir + d \in 0..(Dirs - 1)
        BY <3>3, BigPage, Layout
      <4>2. d = i \/ (boot_dir[d] = d /\ boot_dir[FirstKernelDir + d] = d)
        <5>1. d = i \/ d < i
          BY <3>3, <1>1
        <5>2. BigInv /\ pc = "boot"
          BY <1>1 DEF IInv
        <5> QED
          BY <3>3, <5>1, <5>2 DEF BigInv
      <4>3. /\ boot_dir \in [0..(Dirs - 1) -> Nat]
            /\ boot_dir' = [boot_dir EXCEPT ![FirstKernelDir + i] = i, ![i] = i]
            /\ FirstKernelDir \in Nat /\ i \in Nat
        BY <1>1, <3>1, Layout
      <4> QED
        BY <4>1, <4>2, <4>3, <3>2
    <3> QED
      BY <3>1, <3>2, <3>3, <1>1 DEF BigInv
  <2>2. CASE ~Covers(i)
    <3>1. boot_dir' = boot_dir
      BY <2>2 DEF MapBig, Covers
    <3>2. ASSUME NEW d \in Nat, Covers(d)
          PROVE  d < i
      <4>1. d >= i => d * Entries >= i * Entries
        BY <1>1, <1>2
      <4>2. d * Entries \in Nat
        BY <1>2
      <4> QED
        BY <4>1, <4>2, <3>2, <2>2, <1>1, <1>2 DEF Covers
    <3> QED
      BY <3>1, <3>2, <1>1 DEF IInv, BigInv
  <2> QED
    BY <2>1, <2>2
<1>4. TypeInv'
  BY <1>1, <1>3 DEF IInv, TypeInv, Labels, tables
<1>5. CpuInv'
  BY <1>1 DEF IInv, CpuInv
<1>6. MemoryInv' /\ TablesInv' /\ RunningInv'
  BY <1>1 DEF IInv, MemoryInv, TablesInv, RunningInv, BeforeJump
<1> QED
  BY <1>3, <1>4, <1>5, <1>6 DEF IInv

\* The directory is loaded, paging enabled, the higher half entered.
LEMMA CpuStep == IInv /\ (LoadBootDir \/ EnablePaging \/ JumpHigh) => IInv'
<1> SUFFICES ASSUME IInv, LoadBootDir \/ EnablePaging \/ JumpHigh PROVE IInv'
  OBVIOUS
<1>1. /\ pc \in {"load_cr3", "enable", "jump"}
      /\ pc' = CASE pc = "load_cr3" -> "enable" [] pc = "enable" -> "jump"
                 [] pc = "jump" -> "memory"
      /\ UNCHANGED <<i, memory, boot_dir, bitset, tables, given>>
  BY DEF LoadBootDir, EnablePaging, JumpHigh
<1>2. TypeInv'
  BY <1>1 DEF IInv, TypeInv, Labels, tables
<1>3. CpuInv'
  BY <1>1 DEF IInv, CpuInv, LoadBootDir, EnablePaging, JumpHigh
<1>4. BigInv'
  BY <1>1 DEF IInv, BigInv
<1>5. MemoryInv' /\ TablesInv' /\ RunningInv'
  BY <1>1 DEF IInv, MemoryInv, TablesInv, RunningInv, BeforeJump
<1> QED
  BY <1>2, <1>3, <1>4, <1>5 DEF IInv
-----------------------------------------------------------------------------
(* physical_mem_init.                                                      *)

\* bitsset_init refuses machines with too much memory.
LEMMA BitsStep == IInv /\ InitBits => IInv'
<1> SUFFICES ASSUME IInv, InitBits PROVE IInv'
  OBVIOUS
<1>1. /\ pc = "memory" /\ pc' \in {"reserve", "panic"}
      /\ UNCHANGED <<i, memory, boot_dir, paging, cr3, tables, given>>
  BY DEF InitBits, InitUpTo
<1>2. /\ TotalBlocks \in Nat /\ bitset = {} /\ MAX_PAGES \in Nat
  BY <1>1, BlocksType, Layout DEF IInv, MemoryInv
<1>3. TotalBlocks' = TotalBlocks /\ Fit' = Fit
  BY <1>1, SameMachine
<1>4. /\ pc' = "reserve" => /\ TotalBlocks < MAX_PAGES
                            /\ bitset' = TotalBlocks..(MAX_PAGES - 1)
      /\ pc' = "panic" => ~Fit /\ bitset' = {}
  BY <1>1, <1>2 DEF InitBits, InitUpTo, Fit
<1>5. TypeInv'
  BY <1>1, <1>2, <1>4 DEF IInv, TypeInv, Labels, tables
<1>6. CpuInv' /\ BigInv'
  BY <1>1 DEF IInv, CpuInv, BigInv
<1>7. MemoryInv'
  BY <1>1, <1>3, <1>4 DEF MemoryInv, BeforeJump
<1>8. TablesInv' /\ RunningInv'
  BY <1>1 DEF TablesInv, RunningInv
<1> QED
  BY <1>5, <1>6, <1>7, <1>8 DEF IInv

\* physical_mem_init's assertions hold exactly where memory goes beyond the
\* image.
LEMMA ReserveStep == IInv /\ Reserve => IInv'
<1> SUFFICES ASSUME IInv, Reserve PROVE IInv'
  OBVIOUS
<1>1. /\ pc = "reserve" /\ pc' \in {"clear", "panic"}
      /\ UNCHANGED <<i, memory, boot_dir, paging, cr3, tables, given>>
  BY DEF Reserve
<1>2. /\ TotalBlocks \in Nat /\ TotalBlocks < MAX_PAGES
      /\ bitset' = Marked
  BY <1>1, BlocksType DEF IInv, MemoryInv, Reserve, Marked
<1>3. TotalBlocks' = TotalBlocks /\ Fit' = Fit /\ Marked' = Marked
  BY <1>1, SameMachine
<1>4. pc' = IF Fit THEN "clear" ELSE "panic"
  <2>1. KernelStart - 1 \notin Marked <=> KernelStart - 1 < TotalBlocks
    BY <1>2, Layout DEF Marked, Null
  <2>2. KernelStop + 1 \notin Marked <=> KernelStop + 1 < TotalBlocks
    BY <1>2, Layout DEF Marked, Null
  <2>3. pc' = IF {KernelStart - 1, KernelStop + 1} \cap Marked = {}
              THEN "clear" ELSE "panic"
    BY <1>2 DEF Reserve
  <2> QED
    BY <2>1, <2>2, <2>3, <1>2, Layout DEF Fit
<1>5. TypeInv'
  BY <1>1, <1>2, MarkedType DEF IInv, TypeInv, Labels, tables
<1>6. CpuInv' /\ BigInv'
  BY <1>1 DEF IInv, CpuInv, BigInv
<1>7. MemoryInv'
  BY <1>1, <1>2, <1>3, <1>4 DEF MemoryInv, BeforeJump
<1>8. TablesInv' /\ RunningInv'
  BY <1>1 DEF TablesInv, RunningInv
<1> QED
  BY <1>5, <1>6, <1>7, <1>8 DEF IInv
-----------------------------------------------------------------------------
(* paging_init.                                                            *)

\* The tables are cleared and entered in the directory.
LEMMA ClearStep == IInv /\ ClearTables => IInv'
<1> SUFFICES ASSUME IInv, ClearTables PROVE IInv'
  OBVIOUS
<1>1. /\ pc = "clear" /\ pc' = "map" /\ i' = KernelStart
      /\ page_directory' = [d \in 0..(Dirs - 1) |-> Table(d)]
      /\ page_table' = [d \in 0..(Dirs - 1) |-> Empty]
      /\ virtual_bitset' = {}
      /\ UNCHANGED <<memory, boot_dir, paging, cr3, bitset, given>>
  BY DEF ClearTables
<1>2. Marked' = Marked /\ Fit' = Fit
  BY <1>1, SameMachine
<1>3. page_table' \in PageTables
  BY <1>1 DEF PageTables, Empty, Null
<1>4. TypeInv'
  BY <1>1, <1>3, Layout DEF IInv, TypeInv, Labels
<1>5. CpuInv' /\ BigInv'
  BY <1>1 DEF IInv, CpuInv, BigInv
<1>6. MemoryInv'
  BY <1>1, <1>2 DEF IInv, MemoryInv, BeforeJump
<1>7. MappedInv'
  <2>1. ASSUME NEW v \in Pages
        PROVE  FrameOf(page_table', v) = Null
    <3>1. DirOf(v) \in 0..(Dirs - 1) /\ EntryOf(v) \in 0..(Entries - 1)
      BY PageNumber
    <3> QED
      BY <3>1, <1>1 DEF FrameOf, Empty
  <2>2. virtual_bitset' \ {Null} = {}
    BY <1>1
  <2> QED
    BY <2>1, <2>2 DEF MappedInv, Pages, FrameOf
<1>8. TablesInv'
  <2>1. PagesOf(KernelStart..(KernelStart - 1)) = {}
    BY Layout DEF PagesOf
  <2> QED
    BY <2>1, <1>1, <1>7, Layout DEF TablesInv
<1>9. RunningInv'
  BY <1>1 DEF RunningInv
<1> QED
  BY <1>4, <1>5, <1>6, <1>7, <1>8, <1>9 DEF IInv

\* A page of the kernel's half more, or less, in the table and in the bitset.
LEMMA MappedStep ==
    ASSUME page_table \in PageTables, MappedInv,
           NEW f \in Nat, f <= KernelStop, NEW g \in {f, Null},
           page_table' = Mapped(page_table, Kernel(f), g),
           virtual_bitset' \ {Null} =
              IF g = Null THEN virtual_bitset \ {Null, Kernel(f)}
              ELSE (virtual_bitset \ {Null}) \cup {Kernel(f)}
    PROVE  page_table' \in PageTables /\ MappedInv'
<1>1. /\ Kernel(f) \in Pages /\ Kernel(f) \in Nat /\ g \in Nat
      /\ Kernel(f) - FirstKernelPage = f /\ Kernel(f) # Null
  <2>1. Kernel(f) \in Pages
    BY HigherHalf
  <2>2. g \in Nat
    BY DEF Null
  <2>3. /\ Kernel(f) \in Nat /\ Kernel(f) - FirstKernelPage = f
        /\ Kernel(f) # Null
    BY Layout DEF Kernel, Null
  <2> QED
    BY <2>1, <2>2, <2>3
<1>2. page_table' \in PageTables
  BY <1>1, MapsOne
<1>3. ASSUME NEW v \in Pages
      PROVE  FrameOf(page_table', v) = IF v \in virtual_bitset' \ {Null}
                                       THEN v - FirstKernelPage ELSE Null
  <2>1. CASE v = Kernel(f)
    <3>1. FrameOf(page_table', v) = g
      BY <1>1, <2>1, MapsOne
    <3> QED
      BY <3>1, <2>1, <1>1
  <2>2. CASE v # Kernel(f)
    <3>1. FrameOf(page_table', v) = FrameOf(page_table, v)
      BY <1>1, <2>2, MapsOne
    <3>2. v \in virtual_bitset' \ {Null} <=> v \in virtual_bitset \ {Null}
      BY <2>2
    <3> QED
      BY <3>1, <3>2 DEF MappedInv, Pages
  <2> QED
    BY <2>1, <2>2
<1> QED
  BY <1>2, <1>3 DEF MappedInv, Pages, FrameOf

\* A frame of the image is mapped, or all of them are: none was before.
LEMMA ImageStep == IInv /\ MapImage => IInv'
<1> SUFFICES ASSUME IInv, MapImage PROVE IInv'
  OBVIOUS
<1>1. /\ pc = "map"
      /\ UNCHANGED <<memory, boot_dir, paging, cr3, bitset, page_directory,
                     given>>
  BY DEF MapImage
<1>2. /\ page_directory = [d \in 0..(Dirs - 1) |-> Table(d)]
      /\ MappedInv /\ page_table \in PageTables
      /\ KernelStart <= i /\ i <= KernelStop /\ i \in Nat
      /\ virtual_bitset = PagesOf(KernelStart..(i - 1))
  BY <1>1 DEF IInv, TypeInv, TablesInv
<1>3. Marked' = Marked /\ Fit' = Fit
  BY <1>1, SameMachine
<1>4. /\ pc' \in {"map", "map_vga"} /\ i' \in Nat
      /\ page_table' \in PageTables /\ TablesInv'
  <2>1. CASE i < KernelStop
    <3>1. \A v \in virtual_bitset : v # Kernel(i)
      BY <1>2, Layout DEF PagesOf, Kernel
    <3>2. /\ pc' = "map" /\ i' = i + 1
          /\ page_table' = Mapped(page_table, Kernel(i), i)
          /\ virtual_bitset' = virtual_bitset \cup {Kernel(i)}
      BY <3>1, <2>1, <1>1 DEF MapImage
    <3>3. Kernel(i) # Null /\ i # Null
      BY <1>2, Layout DEF Kernel, Null
    <3>4. virtual_bitset' \ {Null} = (virtual_bitset \ {Null}) \cup {Kernel(i)}
      BY <3>2, <3>3
    <3>5. page_table' \in PageTables /\ MappedInv'
      BY <3>2, <3>3, <3>4, <1>2, MappedStep
    <3>6. virtual_bitset' = PagesOf(KernelStart..(i' - 1))
      <4>1. KernelStart..(i' - 1) = (KernelStart..(i - 1)) \cup {i}
        <5>1. i' - 1 = i /\ i \in Nat /\ KernelStart <= i /\ KernelStart \in Nat
          BY <3>2, <1>2, Layout
        <5> QED
          BY <5>1
      <4> QED
        BY <4>1, <3>2, <1>2 DEF PagesOf
    <3> QED
      BY <3>2, <3>5, <3>6, <2>1, <1>1, <1>2, Layout DEF TablesInv
  <2>2. CASE ~(i < KernelStop)
    <3>1. /\ pc' = "map_vga" /\ i' = 0
          /\ UNCHANGED <<page_table, virtual_bitset>>
      BY <2>2 DEF MapImage
    <3>2. virtual_bitset' = PagesOf(Image)
      <4>1. i = KernelStop
        BY <2>2, <1>2, Layout
      <4> QED
        BY <4>1, <3>1, <1>2 DEF Image
    <3>3. MappedInv'
      BY <3>1, <1>2 DEF MappedInv
    <3> QED
      BY <3>1, <3>2, <3>3, <1>1, <1>2 DEF TablesInv
  <2> QED
    BY <2>1, <2>2
<1>5. TypeInv'
  BY <1>1, <1>4 DEF IInv, TypeInv, Labels
<1>6. CpuInv' /\ BigInv'
  BY <1>1, <1>4 DEF IInv, CpuInv, BigInv
<1>7. MemoryInv'
  BY <1>1, <1>3, <1>4 DEF IInv, MemoryInv, BeforeJump
<1>8. RunningInv'
  BY <1>4 DEF RunningInv
<1> QED
  BY <1>4, <1>5, <1>6, <1>7, <1>8 DEF IInv

\* The screen's page is mapped and the null page taken.
LEMMA VgaStep == IInv /\ MapVga => IInv'
<1> SUFFICES ASSUME IInv, MapVga PROVE IInv'
  OBVIOUS
<1>1. /\ pc = "map_vga" /\ pc' = "recover"
      /\ page_table' = Mapped(page_table, Kernel(VgaBlock), VgaBlock)
      /\ virtual_bitset' = virtual_bitset \cup {Null, Kernel(VgaBlock)}
      /\ UNCHANGED <<i, memory, boot_dir, paging, cr3, bitset,
                     page_directory, given>>
  BY DEF MapVga
<1>2. /\ page_directory = [d \in 0..(Dirs - 1) |-> Table(d)]
      /\ MappedInv /\ page_table \in PageTables
      /\ virtual_bitset = PagesOf(Image) /\ i = 0
  BY <1>1 DEF IInv, TypeInv, TablesInv
<1>3. Marked' = Marked /\ Fit' = Fit
  BY <1>1, SameMachine
<1>4. page_table' \in PageTables /\ MappedInv'
  <2>1. /\ VgaBlock \in Nat /\ VgaBlock <= KernelStop /\ VgaBlock # Null
        /\ Kernel(VgaBlock) # Null
    BY Layout DEF Null, Kernel
  <2>2. virtual_bitset' \ {Null} =
          (virtual_bitset \ {Null}) \cup {Kernel(VgaBlock)}
    BY <2>1, <1>1
  <2> QED
    BY <2>1, <2>2, <1>1, <1>2, MappedStep
<1>5. TablesTo(0) = {} /\ PagesOf({}) = {}
  BY DEF TablesTo, PagesOf
<1>6. TablesInv'
  <2>1. virtual_bitset' = Booted
    BY <1>1, <1>2 DEF Booted, PagesOf
  <2> QED
    BY <2>1, <1>1, <1>2, <1>4, <1>5 DEF TablesInv
<1>7. TypeInv'
  BY <1>1, <1>4 DEF IInv, TypeInv, Labels
<1>8. CpuInv' /\ BigInv'
  BY <1>1 DEF IInv, CpuInv, BigInv
<1>9. MemoryInv'
  <2>1. 0 <= FirstKernelDir
    BY Layout
  <2> QED
    BY <2>1, <1>1, <1>2, <1>3, <1>5 DEF IInv, MemoryInv, BeforeJump
<1>10. RunningInv'
  BY <1>1 DEF RunningInv
<1> QED
  BY <1>6, <1>7, <1>8, <1>9, <1>10 DEF IInv

\* One table of the lower half more.
LEMMA OneTableMore ==
    ASSUME NEW n \in 0..(Dirs - 1)
    PROVE  /\ TablesTo(n + 1) = TablesTo(n) \cup {Table(n)}
           /\ Table(n) \notin TablesTo(n)
           /\ PagesOf(TablesTo(n + 1)) = PagesOf(TablesTo(n)) \cup {Kernel(Table(n))}
           /\ Kernel(Table(n)) \notin PagesOf(TablesTo(n))
<1>1. 0..((n + 1) - 1) = (0..(n - 1)) \cup {n}
  BY Layout
<1>2. TablesTo(n + 1) = TablesTo(n) \cup {Table(n)}
  BY <1>1 DEF TablesTo
<1>3. Table(n) \notin TablesTo(n)
  BY Layout DEF TablesTo, Table
<1>4. Kernel(Table(n)) \notin PagesOf(TablesTo(n))
  BY Layout DEF TablesTo, Table, PagesOf, Kernel
<1> QED
  BY <1>2, <1>3, <1>4 DEF PagesOf

\* A table of the lower half is given back: it is found through its own page,
\* no entry is lost, and page_free's assertions hold.
LEMMA TableGivenBack ==
    ASSUME IInv, pc = "recover", i <= FirstKernelDir - 1, Recover
    PROVE  /\ pc' = "recover" /\ i' = i + 1
           /\ bitset' = bitset \ {Table(i)}
           /\ page_table' = Mapped(page_table, Kernel(Table(i)), Null)
           /\ virtual_bitset' = virtual_bitset \ {Kernel(Table(i))}
<1>1. /\ i \in Nat /\ i \in 0..(Dirs - 1) /\ i \in 0..(FirstKernelDir - 1)
      /\ MappedInv /\ page_table \in PageTables
      /\ virtual_bitset = Booted \ PagesOf(TablesTo(i))
      /\ bitset = Marked \ TablesTo(i)
  BY Layout DEF IInv, TypeInv, TablesInv, MemoryInv
<1> DEFINE f == Table(i)
<1>2. /\ f \in Nat \ {Null} /\ f \in FirstTable..Table(Dirs - 1)
      /\ KernelStart < f /\ f < KernelStop /\ f \in Image
      /\ f - FirstTable = i
  BY <1>1, TableFrames
<1>3. f \notin TablesTo(i) /\ Kernel(f) \notin PagesOf(TablesTo(i))
  BY <1>1, OneTableMore
<1> HIDE DEF f
<1>4. Kernel(f) \in virtual_bitset
  BY <1>1, <1>2, <1>3 DEF Booted, PagesOf
<1>5. f \in bitset
  BY <1>1, <1>2, <1>3, Layout DEF Marked
<1>6. Translate(Kernel(f)) = f
  <2>1. BigInv /\ paging /\ cr3 = BootDir
    BY DEF IInv, CpuInv
  <2> QED
    BY <2>1, <1>2, BootTranslates
<1>7. Overwritten(page_table, f, Empty) = page_table
  <2>1. page_table[i] = Empty
    <3>1. \A v \in virtual_bitset : v # Null => v >= FirstKernelPage
      BY <1>1, BootedPages
    <3> QED
      BY <3>1, <1>1, LowerEmpty
  <2>2. Overwritten(page_table, f, Empty) = [page_table EXCEPT ![i] = Empty]
    BY <1>2 DEF Overwritten
  <2> QED
    BY <2>1, <2>2, <1>1 DEF PageTables
<1>8. page_table[DirOf(Kernel(f))][EntryOf(Kernel(f))] = f
  <2>1. /\ Kernel(f) \in Pages /\ Kernel(f) # Null
        /\ Kernel(f) - FirstKernelPage = f
    BY <1>2, HigherHalf, Layout DEF Kernel, Null
  <2> QED
    BY <2>1, <1>1, <1>4 DEF MappedInv, FrameOf, Pages
<1>9. i <= FirstKernelDir - 1 /\ PageFree(Kernel(f)) /\ i' = i + 1
  BY DEF Recover, RecoverUpTo, f
<1> QED
  BY <1>2, <1>4, <1>5, <1>6, <1>7, <1>8, <1>9 DEF PageFree, f

\* recover_page_tables: a table, or the end with both its assertions.
LEMMA RecoverStep == IInv /\ Recover => IInv'
<1> SUFFICES ASSUME IInv, Recover PROVE IInv'
  OBVIOUS
<1>1. /\ pc = "recover"
      /\ UNCHANGED <<memory, boot_dir, paging, cr3, page_directory, given>>
  BY DEF Recover, RecoverUpTo
<1>2. /\ page_directory = [d \in 0..(Dirs - 1) |-> Table(d)]
      /\ MappedInv /\ page_table \in PageTables
      /\ virtual_bitset = Booted \ PagesOf(TablesTo(i))
      /\ bitset = Marked \ TablesTo(i)
      /\ i \in Nat /\ i <= FirstKernelDir /\ Fit
  BY <1>1 DEF IInv, TypeInv, TablesInv, MemoryInv
<1>3. Marked' = Marked /\ Fit' = Fit
  BY <1>1, SameMachine
<1>4. /\ pc' \in {"recover", "switch"} /\ i' \in Nat
      /\ page_table' \in PageTables /\ MappedInv'
      /\ bitset' \subseteq bitset
      /\ pc' = "recover" =>
           /\ i' <= FirstKernelDir /\ bitset' = Marked \ TablesTo(i')
           /\ virtual_bitset' = Booted \ PagesOf(TablesTo(i'))
      /\ pc' = "switch" =>
           /\ bitset' = Marked \ TablesTo(FirstKernelDir)
           /\ virtual_bitset' = Booted \ PagesOf(TablesTo(FirstKernelDir))
  <2>1. CASE i <= FirstKernelDir - 1
    <3>1. /\ pc' = "recover" /\ i' = i + 1
          /\ bitset' = bitset \ {Table(i)}
          /\ page_table' = Mapped(page_table, Kernel(Table(i)), Null)
          /\ virtual_bitset' = virtual_bitset \ {Kernel(Table(i))}
      BY <2>1, <1>1, TableGivenBack
    <3>2. /\ i \in 0..(Dirs - 1) /\ i' \in Nat /\ i' <= FirstKernelDir
      BY <3>1, <2>1, <1>2, Layout
    <3>3. /\ Table(i) \in Nat /\ Table(i) <= KernelStop
      BY <3>2, TableFrames, Layout
    <3>4. page_table' \in PageTables /\ MappedInv'
      <4>1. virtual_bitset' \ {Null} =
              virtual_bitset \ {Null, Kernel(Table(i))}
        BY <3>1
      <4> QED
        BY <4>1, <3>1, <3>3, <1>2, MappedStep
    <3>5. /\ bitset' = Marked \ TablesTo(i')
          /\ virtual_bitset' = Booted \ PagesOf(TablesTo(i'))
      BY <3>1, <3>2, <1>2, OneTableMore
    <3> QED
      BY <3>1, <3>2, <3>4, <3>5
  <2>2. CASE ~(i <= FirstKernelDir - 1)
    <3>1. i = FirstKernelDir
      BY <2>2, <1>2, Layout
    <3>2. /\ i' = 0 /\ UNCHANGED <<bitset, virtual_bitset, page_table>>
          /\ pc' = IF {Kernel(KernelStart), Kernel(KernelStop - 1)}
                        \subseteq virtual_bitset THEN "switch" ELSE "panic"
      BY <2>2 DEF Recover, RecoverUpTo
    <3>3. {Kernel(KernelStart), Kernel(KernelStop - 1)} \subseteq virtual_bitset
      <4>1. KernelStart \in Image /\ KernelStop - 1 \in Image
        BY Layout DEF Image
      <4>2. \A f \in TablesTo(i) : f # KernelStart /\ f # KernelStop - 1
        BY <3>1, Layout DEF TablesTo, Table
      <4>3. \A f \in TablesTo(i) : f \in Nat
        BY <3>1, Layout DEF TablesTo, Table
      <4>4. \A v \in PagesOf(TablesTo(i)) :
              v # Kernel(KernelStart) /\ v # Kernel(KernelStop - 1)
        BY <4>2, <4>3, Layout DEF PagesOf, Kernel
      <4> QED
        BY <4>1, <4>4, <1>2 DEF Booted, PagesOf
    <3>4. MappedInv'
      BY <3>2, <1>2 DEF MappedInv
    <3> QED
      BY <3>1, <3>2, <3>3, <3>4, <1>2
  <2> QED
    BY <2>1, <2>2
<1>5. TypeInv'
  BY <1>1, <1>4 DEF IInv, TypeInv, Labels
<1>6. CpuInv' /\ BigInv'
  BY <1>1, <1>4 DEF IInv, CpuInv, BigInv
<1>7. MemoryInv'
  BY <1>1, <1>2, <1>3, <1>4 DEF MemoryInv, BeforeJump
<1>8. TablesInv'
  BY <1>1, <1>2, <1>4 DEF TablesInv
<1>9. RunningInv'
  BY <1>4 DEF RunningInv
<1> QED
  BY <1>4, <1>5, <1>6, <1>7, <1>8, <1>9 DEF IInv

\* What a loaded directory needs: frames that stay marked, at pages that stay
\* mapped.
LEMMA NeededFrames ==
    ASSUME NEW f \in (Image \ LowerTables) \cup {VgaBlock}
    PROVE  /\ f \in Nat \ {Null} /\ f < KernelStop /\ f \in Image \cup {VgaBlock}
           /\ f \in Marked \ TablesTo(FirstKernelDir)
           /\ Kernel(f) \in Booted \ PagesOf(TablesTo(FirstKernelDir))
           /\ Kernel(f) \in Pages /\ Kernel(f) # Null
           /\ Kernel(f) - FirstKernelPage = f
<1>1. /\ f \in Nat \ {Null} /\ f < KernelStop /\ f \in Image \cup {VgaBlock}
      /\ f \in Marked
  BY Layout DEF Image, Null, Marked
<1>2. f \notin TablesTo(FirstKernelDir)
  <2>1. \A d \in 0..(FirstKernelDir - 1) : Table(d) # VgaBlock
    BY Layout DEF Table
  <2> QED
    BY <2>1 DEF LowerTables, TablesTo
<1>3. \A g \in TablesTo(FirstKernelDir) : g \in Nat
  BY Layout DEF TablesTo, Table
<1>4. Kernel(f) \notin PagesOf(TablesTo(FirstKernelDir))
  BY <1>1, <1>2, <1>3, Layout DEF PagesOf, Kernel
<1>5. Kernel(f) \in Booted
  BY <1>1 DEF Booted, PagesOf
<1>6. Kernel(f) \in Pages /\ Kernel(f) # Null /\ Kernel(f) - FirstKernelPage = f
  BY <1>1, HigherHalf, Layout DEF Kernel, Null
<1> QED
  BY <1>1, <1>2, <1>4, <1>5, <1>6

\* The kernel's own directory maps the same, the lower half excepted.
LEMMA SwitchStep == IInv /\ SwitchDir => IInv'
<1> SUFFICES ASSUME IInv, SwitchDir PROVE IInv'
  OBVIOUS
<1>1. /\ pc = "switch" /\ pc' = "running" /\ cr3' = PageDir
      /\ UNCHANGED <<i, memory, boot_dir, paging, bitset, given>>
      /\ UNCHANGED <<virtual_bitset, page_directory, page_table>>
  BY DEF SwitchDir, tables
<1>2. /\ page_directory = [d \in 0..(Dirs - 1) |-> Table(d)]
      /\ MappedInv /\ page_table \in PageTables
      /\ virtual_bitset = Booted \ PagesOf(TablesTo(FirstKernelDir))
      /\ bitset = Marked \ TablesTo(FirstKernelDir)
      /\ given = {} /\ Fit
  BY <1>1 DEF IInv, TypeInv, TablesInv, MemoryInv
<1>3. Marked' = Marked /\ Fit' = Fit
  BY <1>1, SameMachine
<1>4. TypeInv'
  BY <1>1 DEF IInv, TypeInv, Labels
<1>5. CpuInv' /\ BigInv'
  BY <1>1 DEF IInv, CpuInv, BigInv
<1>6. MemoryInv'
  BY <1>1, <1>2, <1>3 DEF MemoryInv, BeforeJump
<1>7. MappedInv'
  BY <1>1, <1>2 DEF MappedInv
<1>8. TablesInv'
  BY <1>1, <1>2 DEF TablesInv
<1>9. RunningInv'
  <2>1. ASSUME NEW f \in Needed'
        PROVE  FrameOf(page_table', Kernel(f)) = f
    <3>1. f \in (Image \ LowerTables) \cup {VgaBlock}
      BY <1>1 DEF Needed, Recovering
    <3>2. FrameOf(page_table, Kernel(f)) = f
      BY <3>1, <1>2, NeededFrames DEF MappedInv, Pages
    <3> QED
      BY <3>2, <1>1 DEF FrameOf
  <2>2. ASSUME NEW d \in 0..(FirstKernelDir - 1)
        PROVE  page_table'[d] = Empty
    <3>1. \A v \in virtual_bitset : v # Null => v >= FirstKernelPage
      BY <1>2, BootedPages
    <3> QED
      BY <3>1, <1>1, <1>2, LowerEmpty
  <2> QED
    BY <2>1, <2>2, <1>1, <1>2, <1>7 DEF RunningInv
<1> QED
  BY <1>4, <1>5, <1>6, <1>7, <1>8, <1>9 DEF IInv
-----------------------------------------------------------------------------
(* The running kernel.                                                     *)

\* Of the frames or pages of a set, if it has any, one is the lowest.
LEMMA LeastOfNats ==
    ASSUME NEW S, S \subseteq Nat, S # {}
    PROVE  \E m \in S : \A n \in S : m <= n
<1> DEFINE R == OpToRel(<, Nat)
<1>1. IsWellFoundedOn(R, Nat)
  BY NatLessThanWellFounded, Zenon
<1>2. PICK m \in S : \A n \in S : ~(<<n, m>> \in R)
  BY <1>1, WFMin, Zenon
<1>3. \A n \in S : ~(n < m)
  BY <1>2 DEF OpToRel
<1> QED
  BY <1>3

\* mem.c finds the lowest of the frames, and paging.c of the pages.
LEMMA LowestIsMember ==
    ASSUME NEW S, S \subseteq Nat, S # {}
    PROVE  LowestIn(S) \in S
<1>1. \E x \in S : \A y \in S : x <= y
  BY LeastOfNats
<1> QED
  BY <1>1 DEF LowestIn

\* An owner writes to a table's frame only if it was one of the lower half's.
LEMMA OverwritesLower ==
    ASSUME NEW t \in PageTables, NEW f \in Nat, NEW c \in [0..(Entries - 1) -> Nat],
           \A d \in FirstKernelDir..(Dirs - 1) : f # Table(d)
    PROVE  /\ Overwritten(t, f, c) \in PageTables
           /\ \A d \in 0..(Dirs - 1) :
                d >= FirstKernelDir \/ f # Table(d) =>
                    Overwritten(t, f, c)[d] = t[d]
<1>1. CASE f \in FirstTable..Table(Dirs - 1)
  <2>0. /\ FirstTable \in Nat /\ Dirs \in Nat /\ FirstKernelDir \in Nat
        /\ FirstKernelDir < Dirs
    BY Layout
  <2>1. /\ f - FirstTable \in 0..(Dirs - 1) /\ f = Table(f - FirstTable)
    BY <1>1, <2>0 DEF Table
  <2>2. Overwritten(t, f, c) = [t EXCEPT ![f - FirstTable] = c]
    BY <1>1 DEF Overwritten
  <2>3. f - FirstTable < FirstKernelDir
    <3>1. f - FirstTable \notin FirstKernelDir..(Dirs - 1)
      BY <2>1
    <3> QED
      BY <3>1, <2>0, <2>1
  <2>4. \A d \in 0..(Dirs - 1) :
          d >= FirstKernelDir \/ f # Table(d) => d # f - FirstTable
    BY <2>0, <2>1, <2>3
  <2> QED
    BY <2>1, <2>2, <2>4 DEF PageTables
<1>2. CASE f \notin FirstTable..Table(Dirs - 1)
  BY <1>2 DEF Overwritten
<1> QED
  BY <1>1, <1>2

\* An allocation takes nothing the kernel needs, and writes to no table in use.
LEMMA AllocateStep ==
    ASSUME IInv, NEW c \in Contents, Allocate(c)
    PROVE  IInv'
<1> DEFINE f == LowestIn(FreeFrames)
           v == LowestIn(FreePages)
<1>1. /\ pc = "running"
      /\ FreeFrames # {} /\ FreePages # {}
      /\ bitset' = bitset \cup {f}
      /\ virtual_bitset' = virtual_bitset \cup {v}
      /\ page_table' = Overwritten(Mapped(page_table, v, f), f, c)
      /\ given' = given \cup {f}
      /\ UNCHANGED <<pc, i, memory, boot_dir, paging, cr3, page_directory>>
  BY DEF Allocate
<1>2. /\ page_directory = [d \in 0..(Dirs - 1) |-> Table(d)]
      /\ page_table \in PageTables
      /\ bitset = (Marked \ TablesTo(FirstKernelDir)) \cup given
      /\ given \cap (Marked \ TablesTo(FirstKernelDir)) = {}
      /\ Booted \ PagesOf(TablesTo(FirstKernelDir)) \subseteq virtual_bitset
      /\ \A g \in Needed : FrameOf(page_table, Kernel(g)) = g
      /\ \A d \in 0..(FirstKernelDir - 1) :
             Table(d) \notin given => page_table[d] = Empty
      /\ Fit
  BY <1>1 DEF IInv, TypeInv, TablesInv, MemoryInv, RunningInv
<1>3. /\ f \in FreeFrames /\ f \in Nat /\ f \notin bitset
      /\ f \in 0..(MAX_PAGES - 1)
  <2>1. FreeFrames \subseteq Nat
    BY Layout DEF FreeFrames
  <2>2. f \in FreeFrames
    BY <2>1, <1>1, LowestIsMember
  <2> QED
    BY <2>1, <2>2 DEF FreeFrames
<1>4. /\ v \notin virtual_bitset /\ v \in Pages /\ v >= FirstKernelPage
  <2>1. FreePages \subseteq Nat
    BY Layout DEF FreePages
  <2>2. v \in FreePages
    BY <2>1, <1>1, LowestIsMember
  <2> QED
    BY <2>1, <2>2, Layout DEF FreePages, Pages
<1> HIDE DEF f, v
<1>5. c \in [0..(Entries - 1) -> Nat]
  <2>1. {BootDir, KernelStart} \subseteq Nat
    BY Layout
  <2> QED
    BY <2>1 DEF Contents, Empty, Null
<1>6. \A d \in FirstKernelDir..(Dirs - 1) : f # Table(d)
  <2> TAKE d \in FirstKernelDir..(Dirs - 1)
  <2>1. Table(d) \in Image
    BY TableFrames, Layout
  <2>2. Table(d) \notin LowerTables
    BY Layout DEF LowerTables, Table
  <2>3. Table(d) \in bitset
    BY <2>1, <2>2, <1>2, NeededFrames
  <2> QED
    BY <2>3, <1>3
<1> DEFINE t == Mapped(page_table, v, f)
<1>7. /\ t \in PageTables
      /\ \A w \in Pages : w # v => FrameOf(t, w) = FrameOf(page_table, w)
      /\ \A d \in 0..(Dirs - 1) : d # DirOf(v) => t[d] = page_table[d]
  BY <1>2, <1>3, <1>4, MapsOne
<1>8. DirOf(v) \in 0..(Dirs - 1) /\ DirOf(v) >= FirstKernelDir
  BY <1>4, PageNumber, Layout
<1>9. page_table' = Overwritten(t, f, c)
  BY <1>1
<1> HIDE DEF t
<1>10. /\ page_table' \in PageTables
       /\ \A d \in 0..(Dirs - 1) :
            d >= FirstKernelDir \/ f # Table(d) => page_table'[d] = t[d]
  BY <1>3, <1>5, <1>6, <1>7, <1>9, OverwritesLower
<1>11. Marked' = Marked /\ Fit' = Fit
  BY <1>1, SameMachine
<1>12. TypeInv'
  BY <1>1, <1>3, <1>10 DEF IInv, TypeInv
<1>13. CpuInv' /\ BigInv'
  BY <1>1 DEF IInv, CpuInv, BigInv
<1>14. MemoryInv'
  BY <1>1, <1>2, <1>3, <1>11 DEF MemoryInv, BeforeJump
<1>15. TablesInv'
  BY <1>1, <1>2 DEF TablesInv
<1>16. RunningInv'
  <2>1. ASSUME NEW g \in Needed'
        PROVE  FrameOf(page_table', Kernel(g)) = g
    <3>1. /\ g \in Needed
          /\ g \in (Image \ LowerTables) \cup {VgaBlock}
      BY <1>1 DEF Needed, Recovering
    <3>2. /\ Kernel(g) \in Pages /\ g \in Nat /\ g <= KernelStop
          /\ Kernel(g) \in virtual_bitset
      BY <3>1, <1>2, NeededFrames, Layout
    <3>3. FrameOf(t, Kernel(g)) = g
      BY <3>1, <3>2, <1>2, <1>4, <1>7
    <3>4. /\ DirOf(Kernel(g)) \in 0..(Dirs - 1)
          /\ DirOf(Kernel(g)) >= FirstKernelDir
      BY <3>2, HigherHalf, PageNumber, Layout
    <3> QED
      BY <3>3, <3>4, <1>10 DEF FrameOf
  <2>2. ASSUME NEW d \in 0..(FirstKernelDir - 1), Table(d) \notin given'
        PROVE  page_table'[d] = Empty
    <3>1. d \in 0..(Dirs - 1) /\ d < FirstKernelDir /\ d # DirOf(v)
      BY <1>8, Layout
    <3>2. f # Table(d) /\ Table(d) \notin given
      BY <2>2, <1>1
    <3> QED
      BY <3>1, <3>2, <1>2, <1>7, <1>10
  <2>3. given' # {}
    BY <1>1
  <2> QED
    BY <2>1, <2>2, <2>3, <1>1, <1>2 DEF RunningInv
<1> QED
  BY <1>12, <1>13, <1>14, <1>15, <1>16 DEF IInv

\* Nothing changes while nothing happens.
LEMMA StutterStep == IInv /\ UNCHANGED vars => IInv'
<1> SUFFICES ASSUME IInv, UNCHANGED vars PROVE IInv'
  OBVIOUS
<1>1. /\ UNCHANGED <<pc, i, memory, boot_dir, paging, cr3, bitset, given>>
      /\ UNCHANGED <<virtual_bitset, page_directory, page_table>>
  BY DEF vars, tables
<1>2. Marked' = Marked /\ Fit' = Fit /\ TotalBlocks' = TotalBlocks
  BY <1>1, SameMachine
<1>3. TypeInv' /\ CpuInv' /\ BigInv'
  BY <1>1 DEF IInv, TypeInv, CpuInv, BigInv
<1>4. MemoryInv'
  BY <1>1, <1>2 DEF IInv, MemoryInv, BeforeJump
<1>5. MappedInv' = MappedInv
  BY <1>1 DEF MappedInv
<1>6. TablesInv'
  BY <1>1, <1>5 DEF IInv, TablesInv
<1>7. Needed' = Needed
  BY <1>1 DEF Needed, Recovering
<1>8. RunningInv'
  BY <1>1, <1>5, <1>7 DEF IInv, RunningInv
<1> QED
  BY <1>3, <1>4, <1>6, <1>8 DEF IInv
-----------------------------------------------------------------------------
(* The invariant and what follows from it.                                 *)

\* Every step of every run preserves the invariant.
THEOREM Inductive == Spec => []IInv
<1>1. IInv /\ [Next]_vars => IInv'
  <2> SUFFICES ASSUME IInv, [Next]_vars PROVE IInv'
    OBVIOUS
  <2>1. CASE MapBig
    BY <2>1, BigStep
  <2>2. CASE LoadBootDir \/ EnablePaging \/ JumpHigh
    BY <2>2, CpuStep
  <2>3. CASE InitBits
    BY <2>3, BitsStep
  <2>4. CASE Reserve
    BY <2>4, ReserveStep
  <2>5. CASE ClearTables
    BY <2>5, ClearStep
  <2>6. CASE MapImage
    BY <2>6, ImageStep
  <2>7. CASE MapVga
    BY <2>7, VgaStep
  <2>8. CASE Recover
    BY <2>8, RecoverStep
  <2>9. CASE SwitchDir
    BY <2>9, SwitchStep
  <2>10. CASE \E c \in Contents : Allocate(c)
    BY <2>10, AllocateStep
  <2>11. CASE UNCHANGED vars
    BY <2>11, StutterStep
  <2> QED
    BY <2>1, <2>2, <2>3, <2>4, <2>5, <2>6, <2>7, <2>8, <2>9, <2>10, <2>11
    DEF Next, BootStep
<1> QED
  BY InitIInv, <1>1, PTL DEF Spec

\* Only a machine mem.c cannot be initialised for is refused, and no other is
\* booted: the safety half of BootsIffFit.
THEOREM OnlyTheUnfitAreRefused ==
    Spec => []((pc = "panic" => ~Fit) /\ (pc = "running" => Fit))
<1>1. IInv => (pc = "panic" => ~Fit) /\ (pc = "running" => Fit)
  BY DEF IInv, MemoryInv
<1> QED
  BY <1>1, Inductive, PTL

\* The kernel's frames are at their addresses at every step from _start2 on,
\* whatever is written to the frames of recovered tables, and none of them is
\* handed out.
THEOREM ImageStaysMapped == Spec => []KernelStaysMapped
<1>1. IInv => KernelStaysMapped
  <2> SUFFICES ASSUME IInv PROVE KernelStaysMapped
    OBVIOUS
  <2> USE DEF IInv
  <2>1. ASSUME BeforeJump, NEW f \in BootFrames
        PROVE  Translate(f) = f
    <3>1. f \in Nat /\ f < KernelStop
      BY Layout DEF BootFrames
    <3>2. CASE pc = "jump"
      <4>1. BigInv /\ paging /\ cr3 = BootDir /\ pc # "boot"
        BY <3>2 DEF CpuInv
      <4> QED
        BY <3>1, <4>1, BootTranslates
    <3>3. CASE pc # "jump"
      <4>1. ~paging
        BY <2>1, <3>3 DEF CpuInv, BeforeJump
      <4> QED
        BY <4>1, Layout DEF Translate, CpuInv
    <3> QED
      BY <3>2, <3>3
  <2>2. ASSUME NEW f \in Needed
        PROVE  f \in Nat \ {Null} /\ f < KernelStop
    BY Layout DEF Needed, Image, Null
  <2>3. ASSUME ~BeforeJump, NEW f \in Needed
        PROVE  Translate(Kernel(f)) = f
    <3>1. CASE pc = "running"
      <4>1. /\ paging /\ cr3 = PageDir
            /\ page_directory = [d \in 0..(Dirs - 1) |-> Table(d)]
            /\ FrameOf(page_table, Kernel(f)) = f
        BY <3>1 DEF CpuInv, TablesInv, RunningInv
      <4>2. Kernel(f) \in Pages
        BY <2>2, HigherHalf, Layout
      <4> QED
        BY <4>1, <4>2, <2>2, KernelTranslates
    <3>2. CASE pc # "running"
      <4>1. BigInv /\ paging /\ cr3 = BootDir /\ pc # "boot"
        BY <2>3, <3>2 DEF CpuInv, BeforeJump
      <4> QED
        BY <4>1, <2>2, BootTranslates
    <3> QED
      BY <3>1, <3>2
  <2>4. BeforeJump \/ pc \in {"memory", "reserve", "panic"}
            \/ Needed \subseteq bitset
    <3>1. CASE pc \in {"clear", "map", "map_vga"}
      <4>1. bitset = Marked
        BY <3>1 DEF MemoryInv
      <4> QED
        BY <4>1, Layout DEF Needed, Image, Marked
    <3>2. CASE pc \in {"recover", "switch", "running"}
      <4>1. Needed = (Image \ LowerTables) \cup {VgaBlock}
        BY <3>2 DEF Needed, Recovering
      <4>2. Needed \subseteq Marked \ TablesTo(FirstKernelDir)
        BY <4>1, NeededFrames
      <4>3. Marked \ TablesTo(FirstKernelDir) \subseteq bitset
        <5>1. pc = "recover" => TablesTo(i) \subseteq TablesTo(FirstKernelDir)
          BY Layout DEF MemoryInv, TypeInv, TablesTo
        <5> QED
          BY <5>1, <3>2 DEF MemoryInv
      <4> QED
        BY <4>2, <4>3
    <3> QED
      BY <3>1, <3>2 DEF TypeInv, Labels, BeforeJump
  <2>5. cr3 \notin given
    <3>1. CASE pc = "running"
      <4>1. PageDir \in Marked \ TablesTo(FirstKernelDir)
        BY Layout DEF Marked, TablesTo, Table
      <4> QED
        BY <4>1, <3>1 DEF CpuInv, MemoryInv
    <3>2. CASE pc # "running"
      BY <3>2 DEF TypeInv
    <3> QED
      BY <3>1, <3>2
  <2> QED
    BY <2>1, <2>3, <2>4, <2>5 DEF KernelStaysMapped
<1> QED
  BY <1>1, Inductive, PTL

\* Until recovered tables are handed out, null pointers and the rest of the
\* lower half fault in the kernel's directory.
THEOREM NullPointersFault == Spec => []NullFaults
<1>1. IInv => NullFaults
  <2> SUFFICES ASSUME IInv, cr3 = PageDir, given \cap LowerTables = {},
                      NEW v \in 0..(FirstKernelPage - 1)
               PROVE  Translate(v) = None
    BY DEF NullFaults
  <2>1. pc = "running"
    <3>1. PageDir # BootDir /\ PageDir # Null
      BY Layout DEF Null
    <3> QED
      BY <3>1 DEF IInv, CpuInv
  <2>2. /\ paging
        /\ page_directory = [d \in 0..(Dirs - 1) |-> Table(d)]
        /\ \A d \in 0..(FirstKernelDir - 1) :
               Table(d) \notin given => page_table[d] = Empty
    BY <2>1 DEF IInv, CpuInv, TablesInv, RunningInv
  <2>3. /\ v \in Pages /\ DirOf(v) \in 0..(FirstKernelDir - 1)
        /\ EntryOf(v) \in 0..(Entries - 1)
    <3>1. v \in Pages /\ v < FirstKernelPage
      BY Layout DEF Pages
    <3> QED
      BY <3>1, PageNumber, Layout
  <2>4. Table(DirOf(v)) \notin given
    BY <2>3 DEF LowerTables
  <2>5. FrameOf(page_table, v) = Null
    BY <2>2, <2>3, <2>4 DEF FrameOf, Empty
  <2> QED
    BY <2>2, <2>3, <2>5, KernelTranslates
<1> QED
  BY <1>1, Inductive, PTL

\* What physical_mem_init and paging_init leave is where PhysMem and Paging
\* begin.
THEOREM MemoryHandedOver == Spec => []HandsOverMemory
<1>1. IInv => HandsOverMemory
  <2> SUFFICES ASSUME IInv PROVE HandsOverMemory
    OBVIOUS
  <2>1. TotalBlocks \in Nat /\ TotalBlocks < AddressPages
    BY BlocksType DEF IInv
  <2>2. PICK n \in 0..AddressPages : n = TotalBlocks
    BY <2>1, Layout
  <2>3. ASSUME pc = "clear"
        PROVE  M(n)!Init
    <3>1. bitset = Marked
      BY <2>3 DEF IInv, MemoryInv
    <3>2. bitset = M(n)!Reserved
      BY <3>1, <2>2 DEF Marked, M!Reserved, Null
    <3> QED
      BY <3>2 DEF M!Init
  <2>4. ASSUME pc = "running", given = {}
        PROVE  P(n)!Init
    <3>1. /\ bitset = Marked \ TablesTo(FirstKernelDir)
          /\ virtual_bitset = Booted \ PagesOf(TablesTo(FirstKernelDir))
          /\ MappedInv /\ Fit
      BY <2>4 DEF IInv, MemoryInv, RunningInv
    <3>2. TablesTo(FirstKernelDir) = LowerTables
      BY DEF TablesTo, LowerTables
    <3>3. bitset \cap 0..(n - 1) = P(n)!Reserved \cap 0..(n - 1)
      <4>1. KernelStart..KernelStop = (KernelStart..(KernelStop - 1)) \cup {KernelStop}
        BY Layout
      <4>2. \A f \in n..(MAX_PAGES - 1) : f \notin 0..(n - 1)
        BY <2>1, <2>2, Layout
      <4>3. KernelStop - 1 + 1 = KernelStop
        BY Layout
      <4> QED
        BY <4>1, <4>2, <4>3, <3>1, <3>2, <2>2
        DEF Marked, P!Reserved, P!Image, Null
    <3>4. virtual_bitset \ {Null} = P(n)!BootPages
      <4>1. P(n)!BootPages =
              {FirstKernelPage + b : b \in (Image \ LowerTables) \cup {VgaBlock}}
        BY DEF P!BootPages, P!Kernel, P!Image, Image
      <4>2. {FirstKernelPage + b : b \in (Image \ LowerTables) \cup {VgaBlock}}
              \subseteq virtual_bitset \ {Null}
        BY <3>1, NeededFrames DEF Kernel
      <4>3. ASSUME NEW w \in virtual_bitset \ {Null}
            PROVE  w \in {FirstKernelPage + b :
                              b \in (Image \ LowerTables) \cup {VgaBlock}}
        <5>1. PICK f \in Image \cup {VgaBlock} : w = Kernel(f)
          BY <3>1, BootedPages
        <5>2. f \notin LowerTables
          BY <5>1, <3>1, <3>2 DEF PagesOf
        <5> QED
          BY <5>1, <5>2 DEF Kernel
      <4> QED
        BY <4>1, <4>2, <4>3
    <3>5. virtual_bitset = P(n)!BootPages \cup {0}
      <4>1. Null \in virtual_bitset
        <5>1. Null \notin PagesOf(TablesTo(FirstKernelDir))
          BY Layout DEF PagesOf, TablesTo, Table, Kernel, Null
        <5> QED
          BY <5>1, <3>1 DEF Booted
      <4> QED
        BY <4>1, <3>4 DEF Null
    <3>6. [v \in 0..(MAX_PAGES - 1) |-> page_table[DirOf(v)][EntryOf(v)]]
            = [p \in P(n)!Pages |->
                  IF p \in P(n)!BootPages THEN p - FirstKernelPage ELSE P(n)!Null]
      <4>1. ASSUME NEW v \in 0..(MAX_PAGES - 1)
            PROVE  page_table[DirOf(v)][EntryOf(v)] =
                     IF v \in P(n)!BootPages THEN v - FirstKernelPage ELSE 0
        <5>1. v \in Pages
          BY Layout DEF Pages
        <5> QED
          BY <5>1, <3>1, <3>4 DEF MappedInv, FrameOf, Pages, Null
      <4>2. P(n)!Pages = 0..(MAX_PAGES - 1) /\ P(n)!Null = 0
        BY DEF P!Pages, P!Null
      <4> QED
        BY <4>1, <4>2
    <3> QED
      BY <3>3, <3>5, <3>6 DEF P!Init
  <2> QED
    BY <2>2, <2>3, <2>4 DEF HandsOverMemory
<1> QED
  BY <1>1, Inductive, PTL
=============================================================================
