---------------------------- MODULE ScreenProofs ----------------------------
(***************************************************************************)
(* The screen shows the text that vga.c is given (Vga), and vga_printf     *)
(* gives it the format with its arguments in place (Printf).  Both compare *)
(* what a loop does with what a fold or a recursive function defines; the  *)
(* inductions are over numbers, by the least element of a set of           *)
(* counterexamples.                                                        *)
(***************************************************************************)
EXTENDS Vga, Printf, FiniteSetTheorems, WellFoundedInduction, TLAPS

\* A nonempty set of naturals has a least element.
LEMMA LeastOfNats ==
    ASSUME NEW S, S \subseteq Nat, S # {}
    PROVE  \E m \in S : \A n \in S : m <= n
<1> DEFINE R == OpToRel(<, Nat)
<1>1. IsWellFoundedOn(R, Nat)
  BY NatLessThanWellFounded, Zenon
<1>2. PICK m \in S : \A n \in S : ~(<<n, m>> \in R)
  BY <1>1, WFMin, Zenon
<1>3. \A n \in S : ~(n < m)
  BY <1>2 DEF OpToRel
<1> QED
  BY <1>3

\* A set that has 0 and the successor of each of its elements up to m has all
\* the numbers up to m: the least that it has not would contradict that.
LEMMA Induction ==
    ASSUME NEW m \in Nat, NEW G, 0 \in G,
           \A n \in 0..m : n + 1 \in 0..m /\ n \in G => n + 1 \in G
    PROVE  0..m \subseteq G
<1> SUFFICES ASSUME NEW k \in 0..m, k \notin G
             PROVE  FALSE
  OBVIOUS
<1> DEFINE S == {n \in 0..m : n \notin G}
<1>1. PICK n \in S : \A j \in S : n <= j
  <2>1. S \subseteq Nat /\ S # {}
    OBVIOUS
  <2> QED
    BY <2>1, LeastOfNats
<1>2. n # 0 /\ n - 1 \in 0..m /\ n - 1 \notin S
  BY <1>1
<1>3. n - 1 \in G /\ (n - 1) + 1 = n
  BY <1>1, <1>2
<1> QED
  BY <1>1, <1>2, <1>3
-----------------------------------------------------------------------------
(* The text on paper.                                                      *)

\* The greatest of a nonempty set of numbers up to m is one of them.
LEMMA MaxOf ==
    ASSUME NEW m \in Nat, NEW S \in SUBSET (1..m), S # {}
    PROVE  Max(S) \in S /\ \A n \in S : n <= Max(S)
<1> DEFINE D == {m - n : n \in S}
<1>1. PICK d \in D : \A e \in D : d <= e
  <2>1. \A n \in S : m - n \in Nat
    OBVIOUS
  <2>2. D \subseteq Nat /\ D # {}
    BY <2>1
  <2> QED
    BY <2>2, LeastOfNats
<1>2. PICK k \in S : d = m - k
  OBVIOUS
<1>3. \A n \in S : n <= k
  <2> TAKE n \in S
  <2>1. m - n \in D
    OBVIOUS
  <2> QED
    BY <1>1, <1>2, <2>1
<1>4. \E k_1 \in S : \A n \in S : n <= k_1
  BY <1>3
<1> QED
  BY <1>4 DEF Max

\* The paper before anything is written on it.
Clean == [row |-> 0, col |-> 0, ink |-> {}]

\* The function that FoldLeft makes Paper with: from a set of the indices of s
\* to the paper that the characters there leave, the last of them put last.
PaperAt(f, s, t) == IF t = {} THEN Clean ELSE Pen(f[t \ {Max(t)}], s[Max(t)])
Lays(f, s) == f = [t \in SUBSET DOMAIN s |-> PaperAt(f, s, t)]
PaperOf(s) == (CHOOSE f : Lays(f, s))[DOMAIN s]

\* Paper is what its text leaves.
LEMMA PaperIs ==
    Paper = PaperOf(text) /\ Paper' = PaperOf(text')
BY DEF Paper, FoldLeft, MapThenFoldSet, PaperOf, Lays, PaperAt, Clean

\* The same function for the first n characters.
LaysTo(f, s, n) == f = [t \in SUBSET (1..n) |-> PaperAt(f, s, t)]

\* There is such a function.
LEMMA LaysExists ==
    ASSUME NEW s, NEW m \in Nat
    PROVE  \E f : LaysTo(f, s, m)
<1> DEFINE G == {n \in 0..m : \E f : LaysTo(f, s, n)}
<1>1. 0 \in G
  <2> DEFINE f == [t \in SUBSET (1..0) |-> Clean]
  <2>1. SUBSET (1..0) = {{}}
    OBVIOUS
  <2>2. LaysTo(f, s, 0)
    BY <2>1 DEF LaysTo, PaperAt
  <2> QED
    BY <2>2
<1>2. ASSUME NEW n \in 0..m, n + 1 \in 0..m, n \in G
      PROVE  n + 1 \in G
  <2>1. PICK f : LaysTo(f, s, n)
    BY <1>2
  <2> DEFINE g == [t \in SUBSET (1..(n + 1)) |->
                     IF t \subseteq 1..n THEN f[t]
                     ELSE Pen(f[t \ {n + 1}], s[n + 1])]
  <2>2. ASSUME NEW t \in SUBSET (1..(n + 1))
        PROVE  g[t] = PaperAt(g, s, t)
    <3>1. CASE t = {}
      BY <2>1, <3>1 DEF LaysTo, PaperAt
    <3>2. CASE t # {} /\ t \subseteq 1..n
      <4>1. t \ {Max(t)} \in SUBSET (1..n) /\ t \ {Max(t)} \in SUBSET (1..(n + 1))
        BY <3>2
      <4>2. f[t] = PaperAt(f, s, t)
        BY <2>1, <3>2 DEF LaysTo
      <4>3. g[t] = f[t] /\ g[t \ {Max(t)}] = f[t \ {Max(t)}]
        BY <3>2, <4>1
      <4> HIDE DEF g
      <4> QED
        BY <4>2, <4>3, <3>2 DEF PaperAt
    <3>3. CASE ~(t \subseteq 1..n)
      <4>1. n + 1 \in t /\ t # {}
        BY <3>3
      <4>2. Max(t) \in t /\ \A k \in t : k <= Max(t)
        BY <4>1, MaxOf
      <4>3. Max(t) = n + 1
        <5>1. n \in Nat
          OBVIOUS
        <5>3. Max(t) \in 1..(n + 1)
          BY <4>2
        <5>2. n + 1 <= Max(t)
          BY <4>1, <4>2
        <5> QED
          BY <5>1, <5>2, <5>3
      <4>4. t \ {n + 1} \in SUBSET (1..n) /\ t \ {n + 1} \in SUBSET (1..(n + 1))
        OBVIOUS
      <4>5. g[t] = Pen(f[t \ {n + 1}], s[n + 1]) /\ g[t \ {n + 1}] = f[t \ {n + 1}]
        BY <3>3, <4>4
      <4> HIDE DEF g
      <4> QED
        BY <4>1, <4>3, <4>5 DEF PaperAt
    <3> QED
      BY <3>1, <3>2, <3>3
  <2>3. g = [t \in SUBSET (1..(n + 1)) |-> g[t]]
    OBVIOUS
  <2> HIDE DEF g
  <2>4. LaysTo(g, s, n + 1)
    BY <2>2, <2>3 DEF LaysTo
  <2> QED
    BY <1>2, <2>4
<1>3. 0..m \subseteq G
  <2> HIDE DEF G
  <2> QED
    BY <1>1, <1>2, Induction
<1> QED
  BY <1>3

\* No text leaves the paper clean.
LEMMA PaperOfEmpty == PaperOf(<<>>) = Clean
<1>1. DOMAIN <<>> = 1..0 /\ 1..0 = {}
  OBVIOUS
<1>2. \E f : Lays(f, <<>>)
  <2>1. \E f : LaysTo(f, <<>>, 0)
    BY LaysExists
  <2> QED
    BY <1>1, <2>1 DEF Lays, LaysTo
<1>3. Lays(CHOOSE f : Lays(f, <<>>), <<>>)
  BY <1>2
<1> QED
  BY <1>1, <1>3 DEF PaperOf, Lays, PaperAt

\* One character more is one movement of the pen more.
LEMMA PaperOfAppend ==
    ASSUME NEW C, NEW s \in Seq(C), NEW c \in C
    PROVE  PaperOf(Append(s, c)) = Pen(PaperOf(s), c)
<1> DEFINE m == Len(s)
           u == Append(s, c)
           f == CHOOSE f_1 : Lays(f_1, s)
           g == CHOOSE g_1 : Lays(g_1, u)
<1>1. m \in Nat /\ DOMAIN s = 1..m /\ DOMAIN u = 1..(m + 1)
      /\ u[m + 1] = c /\ \A k \in 1..m : u[k] = s[k]
  OBVIOUS
<1>2. Lays(f, s) /\ Lays(g, u)
  <2>1. (\E f_1 : Lays(f_1, s)) /\ (\E g_1 : Lays(g_1, u))
    <3>1. m + 1 \in Nat
      BY <1>1
    <3>2. (\E f_1 : LaysTo(f_1, s, m)) /\ (\E g_1 : LaysTo(g_1, u, m + 1))
      BY <1>1, <3>1, LaysExists
    <3> QED
      BY <1>1, <3>2 DEF Lays, LaysTo
  <2> QED
    BY <2>1
<1>3. PaperOf(s) = f[1..m] /\ PaperOf(u) = g[1..(m + 1)]
  BY <1>1 DEF PaperOf
<1> HIDE DEF f, g, u, m
<1>4. \A k \in 1..m : f[1..k] = Pen(f[1..(k - 1)], s[k])
  <2> TAKE k \in 1..m
  <2>0. k \in Nat /\ 1 <= k /\ k <= m
    BY <1>1
  <2>1. 1..k \in SUBSET (1..m) /\ 1..k # {} /\ k \in 1..k /\ k \in Nat
    <3>1. k \in 1..k
      BY <2>0
    <3>2. 1..k \subseteq 1..m
      BY <1>1, <2>0
    <3> QED
      BY <2>0, <3>1, <3>2
  <2>2. Max(1..k) \in 1..k /\ \A j \in 1..k : j <= Max(1..k)
    BY <2>1, MaxOf
  <2>3. Max(1..k) = k /\ (1..k) \ {k} = 1..(k - 1)
    BY <2>1, <2>2
  <2> QED
    BY <1>1, <1>2, <2>1, <2>3 DEF Lays, PaperAt
<1>5. \A k \in 1..(m + 1) : g[1..k] = Pen(g[1..(k - 1)], u[k])
  <2> TAKE k \in 1..(m + 1)
  <2>0. k \in Nat /\ 1 <= k /\ k <= m + 1
    BY <1>1
  <2>1. 1..k \in SUBSET (1..(m + 1)) /\ 1..k # {} /\ k \in 1..k /\ k \in Nat
    <3>1. k \in 1..k
      BY <2>0
    <3>2. 1..k \subseteq 1..(m + 1)
      BY <1>1, <2>0
    <3> QED
      BY <2>0, <3>1, <3>2
  <2>2. Max(1..k) \in 1..k /\ \A j \in 1..k : j <= Max(1..k)
    BY <2>1, MaxOf
  <2>3. Max(1..k) = k /\ (1..k) \ {k} = 1..(k - 1)
    BY <2>1, <2>2
  <2> QED
    BY <1>1, <1>2, <2>1, <2>3 DEF Lays, PaperAt
<1>6. f[1..0] = Clean /\ g[1..0] = Clean
  <2>1. 1..0 = {} /\ {} \in SUBSET DOMAIN s /\ {} \in SUBSET DOMAIN u
    OBVIOUS
  <2> QED
    BY <1>2, <2>1 DEF Lays, PaperAt
<1>7. f[1..m] = g[1..m]
  <2> DEFINE G == {k \in 0..m : f[1..k] = g[1..k]}
  <2>1. 0 \in G
    BY <1>1, <1>6
  <2>2. ASSUME NEW k \in 0..m, k + 1 \in 0..m, k \in G
        PROVE  k + 1 \in G
    <3>1. k + 1 \in 1..m /\ k + 1 \in 1..(m + 1) /\ (k + 1) - 1 = k
      BY <1>1, <2>2
    <3>2. f[1..(k + 1)] = Pen(f[1..k], s[k + 1])
          /\ g[1..(k + 1)] = Pen(g[1..k], u[k + 1])
      BY <1>4, <1>5, <3>1
    <3> QED
      BY <1>1, <2>2, <3>1, <3>2
  <2>3. 0..m \subseteq G
    <3> HIDE DEF G
    <3> QED
      BY <1>1, <2>1, <2>2, Induction
  <2> QED
    BY <1>1, <2>3
<1>8. g[1..(m + 1)] = Pen(g[1..m], c)
  BY <1>1, <1>5
<1> QED
  BY <1>3, <1>7, <1>8 DEF u
-----------------------------------------------------------------------------
\* What is given to vga_write_char, what a screen can hold, and where a pen can
\* be on what paper.
Printed == Chars \cup {"\n", "\t"}
Screens == [0..(Rows - 1) -> [0..(Cols - 1) -> Chars \cup {" "}]]
Papers == [row : Nat, col : 0..(Cols - 1),
           ink : SUBSET (Nat \X (0..(Cols - 1)) \X Chars)]

\* OnPaper, of any paper.
InkAt(ink, row, col) ==
    IF \E c \in Chars : <<row, col, c>> \in ink
    THEN CHOOSE c \in Chars : <<row, col, c>> \in ink
    ELSE " "

\* s shows the rows of the paper from top on.
Window(s, top, ink) ==
    \A y \in 0..(Rows - 1), x \in 0..(Cols - 1) : s[y][x] = InkAt(ink, top + y, x)

\* The pen has not been where it is yet, nor after that.
Fresh(p) ==
    \A row \in Nat, col \in 0..(Cols - 1), c \in Chars :
        <<row, col, c>> \in p.ink => row < p.row \/ (row = p.row /\ col < p.col)

\* Where the cursor register can stand: just past the screen at the farthest.
Stands(pos) ==
    /\ pos.x \in 0..Cols /\ pos.y \in 0..Rows
    /\ pos.y = Rows => pos.x = 0

\* The screen has a row and two columns, and nothing printed is blank.
LEMMA Sizes ==
    /\ Rows \in Nat /\ Rows >= 1 /\ Cols \in Nat /\ Cols >= 2
    /\ " " \notin Chars /\ "\n" \notin Chars /\ "\t" \notin Chars
<1>1. Rows \in Nat \ {0}
  BY VgaAssumption
<1>2. Cols \in Nat \ {0, 1}
  BY VgaAssumption
<1>3. {" ", "\n", "\t"} \cap Chars = {}
  BY VgaAssumption
<1>4. " " \notin Chars /\ "\n" \notin Chars /\ "\t" \notin Chars
  BY <1>3
<1>5. Rows \in Nat /\ Rows >= 1
  BY <1>1
<1>6. Cols \in Nat /\ Cols >= 2
  BY <1>2
<1> QED
  BY <1>4, <1>5, <1>6

\* The register with n in it is at pos.
Holds(n, pos) ==
    /\ n \in 0..(Rows * Cols)
    /\ n % Cols = (IF pos.x = Cols THEN 0 ELSE pos.x)
    /\ n \div Cols = (IF pos.x = Cols THEN pos.y + 1 ELSE pos.y)

\* A position is read back from the register as it was written; column Cols is
\* the first of the next row.
LEMMA CursorHolds ==
    ASSUME NEW pos, Stands(pos)
    PROVE  Holds(Offset(pos), pos)
<1> DEFINE x == pos.x
           y == pos.y
           n == y * Cols + x
<1> SUFFICES /\ n % 65536 \in 0..(Rows * Cols)
             /\ (n % 65536) % Cols = (IF x = Cols THEN 0 ELSE x)
             /\ (n % 65536) \div Cols = (IF x = Cols THEN y + 1 ELSE y)
  BY DEF Offset, Holds
<1>0. x \in 0..Cols /\ y \in 0..Rows /\ (y = Rows => x = 0)
  BY DEF Stands
<1> HIDE DEF x, y
<1>1. Rows \in Nat /\ Cols \in Nat /\ Cols >= 2
      /\ x \in Nat /\ y \in Nat /\ y <= Rows /\ x <= Cols
  <2>1. Rows \in Nat /\ Cols \in Nat /\ Cols >= 2
    BY Sizes
  <2> QED
    BY <1>0, <2>1
<1>2. n \in Nat
  BY <1>1
<1>3. n <= Rows * Cols /\ Rows * Cols \in Nat
  <2>1. CASE y = Rows
    BY <1>0, <1>1, <2>1
  <2>2. CASE y # Rows
    <3>1. y + 1 <= Rows /\ (y + 1) * Cols = y * Cols + Cols
      BY <1>1, <2>2
    <3>2. (y + 1) * Cols <= Rows * Cols
      BY <1>1, <3>1
    <3> QED
      BY <1>1, <3>1, <3>2
  <2> QED
    BY <2>1, <2>2
<1>4. n < 65536
  <2>1. (Rows + 1) * Cols = Rows * Cols + Cols
    BY <1>1
  <2>2. Rows * Cols + Cols < 65536
    BY <2>1, RegisterHoldsOffsets
  <2> HIDE DEF n
  <2> QED
    BY <1>1, <1>2, <1>3, <2>2
<1>5. n % 65536 = n
  BY <1>2, <1>4
<1>6. CASE x = Cols
  <2>1. n = (y + 1) * Cols + 0
    BY <1>1, <1>6
  <2>2. n \div Cols = y + 1 /\ n % Cols = 0
    BY <1>1, <2>1
  <2> QED
    BY <1>2, <1>3, <1>5, <1>6, <2>2
<1>7. CASE x # Cols
  <2>1. n \div Cols = y /\ n % Cols = x
    BY <1>1, <1>7
  <2> QED
    BY <1>2, <1>3, <1>5, <1>7, <2>1
<1> QED
  BY <1>6, <1>7

\* What the register can hold is a position on the screen or just past it.
LEMMA CursorReads ==
    ASSUME NEW n \in 0..(Rows * Cols)
    PROVE  /\ n % Cols \in 0..(Cols - 1) /\ n \div Cols \in 0..Rows
           /\ n \div Cols = Rows => n % Cols = 0
<1> DEFINE q == n \div Cols
           k == n % Cols
<1>1. Rows \in Nat /\ Cols \in Nat /\ Cols >= 2 /\ n \in Nat
  <2>1. Rows \in Nat /\ Cols \in Nat /\ Cols >= 2
    BY Sizes
  <2>2. Rows * Cols \in Nat
    BY <2>1
  <2> QED
    BY <2>1, <2>2
<1>2. q \in Nat /\ k \in 0..(Cols - 1) /\ n = q * Cols + k
  BY <1>1
<1>3. n <= Rows * Cols
  BY <1>1
<1> HIDE DEF q, k
<1>4. q <= Rows
  <2> SUFFICES ASSUME Rows + 1 <= q
               PROVE  FALSE
    BY <1>1, <1>2
  <2>1. (Rows + 1) * Cols <= q * Cols /\ (Rows + 1) * Cols = Rows * Cols + Cols
    BY <1>1, <1>2
  <2> QED
    BY <1>1, <1>2, <1>3, <2>1
<1>5. q = Rows => k = 0
  BY <1>1, <1>2, <1>3
<1>6. q \in 0..Rows /\ k \in 0..(Cols - 1) /\ (q = Rows => k = 0)
  BY <1>1, <1>2, <1>4, <1>5
<1> QED
  BY <1>6 DEF q, k

\* A screen with a position on it.
Display(s, x, y) == [screen |-> s, pos |-> [x |-> x, y |-> y]]

\* A newline scrolls if it leaves the last row.
LEMMA Newline ==
    ASSUME NEW s \in Screens, NEW x \in 0..(Cols - 1), NEW y \in 0..Rows
    PROVE  Written(Display(s, x, y), "\n") =
             IF y + 1 >= Rows THEN Display(ScrollUp(s), 0, y)
             ELSE Display(s, 0, y + 1)
<1>1. Rows \in Nat /\ Rows >= 1 /\ Cols \in Nat /\ Cols >= 2 /\ y \in Nat
  <2>1. Rows \in Nat /\ Rows >= 1 /\ Cols \in Nat /\ Cols >= 2
    BY Sizes
  <2> QED
    BY <2>1
<1>2. Written(Display(s, x, y), "\n") = NewLine(Display(s, 0, y + 1))
  BY DEF Written, Display
<1>3. ScrollIfBelow(Display(s, 0, y + 1)) =
        IF y + 1 >= Rows THEN Display(ScrollUp(s), 0, y) ELSE Display(s, 0, y + 1)
  BY <1>1 DEF ScrollIfBelow, Display
<1>4. ~(ScrollIfBelow(Display(s, 0, y + 1)).pos.x > Cols)
  BY <1>1, <1>3 DEF Display
<1> QED
  BY <1>2, <1>3, <1>4 DEF NewLine

\* One column to the right.
LEMMA ToTheRight ==
    ASSUME NEW s \in Screens, NEW x \in 0..Cols, NEW y \in 0..Rows,
           y = Rows => x = 0
    PROVE  Right(Display(s, x, y)) =
             IF y = Rows THEN Display(ScrollUp(s), x + 1, y - 1)
             ELSE IF x < Cols THEN Display(s, x + 1, y)
             ELSE IF y + 1 >= Rows THEN Display(ScrollUp(s), 0, y)
             ELSE Display(s, 0, y + 1)
<1>1. Rows \in Nat /\ Rows >= 1 /\ Cols \in Nat /\ Cols >= 2 /\ y \in Nat
      /\ x \in Nat
      /\ y <= Rows /\ x <= Cols
  <2>1. Rows \in Nat /\ Rows >= 1 /\ Cols \in Nat /\ Cols >= 2
    BY Sizes
  <2> QED
    BY <2>1
<1>2. Right(Display(s, x, y)) = NewLine(Display(s, x + 1, y))
  BY DEF Right, Display
<1>3. ScrollIfBelow(Display(s, x + 1, y)) =
        IF y = Rows THEN Display(ScrollUp(s), x + 1, y - 1)
        ELSE Display(s, x + 1, y)
  BY <1>1 DEF ScrollIfBelow, Display
<1>4. CASE y = Rows
  <2>1. ~(ScrollIfBelow(Display(s, x + 1, y)).pos.x > Cols)
    BY <1>1, <1>3, <1>4 DEF Display
  <2> QED
    BY <1>2, <1>3, <1>4, <2>1 DEF NewLine
<1>5. CASE y # Rows /\ x < Cols
  <2>1. ~(ScrollIfBelow(Display(s, x + 1, y)).pos.x > Cols)
    BY <1>1, <1>3, <1>5 DEF Display
  <2> QED
    BY <1>2, <1>3, <1>5, <2>1 DEF NewLine
<1>6. CASE y # Rows /\ ~(x < Cols)
  <2>1. ScrollIfBelow(Display(s, x + 1, y)) = Display(s, x + 1, y)
    BY <1>3, <1>6
  <2>2. Display(s, x + 1, y).pos.x > Cols
    BY <1>1, <1>6 DEF Display
  <2>3. NewLine(Display(s, x + 1, y)) = ScrollIfBelow(Display(s, 0, y + 1))
    BY <2>1, <2>2 DEF NewLine, Display
  <2>4. ScrollIfBelow(Display(s, 0, y + 1)) =
          IF y + 1 >= Rows THEN Display(ScrollUp(s), 0, y) ELSE Display(s, 0, y + 1)
    BY <1>1 DEF ScrollIfBelow, Display
  <2> QED
    BY <1>2, <1>6, <2>3, <2>4
<1> QED
  BY <1>4, <1>5, <1>6

\* A screen that is scrolled is a screen.
LEMMA ScrolledIs ==
    ASSUME NEW s \in Screens
    PROVE  ScrollUp(s) \in Screens
<1>1. Rows \in Nat /\ Cols \in Nat
  BY Sizes
<1>2. Blank \in [0..(Cols - 1) -> Chars \cup {" "}]
  BY DEF Blank
<1>3. \A y \in 0..(Rows - 1) : y # Rows - 1 => y + 1 \in 0..(Rows - 1)
  BY <1>1
<1>4. \A y \in 0..(Rows - 1) :
        (IF y = Rows - 1 THEN Blank
         ELSE s[y + 1]) \in [0..(Cols - 1) -> Chars \cup {" "}]
  BY <1>2, <1>3 DEF Screens
<1> QED
  BY <1>4 DEF ScrollUp, Screens

\* If nothing has been written below the screen, scrolling moves the window
\* down by a row.
LEMMA ScrollKeepsWindow ==
    ASSUME NEW s \in Screens, NEW top \in Int, NEW p \in Papers, Fresh(p),
           Window(s, top, p.ink),
           p.row < top + Rows \/ (p.row = top + Rows /\ p.col = 0)
    PROVE  Window(ScrollUp(s), top + 1, p.ink)
<1> SUFFICES ASSUME NEW y \in 0..(Rows - 1), NEW x \in 0..(Cols - 1)
             PROVE  ScrollUp(s)[y][x] = InkAt(p.ink, (top + 1) + y, x)
  BY DEF Window
<1>1. Rows \in Nat /\ Cols \in Nat /\ y \in Nat /\ x \in Nat
  <2>1. Rows \in Nat /\ Cols \in Nat
    BY Sizes
  <2> QED
    BY <2>1
<1>2. CASE y # Rows - 1
  <2>1. ScrollUp(s)[y] = s[y + 1] /\ y + 1 \in 0..(Rows - 1)
        /\ (top + 1) + y = top + (y + 1)
    BY <1>1, <1>2 DEF ScrollUp
  <2> QED
    BY <2>1 DEF Window
<1>3. CASE y = Rows - 1
  <2>1. ScrollUp(s)[y][x] = " " /\ (top + 1) + y = top + Rows
    BY <1>1, <1>3 DEF ScrollUp, Blank
  <2>2. \A c \in Chars : <<top + Rows, x, c>> \notin p.ink
    <3> SUFFICES ASSUME NEW c \in Chars, <<top + Rows, x, c>> \in p.ink
                 PROVE  FALSE
      OBVIOUS
    <3>1. top + Rows \in Nat /\ p.row \in Nat /\ p.col \in 0..(Cols - 1)
      BY DEF Papers
    <3>2. top + Rows < p.row \/ (top + Rows = p.row /\ x < p.col)
      BY <3>1 DEF Fresh
    <3> QED
      BY <1>1, <3>1, <3>2
  <2> QED
    BY <2>1, <2>2 DEF InkAt
<1> QED
  BY <1>2, <1>3

\* A newline takes the pen to the next row.
LEMMA PenNewline ==
    ASSUME NEW p \in Papers
    PROVE  /\ Pen(p, "\n") = [row |-> p.row + 1, col |-> 0, ink |-> p.ink]
           /\ Pen(p, "\n") \in Papers
           /\ Fresh(p) => Fresh(Pen(p, "\n"))
<1>1. Cols \in Nat /\ Cols >= 2 /\ "\n" \notin Chars
  BY Sizes
<1>2. p.row \in Nat /\ p.col \in 0..(Cols - 1)
      /\ p.ink \in SUBSET (Nat \X (0..(Cols - 1)) \X Chars)
  BY DEF Papers
<1>3. Pen(p, "\n") = [row |-> p.row + 1, col |-> 0, ink |-> p.ink]
  BY <1>1 DEF Pen
<1>4. Pen(p, "\n") \in Papers
  BY <1>1, <1>2, <1>3 DEF Papers
<1>5. Fresh(p) => Fresh(Pen(p, "\n"))
  BY <1>2, <1>3 DEF Fresh
<1> QED
  BY <1>3, <1>4, <1>5

\* How far a character moves the pen.
Forward(p, c) == IF c = "\t" /\ p.col + 1 # Cols THEN 2 ELSE 1

\* Any other character takes it one column to the right, or two, and from the
\* last column to the next row.
LEMMA PenForward ==
    ASSUME NEW p \in Papers, NEW c \in Printed, c # "\n"
    PROVE  LET n == p.col + Forward(p, c) IN
           /\ n \in 1..Cols
           /\ Pen(p, c).row = (IF n = Cols THEN p.row + 1 ELSE p.row)
           /\ Pen(p, c).col = (IF n = Cols THEN 0 ELSE n)
           /\ Pen(p, c).ink = p.ink \cup (IF c = "\t" THEN {}
                                          ELSE {<<p.row, p.col, c>>})
           /\ Pen(p, c) \in Papers
           /\ Fresh(p) => Fresh(Pen(p, c))
<1> DEFINE n == p.col + Forward(p, c)
           q == Pen(p, c)
<1>1. Cols \in Nat /\ Cols >= 2 /\ "\t" \notin Chars /\ (c \in Chars <=> c # "\t")
  BY Sizes DEF Printed
<1>2. p.row \in Nat /\ p.col \in Nat /\ p.col <= Cols - 1
      /\ p.ink \in SUBSET (Nat \X (0..(Cols - 1)) \X Chars)
  BY <1>1 DEF Papers
<1>3. n \in 1..Cols
  BY <1>1, <1>2 DEF Forward
<1>4. n \div Cols = (IF n = Cols THEN 1 ELSE 0)
      /\ n % Cols = (IF n = Cols THEN 0 ELSE n)
  <2> HIDE DEF n
  <2>1. CASE n = Cols
    BY <1>1, <2>1
  <2>2. CASE n # Cols
    <3>1. n \in 0..(Cols - 1)
      BY <1>1, <1>3, <2>2
    <3>2. 0 * Cols + n = n
      BY <1>1, <3>1
    <3>3. n \div Cols = 0 /\ n % Cols = n
      BY <1>1, <3>1
    <3> QED
      BY <2>2, <3>3
  <2> QED
    BY <2>1, <2>2
<1>5. q = [row |-> p.row + n \div Cols, col |-> n % Cols,
           ink |-> p.ink \cup IF c \in Chars THEN {<<p.row, p.col, c>>} ELSE {}]
  <2>1. CASE c = "\t"
    BY <2>1 DEF Pen, Forward
  <2>2. CASE c # "\t"
    BY <2>2 DEF Pen, Forward
  <2> QED
    BY <2>1, <2>2
<1> HIDE DEF n, q
<1>6. q.row = p.row + n \div Cols /\ q.col = n % Cols
      /\ q.ink = p.ink \cup (IF c = "\t" THEN {} ELSE {<<p.row, p.col, c>>})
  BY <1>1, <1>5
<1>7. q.row = (IF n = Cols THEN p.row + 1 ELSE p.row)
      /\ q.col = (IF n = Cols THEN 0 ELSE n)
  BY <1>2, <1>4, <1>6
<1>8. q.row \in Nat /\ q.col \in 0..(Cols - 1)
  BY <1>1, <1>2, <1>3, <1>7
<1>9. q.ink \in SUBSET (Nat \X (0..(Cols - 1)) \X Chars)
  BY <1>1, <1>2, <1>6
<1>10. q \in Papers
  BY <1>5, <1>8, <1>9 DEF Papers
<1>11. ASSUME Fresh(p)
       PROVE  Fresh(q)
  <2> SUFFICES ASSUME NEW row \in Nat, NEW col \in 0..(Cols - 1), NEW d \in Chars,
                      <<row, col, d>> \in q.ink
               PROVE  row < q.row \/ (row = q.row /\ col < q.col)
    BY DEF Fresh
  <2>1. col \in Nat
    OBVIOUS
  <2>2. CASE <<row, col, d>> \in p.ink
    <3>1. row < p.row \/ (row = p.row /\ col < p.col)
      BY <1>11, <2>2 DEF Fresh
    <3>2. n > p.col
      BY <1>2 DEF n, Forward
    <3> QED
      BY <1>1, <1>2, <1>3, <1>7, <2>1, <3>1, <3>2
  <2>3. CASE <<row, col, d>> \notin p.ink
    <3>1. row = p.row /\ col = p.col
      BY <1>6, <2>3
    <3>2. n > p.col
      BY <1>2 DEF n, Forward
    <3> QED
      BY <1>1, <1>2, <1>3, <1>7, <2>1, <3>1, <3>2
  <2> QED
    BY <2>2, <2>3
<1> QED
  BY <1>3, <1>6, <1>7, <1>10, <1>11 DEF n, q

\* A character goes where the pen is, and nowhere else.
LEMMA InkAdds ==
    ASSUME NEW p \in Papers, Fresh(p), NEW c \in Chars, NEW row, NEW col
    PROVE  InkAt(p.ink \cup {<<p.row, p.col, c>>}, row, col) =
             IF row = p.row /\ col = p.col THEN c ELSE InkAt(p.ink, row, col)
<1> DEFINE ink == p.ink \cup {<<p.row, p.col, c>>}
<1>1. CASE row = p.row /\ col = p.col
  <2>1. p.row \in Nat /\ p.col \in 0..(Cols - 1) /\ Cols \in Nat
    BY Sizes DEF Papers
  <2>2. \A d \in Chars : <<row, col, d>> \notin p.ink
    BY <1>1, <2>1 DEF Fresh
  <2>3. \A d \in Chars : <<row, col, d>> \in ink <=> d = c
    BY <1>1, <2>2
  <2> QED
    BY <1>1, <2>3 DEF InkAt
<1>2. CASE ~(row = p.row /\ col = p.col)
  <2>1. \A d \in Chars : <<row, col, d>> \in ink <=> <<row, col, d>> \in p.ink
    BY <1>2
  <2> HIDE DEF ink
  <2>2. (CHOOSE d \in Chars : <<row, col, d>> \in ink) =
          (CHOOSE d \in Chars : <<row, col, d>> \in p.ink)
    BY <2>1
  <2>3. InkAt(ink, row, col) = InkAt(p.ink, row, col)
    BY <2>1, <2>2 DEF InkAt
  <2> QED
    BY <1>2, <2>3 DEF ink
<1> QED
  BY <1>1, <1>2

\* A character is put on the screen.
Put(s, y, x, c) == [s EXCEPT ![y][x] = c]

\* A character put where the pen is shows on the screen as on the paper.
LEMMA PutShows ==
    ASSUME NEW s \in Screens, NEW p \in Papers, Fresh(p), NEW c \in Chars,
           NEW y \in 0..(Rows - 1), Window(s, p.row - y, p.ink)
    PROVE  /\ Put(s, y, p.col, c) \in Screens
           /\ Window(Put(s, y, p.col, c), p.row - y,
                     p.ink \cup {<<p.row, p.col, c>>})
<1>1. p.row \in Nat /\ p.col \in 0..(Cols - 1) /\ Cols \in Nat /\ Rows \in Nat
      /\ y \in Nat
  <2>1. Cols \in Nat /\ Rows \in Nat
    BY Sizes
  <2>2. p.row \in Nat /\ p.col \in 0..(Cols - 1)
    BY DEF Papers
  <2> QED
    BY <2>1, <2>2
<1>2. s \in [0..(Rows - 1) -> [0..(Cols - 1) -> Chars \cup {" "}]]
  BY DEF Screens
<1>3. Put(s, y, p.col, c) \in Screens
  BY <1>1, <1>2 DEF Put, Screens
<1>4. ASSUME NEW v \in 0..(Rows - 1), NEW x \in 0..(Cols - 1)
      PROVE  Put(s, y, p.col, c)[v][x] =
               InkAt(p.ink \cup {<<p.row, p.col, c>>}, (p.row - y) + v, x)
  <2>1. Put(s, y, p.col, c)[v][x] = IF v = y /\ x = p.col THEN c ELSE s[v][x]
    BY <1>1, <1>2 DEF Put
  <2>2. (p.row - y) + v = p.row <=> v = y
    BY <1>1
  <2>3. s[v][x] = InkAt(p.ink, (p.row - y) + v, x)
    BY DEF Window
  <2>4. InkAt(p.ink \cup {<<p.row, p.col, c>>}, (p.row - y) + v, x) =
          IF (p.row - y) + v = p.row /\ x = p.col THEN c
          ELSE InkAt(p.ink, (p.row - y) + v, x)
    BY InkAdds
  <2> QED
    BY <2>1, <2>2, <2>3, <2>4
<1>5. Window(Put(s, y, p.col, c), p.row - y, p.ink \cup {<<p.row, p.col, c>>})
  BY <1>4 DEF Window
<1> QED
  BY <1>3, <1>5

\* What a character other than a newline does to a display.
LEMMA WrittenIs ==
    ASSUME NEW s \in Screens, NEW x \in 0..(Cols - 1), NEW y \in 0..Rows,
           y = Rows => x = 0,
           NEW c \in Printed, c # "\n"
    PROVE  Written(Display(s, x, y), c) =
             IF y = Rows THEN Display(ScrollUp(s), IF c = "\t" THEN 2 ELSE 1, y - 1)
             ELSE IF c # "\t" THEN Display(Put(s, y, x, c), x + 1, y)
             ELSE IF x + 1 < Cols THEN Display(s, x + 2, y)
             ELSE IF y + 1 >= Rows THEN Display(ScrollUp(s), 0, y)
             ELSE Display(s, 0, y + 1)
<1>1. Rows \in Nat /\ Cols \in Nat /\ Rows >= 1 /\ Cols >= 2 /\ x \in Nat
      /\ y \in Nat
      /\ x < Cols /\ y <= Rows /\ x \in 0..Cols
  <2>1. Rows \in Nat /\ Cols \in Nat /\ Rows >= 1 /\ Cols >= 2
    BY Sizes
  <2> QED
    BY <2>1
<1>2. CASE c = "\t"
  <2>1. Written(Display(s, x, y), c) = Right(Right(Display(s, x, y)))
    BY <1>2 DEF Written
  <2>2. CASE y = Rows
    <3>1. Right(Display(s, x, y)) = Display(ScrollUp(s), 1, y - 1)
      BY <1>1, <2>2, ToTheRight
    <3>2. ScrollUp(s) \in Screens /\ 1 \in 0..Cols /\ y - 1 \in 0..Rows
          /\ y - 1 # Rows
      BY <1>1, <2>2, ScrolledIs
    <3>3. Right(Display(ScrollUp(s), 1, y - 1)) = Display(ScrollUp(s), 1 + 1, y - 1)
      BY <1>1, <3>2, ToTheRight
    <3> QED
      BY <1>2, <2>1, <2>2, <3>1, <3>3
  <2>3. CASE y # Rows
    <3>1. Right(Display(s, x, y)) = Display(s, x + 1, y)
      BY <1>1, <2>3, ToTheRight
    <3>2. x + 1 \in 0..Cols
      BY <1>1
    <3>3. Right(Display(s, x + 1, y)) =
            IF x + 1 < Cols THEN Display(s, (x + 1) + 1, y)
            ELSE IF y + 1 >= Rows THEN Display(ScrollUp(s), 0, y)
            ELSE Display(s, 0, y + 1)
      BY <2>3, <3>2, ToTheRight
    <3>4. (x + 1) + 1 = x + 2
      BY <1>1
    <3> QED
      BY <1>2, <2>1, <2>3, <3>1, <3>3, <3>4
  <2> QED
    BY <2>2, <2>3
<1>3. CASE c # "\t"
  <2>1. Written(Display(s, x, y), c) = Right(PrintChar(Display(s, x, y), c))
    BY <1>3 DEF Written
  <2>2. CASE y = Rows
    <3>1. PrintChar(Display(s, x, y), c) = Display(s, x, y)
      BY <1>1, <2>2 DEF PrintChar, Display
    <3>2. Right(Display(s, x, y)) = Display(ScrollUp(s), x + 1, y - 1)
      BY <1>1, <2>2, ToTheRight
    <3> QED
      BY <1>1, <1>3, <2>1, <2>2, <3>1, <3>2
  <2>3. CASE y # Rows
    <3>1. PrintChar(Display(s, x, y), c) = Display(Put(s, y, x, c), x, y)
      BY <1>1, <2>3 DEF PrintChar, Display, Put
    <3>2. Put(s, y, x, c) \in Screens
      <4>1. c \in Chars
        BY <1>3 DEF Printed
      <4>2. y \in 0..(Rows - 1)
        BY <1>1, <2>3
      <4> QED
        BY <4>1, <4>2 DEF Put, Screens
    <3>3. Right(Display(Put(s, y, x, c), x, y)) = Display(Put(s, y, x, c), x + 1, y)
      BY <1>1, <2>3, <3>2, ToTheRight
    <3> QED
      BY <1>3, <2>1, <2>3, <3>1, <3>3
  <2> QED
    BY <2>2, <2>3
<1> QED
  BY <1>2, <1>3

\* Whatever is written, the position stays on the screen or just past it.
LEMMA WriteStands ==
    ASSUME NEW s \in Screens, NEW x \in 0..(Cols - 1), NEW y \in 0..Rows,
           y = Rows => x = 0,
           NEW c \in Printed
    PROVE  LET d == Written(Display(s, x, y), c)
           IN  d.screen \in Screens /\ Stands(d.pos)
<1> DEFINE d == Written(Display(s, x, y), c)
<1> SUFFICES d.screen \in Screens /\ Stands(d.pos)
  OBVIOUS
<1>1. Rows \in Nat /\ Cols \in Nat /\ Rows >= 1 /\ Cols >= 2 /\ x \in Nat
      /\ y \in Nat
      /\ x < Cols /\ y <= Rows
  <2>1. Rows \in Nat /\ Cols \in Nat /\ Rows >= 1 /\ Cols >= 2
    BY Sizes
  <2> QED
    BY <2>1
<1>2. ScrollUp(s) \in Screens
  BY ScrolledIs
<1>3. CASE c = "\n"
  <2>1. d = IF y + 1 >= Rows THEN Display(ScrollUp(s), 0, y)
            ELSE Display(s, 0, y + 1)
    BY <1>3, Newline
  <2> HIDE DEF d
  <2> QED
    BY <1>1, <1>2, <2>1 DEF Display, Stands
<1>4. CASE c # "\n"
  <2>1. d = IF y = Rows THEN Display(ScrollUp(s), IF c = "\t" THEN 2 ELSE 1, y - 1)
             ELSE IF c # "\t" THEN Display(Put(s, y, x, c), x + 1, y)
             ELSE IF x + 1 < Cols THEN Display(s, x + 2, y)
             ELSE IF y + 1 >= Rows THEN Display(ScrollUp(s), 0, y)
             ELSE Display(s, 0, y + 1)
    BY <1>4, WrittenIs
  <2>2. y # Rows /\ c # "\t" => Put(s, y, x, c) \in Screens
    <3> SUFFICES ASSUME y # Rows, c # "\t"
                 PROVE  Put(s, y, x, c) \in Screens
      OBVIOUS
    <3>1. c \in Chars /\ y \in 0..(Rows - 1)
      BY <1>1, <1>4 DEF Printed
    <3> QED
      BY <3>1 DEF Put, Screens
  <2> HIDE DEF d
  <2> QED
    BY <1>1, <1>2, <2>1, <2>2 DEF Display, Stands
<1> QED
  BY <1>3, <1>4

\* Where the register is read to be after it is set to pos.
Read(pos) == IF pos.x = Cols THEN [x |-> 0, y |-> pos.y + 1] ELSE pos

\* The screen is a window on the paper, and the position is the pen's.
Shows(s, pos, p) == pos.x = p.col /\ Window(s, p.row - pos.y, p.ink)

\* A character that is not lost.
LEMMA WriteShows ==
    ASSUME NEW s \in Screens, NEW x \in 0..(Cols - 1), NEW y \in 0..Rows,
           y = Rows => x = 0,
           NEW p \in Papers, Fresh(p), Shows(s, [x |-> x, y |-> y], p),
           NEW c \in Printed, y = Rows => c \notin Chars
    PROVE  LET d == Written(Display(s, x, y), c)
           IN  Shows(d.screen, Read(d.pos), Pen(p, c))
<1> DEFINE d == Written(Display(s, x, y), c)
           q == Pen(p, c)
<1> SUFFICES Shows(d.screen, Read(d.pos), q)
  OBVIOUS
<1>1. Rows \in Nat /\ Cols \in Nat /\ Rows >= 1 /\ Cols >= 2 /\ x \in Nat
      /\ y \in Nat
      /\ x < Cols /\ y <= Rows
  <2>1. Rows \in Nat /\ Cols \in Nat /\ Rows >= 1 /\ Cols >= 2
    BY Sizes
  <2> QED
    BY <2>1
<1>2. x = p.col /\ Window(s, p.row - y, p.ink)
  BY DEF Shows
<1>3. p.row \in Nat /\ p.row - y \in Int
  BY <1>1 DEF Papers
<1>4. Window(ScrollUp(s), (p.row - y) + 1, p.ink)
  <2>1. p.row < (p.row - y) + Rows \/ (p.row = (p.row - y) + Rows /\ p.col = 0)
    BY <1>1, <1>2, <1>3
  <2> QED
    BY <1>2, <1>3, <2>1, ScrollKeepsWindow
<1>5. CASE c = "\n"
  <2>1. d = IF y + 1 >= Rows THEN Display(ScrollUp(s), 0, y)
            ELSE Display(s, 0, y + 1)
    BY <1>5, Newline
  <2>2. q.row = p.row + 1 /\ q.col = 0 /\ q.ink = p.ink
    BY <1>5, PenNewline
  <2> HIDE DEF d, q
  <2>3. (p.row + 1) - y = (p.row - y) + 1 /\ (p.row + 1) - (y + 1) = p.row - y
    BY <1>1, <1>3
  <2>4. CASE y + 1 >= Rows
    <3>1. d.screen = ScrollUp(s) /\ Read(d.pos) = [x |-> 0, y |-> y]
      BY <1>1, <2>1, <2>4 DEF Display, Read
    <3> QED
      BY <1>4, <2>2, <2>3, <3>1 DEF Shows
  <2>5. CASE ~(y + 1 >= Rows)
    <3>1. d.screen = s /\ Read(d.pos) = [x |-> 0, y |-> y + 1]
      BY <1>1, <2>1, <2>5 DEF Display, Read
    <3> QED
      BY <1>2, <2>2, <2>3, <3>1 DEF Shows
  <2> QED
    BY <2>4, <2>5
<1>6. CASE c # "\n"
  <2> DEFINE n == p.col + Forward(p, c)
  <2>1. d = IF y = Rows THEN Display(ScrollUp(s), IF c = "\t" THEN 2 ELSE 1, y - 1)
             ELSE IF c # "\t" THEN Display(Put(s, y, x, c), x + 1, y)
             ELSE IF x + 1 < Cols THEN Display(s, x + 2, y)
             ELSE IF y + 1 >= Rows THEN Display(ScrollUp(s), 0, y)
             ELSE Display(s, 0, y + 1)
    BY <1>6, WrittenIs
  <2>2. /\ n \in 1..Cols
        /\ q.row = (IF n = Cols THEN p.row + 1 ELSE p.row)
        /\ q.col = (IF n = Cols THEN 0 ELSE n)
        /\ q.ink = p.ink \cup (IF c = "\t" THEN {} ELSE {<<p.row, p.col, c>>})
    BY <1>6, PenForward
  <2>3. n = IF c = "\t" /\ x + 1 # Cols THEN x + 2 ELSE x + 1
    BY <1>2 DEF Forward
  <2> HIDE DEF d, q, n
  <2>4. CASE y = Rows
    <3>1. c = "\t" /\ x = 0
      BY <1>6, <2>4 DEF Printed
    <3>2. d = Display(ScrollUp(s), 2, y - 1) /\ n = 2 /\ q.ink = p.ink
      BY <1>1, <2>1, <2>2, <2>3, <2>4, <3>1
    <3>3. Read(d.pos).x = q.col /\ q.row - Read(d.pos).y = (p.row - y) + 1
      BY <1>1, <1>3, <2>2, <3>2 DEF Read, Display
    <3> QED
      BY <1>4, <3>2, <3>3 DEF Shows, Display
  <2>5. CASE y # Rows /\ c # "\t"
    <3>1. c \in Chars /\ y \in 0..(Rows - 1)
      BY <1>1, <1>6, <2>5 DEF Printed
    <3>2. n = x + 1 /\ q.ink = p.ink \cup {<<p.row, p.col, c>>}
      BY <2>2, <2>3, <2>5
    <3>3. Window(Put(s, y, p.col, c), p.row - y, q.ink)
      <4>1. Window(s, p.row - y, p.ink)
        BY <1>2
      <4>2. Window(Put(s, y, p.col, c), p.row - y,
                   p.ink \cup {<<p.row, p.col, c>>})
        BY <3>1, <4>1, PutShows
      <4> QED
        BY <3>2, <4>2
    <3>4. d = Display(Put(s, y, p.col, c), x + 1, y)
      BY <1>2, <2>1, <2>5
    <3>5. Read(d.pos).x = q.col /\ q.row - Read(d.pos).y = p.row - y
      BY <1>1, <1>3, <2>2, <3>2, <3>4 DEF Read, Display
    <3>6. d.screen = Put(s, y, p.col, c)
      BY <3>4 DEF Display
    <3> QED
      BY <3>3, <3>5, <3>6 DEF Shows
  <2>6. CASE y # Rows /\ c = "\t" /\ x + 1 < Cols
    <3>1. d = Display(s, x + 2, y) /\ n = x + 2 /\ q.ink = p.ink
      BY <1>1, <2>1, <2>2, <2>3, <2>6
    <3>2. Read(d.pos).x = q.col /\ q.row - Read(d.pos).y = p.row - y
      BY <1>1, <1>3, <2>2, <3>1 DEF Read, Display
    <3> QED
      BY <1>2, <3>1, <3>2 DEF Shows, Display
  <2>7. CASE y # Rows /\ c = "\t" /\ ~(x + 1 < Cols)
    <3>1. n = Cols /\ q.row = p.row + 1 /\ q.col = 0 /\ q.ink = p.ink
      BY <1>1, <2>2, <2>3, <2>7
    <3>2. CASE y + 1 >= Rows
      <4>1. d = Display(ScrollUp(s), 0, y)
        BY <2>1, <2>7, <3>2
      <4>2. Read(d.pos).x = q.col /\ q.row - Read(d.pos).y = (p.row - y) + 1
        BY <1>1, <1>3, <3>1, <4>1 DEF Read, Display
      <4> QED
        BY <1>4, <3>1, <4>1, <4>2 DEF Shows, Display
    <3>3. CASE ~(y + 1 >= Rows)
      <4>1. d = Display(s, 0, y + 1)
        BY <2>1, <2>7, <3>3
      <4>2. Read(d.pos).x = q.col /\ q.row - Read(d.pos).y = p.row - y
        BY <1>1, <1>3, <3>1, <4>1 DEF Read, Display
      <4> QED
        BY <1>2, <3>1, <4>1, <4>2 DEF Shows, Display
    <3> QED
      BY <3>2, <3>3
  <2> QED
    BY <2>4, <2>5, <2>6, <2>7
<1> QED
  BY <1>5, <1>6

\* What the screen, the register and the history of the text always are, and
\* that the screen shows the text while no character of it is lost.
VgaInv ==
    /\ screen \in Screens
    /\ cursor \in 0..(Rows * Cols)
    /\ text \in Seq(Printed)
    /\ lost \in BOOLEAN
    /\ PaperOf(text) \in Papers
    /\ Fresh(PaperOf(text))
    /\ ~lost => Shows(screen, GetCursor, PaperOf(text))

\* A cleared screen shows clean paper.
LEMMA Cleared ==
    ASSUME NEW n, n = 0
    PROVE  /\ ClearScreen \in Screens /\ Clean \in Papers /\ Fresh(Clean)
           /\ n \in 0..(Rows * Cols)
           /\ Shows(ClearScreen, [x |-> n % Cols, y |-> n \div Cols], Clean)
<1>1. Rows \in Nat /\ Cols \in Nat /\ Cols >= 2
  BY Sizes
<1>2. ClearScreen \in Screens
  BY DEF ClearScreen, Blank, Screens
<1>3. Clean \in Papers
  BY <1>1 DEF Clean, Papers
<1>4. Fresh(Clean)
  BY DEF Clean, Fresh
<1>5. 0 % Cols = 0 /\ 0 \div Cols = 0
  BY <1>1
<1>6. n \in 0..(Rows * Cols)
  <2>1. Rows * Cols \in Nat
    BY <1>1
  <2> QED
    BY <2>1
<1>7. Window(ClearScreen, 0 - 0, {})
  BY DEF Window, ClearScreen, Blank, InkAt
<1>8. Shows(ClearScreen, [x |-> n % Cols, y |-> n \div Cols], Clean)
  BY <1>5, <1>7 DEF Shows, Clean
<1> QED
  BY <1>2, <1>3, <1>4, <1>6, <1>8

\* Init establishes the invariant.
LEMMA VgaInitInv == VgaInit => VgaInv
<1> SUFFICES ASSUME VgaInit
             PROVE  VgaInv
  OBVIOUS
<1>1. screen = ClearScreen /\ cursor = 0 /\ text = <<>> /\ lost = FALSE
  BY DEF VgaInit
<1>2. PaperOf(text) = Clean
  BY <1>1, PaperOfEmpty
<1>3. text \in Seq(Printed)
  BY <1>1
<1> QED
  BY <1>1, <1>2, <1>3, Cleared DEF VgaInv, GetCursor

\* Clearing the screen establishes it again.
LEMMA ClearKeeps == VgaInv /\ Clear => VgaInv'
<1> SUFFICES ASSUME VgaInv, Clear
             PROVE  VgaInv'
  OBVIOUS
<1>1. screen' = ClearScreen /\ cursor' = 0 /\ text' = <<>> /\ lost' = FALSE
  BY DEF Clear
<1>2. PaperOf(text') = Clean
  BY <1>1, PaperOfEmpty
<1>3. text' \in Seq(Printed)
  BY <1>1
<1>4. GetCursor' = [x |-> cursor' % Cols, y |-> cursor' \div Cols]
  BY DEF GetCursor
<1>5. Shows(screen', GetCursor', PaperOf(text'))
  BY <1>1, <1>2, <1>4, Cleared
<1> QED
  BY <1>1, <1>2, <1>3, <1>5, Cleared DEF VgaInv

\* Writing a character keeps it.
LEMMA WriteCharKeeps ==
    ASSUME VgaInv, NEW c \in Printed, WriteChar(c)
    PROVE  VgaInv'
<1> DEFINE x == cursor % Cols
           y == cursor \div Cols
           p == PaperOf(text)
           d == Written(Display(screen, x, y), c)
<1>1. /\ screen' = d.screen /\ cursor' = Offset(d.pos) /\ text' = Append(text, c)
      /\ lost' = (lost \/ (c \in Chars /\ y >= Rows))
  BY DEF WriteChar, GetCursor, Display
<1>2. /\ screen \in Screens /\ cursor \in 0..(Rows * Cols) /\ text \in Seq(Printed)
      /\ lost \in BOOLEAN /\ p \in Papers /\ Fresh(p)
      /\ ~lost => Shows(screen, [x |-> x, y |-> y], p)
  BY DEF VgaInv, GetCursor
<1>3. x \in 0..(Cols - 1) /\ y \in 0..Rows /\ (y = Rows => x = 0)
  BY <1>2, CursorReads
<1>4. PaperOf(text') = Pen(p, c)
  BY <1>1, <1>2, PaperOfAppend
<1>5. Pen(p, c) \in Papers /\ Fresh(Pen(p, c))
  BY <1>2, PenNewline, PenForward
<1> HIDE DEF x, y, p
<1>6. d.screen \in Screens /\ Stands(d.pos)
  BY <1>2, <1>3, WriteStands
<1>7. /\ cursor' \in 0..(Rows * Cols)
      /\ cursor' % Cols = (IF d.pos.x = Cols THEN 0 ELSE d.pos.x)
      /\ cursor' \div Cols = (IF d.pos.x = Cols THEN d.pos.y + 1 ELSE d.pos.y)
  <2>1. Holds(Offset(d.pos), d.pos)
    BY <1>6, CursorHolds
  <2> QED
    BY <1>1, <2>1 DEF Holds
<1>8. GetCursor' = [x |-> cursor' % Cols, y |-> cursor' \div Cols]
  BY DEF GetCursor
<1>9. text' \in Seq(Printed) /\ lost' \in BOOLEAN
  BY <1>1, <1>2
<1>10. ASSUME ~lost'
       PROVE  Shows(screen', GetCursor', PaperOf(text'))
  <2>1. ~lost /\ (y = Rows => c \notin Chars)
    <3>1. ~lost /\ ~(c \in Chars /\ y >= Rows)
      BY <1>1, <1>10
    <3>2. Rows \in Nat /\ y \in Nat
      <4>1. Rows \in Nat
        BY Sizes
      <4> QED
        BY <1>3, <4>1
    <3> QED
      BY <3>1, <3>2
  <2>2. Shows(d.screen, Read(d.pos), Pen(p, c))
    BY <1>2, <1>3, <2>1, WriteShows
  <2>3. GetCursor'.x = Read(d.pos).x /\ GetCursor'.y = Read(d.pos).y
    BY <1>7, <1>8 DEF Read
  <2>4. Shows(d.screen, GetCursor', Pen(p, c))
    BY <2>2, <2>3 DEF Shows
  <2> QED
    BY <1>1, <1>4, <2>4
<1> HIDE DEF d
<1> QED
  BY <1>1, <1>4, <1>5, <1>6, <1>7, <1>9, <1>10 DEF VgaInv

\* For every size of screen, the cursor register and the screen stay what they
\* can be, and the screen a window on the text, whatever vga.c is called with.
THEOREM VgaKeepsInv == VgaSpec => []VgaInv
<1>1. VgaInv /\ [VgaNext]_vgaVars => VgaInv'
  <2> SUFFICES ASSUME VgaInv, [VgaNext]_vgaVars
               PROVE  VgaInv'
    OBVIOUS
  <2>1. CASE Clear
    BY <2>1, ClearKeeps
  <2>2. ASSUME NEW c \in Printed, WriteChar(c)
        PROVE  VgaInv'
    BY <2>2, WriteCharKeeps
  <2>3. CASE UNCHANGED vgaVars
    BY <2>3 DEF VgaInv, vgaVars, GetCursor
  <2> QED
    BY <2>1, <2>2, <2>3 DEF VgaNext, Printed
<1> QED
  BY <1>1, VgaInitInv, PTL DEF VgaSpec

\* For every size of screen, vga_write_char loses, repeats and overwrites
\* nothing of a text until a character is written past frame_buffer.
THEOREM TextShown == VgaSpec => []ShowsTheText
<1>1. VgaInv => ShowsTheText
  <2> SUFFICES ASSUME VgaInv, ~lost
               PROVE  LET top == Paper.row - GetCursor.y IN
                      /\ GetCursor.x = Paper.col
                      /\ \A y \in 0..(Rows - 1), x \in 0..(Cols - 1) :
                          screen[y][x] = OnPaper(top + y, x)
    BY DEF ShowsTheText
  <2>1. \A row, col : OnPaper(row, col) = InkAt(Paper.ink, row, col)
    BY DEF OnPaper, InkAt
  <2>2. GetCursor.x = Paper.col
        /\ Window(screen, Paper.row - GetCursor.y, Paper.ink)
    BY PaperIs DEF VgaInv, Shows
  <2> QED
    BY <2>1, <2>2 DEF Window
<1> QED
  BY <1>1, VgaKeepsInv, PTL
-----------------------------------------------------------------------------
(* Powers and quotients.                                                   *)

\* The function that Power is defined with.
PowerAt(g, b, n) == IF n = 0 THEN 1 ELSE b * g[n - 1]
Powers(g, b, k) == g = [n \in 0..k |-> PowerAt(g, b, n)]

\* Power is a value of that function.
LEMMA PowerIs ==
    ASSUME NEW b, NEW k
    PROVE  Power(b, k) = (CHOOSE g : Powers(g, b, k))[k]
BY DEF Power, Powers, PowerAt

\* There is such a function.
LEMMA PowersExist ==
    ASSUME NEW b, NEW m \in Nat
    PROVE  \E g : Powers(g, b, m)
<1> DEFINE G == {n \in 0..m : \E g : Powers(g, b, n)}
<1>1. 0 \in G
  <2> DEFINE g == [n \in 0..0 |-> 1]
  <2>1. Powers(g, b, 0)
    BY DEF Powers, PowerAt
  <2> QED
    BY <2>1
<1>2. ASSUME NEW n \in 0..m, n + 1 \in 0..m, n \in G
      PROVE  n + 1 \in G
  <2>1. PICK g : Powers(g, b, n)
    BY <1>2
  <2> DEFINE h == [k \in 0..(n + 1) |-> IF k = n + 1 THEN b * g[n] ELSE g[k]]
  <2>2. n \in Nat
    OBVIOUS
  <2>3. ASSUME NEW k \in 0..(n + 1)
        PROVE  h[k] = PowerAt(h, b, k)
    <3>1. CASE k = 0
      <4>1. h[k] = g[k] /\ k \in 0..n
        BY <2>2, <3>1
      <4>2. g[k] = PowerAt(g, b, k)
        BY <2>1, <4>1 DEF Powers
      <4> HIDE DEF h
      <4> QED
        BY <3>1, <4>1, <4>2 DEF PowerAt
    <3>2. CASE k = n + 1
      <4>1. h[k] = b * g[n] /\ k - 1 = n /\ k # 0 /\ h[k - 1] = g[n]
        BY <2>2, <3>2
      <4> HIDE DEF h
      <4> QED
        BY <4>1 DEF PowerAt
    <3>3. CASE k # 0 /\ k # n + 1
      <4>1. k \in 0..n /\ k - 1 \in 0..n
        BY <2>2, <3>3
      <4>2. h[k] = g[k] /\ h[k - 1] = g[k - 1]
        BY <2>2, <4>1
      <4>3. g[k] = PowerAt(g, b, k)
        BY <2>1, <4>1 DEF Powers
      <4> HIDE DEF h
      <4> QED
        BY <3>3, <4>2, <4>3 DEF PowerAt
    <3> QED
      BY <3>1, <3>2, <3>3
  <2>4. h = [k \in 0..(n + 1) |-> h[k]]
    OBVIOUS
  <2> HIDE DEF h
  <2>5. Powers(h, b, n + 1)
    BY <2>3, <2>4 DEF Powers
  <2> QED
    BY <1>2, <2>5
<1>3. 0..m \subseteq G
  <2> HIDE DEF G
  <2> QED
    BY <1>1, <1>2, Induction
<1>4. m \in 0..m
  OBVIOUS
<1> QED
  BY <1>3, <1>4

\* The equations of Power.
LEMMA PowerStep ==
    ASSUME NEW b, NEW m \in Nat
    PROVE  Power(b, 0) = 1 /\ Power(b, m + 1) = b * Power(b, m)
<1> DEFINE f == CHOOSE g : Powers(g, b, m)
           h == CHOOSE g : Powers(g, b, m + 1)
           z == CHOOSE g : Powers(g, b, 0)
<1>1. Powers(f, b, m) /\ Powers(h, b, m + 1) /\ Powers(z, b, 0)
  <2>1. m + 1 \in Nat /\ 0 \in Nat
    OBVIOUS
  <2>2. /\ \E g : Powers(g, b, m)
        /\ \E g : Powers(g, b, m + 1)
        /\ \E g : Powers(g, b, 0)
    BY <2>1, PowersExist
  <2> QED
    BY <2>2
<1>2. Power(b, 0) = z[0] /\ Power(b, m) = f[m] /\ Power(b, m + 1) = h[m + 1]
  BY PowerIs
<1> HIDE DEF f, h, z
<1>3. z[0] = 1
  BY <1>1 DEF Powers, PowerAt
<1>4. h[m + 1] = b * h[m]
  <2>1. h[m + 1] = PowerAt(h, b, m + 1)
    <3>1. m + 1 \in 0..(m + 1)
      OBVIOUS
    <3> QED
      BY <1>1, <3>1 DEF Powers
  <2>2. m + 1 # 0 /\ (m + 1) - 1 = m
    OBVIOUS
  <2> QED
    BY <2>1, <2>2 DEF PowerAt
<1>5. f[m] = h[m]
  <2> DEFINE G == {n \in 0..m : f[n] = h[n]}
  <2>1. \A n \in 0..m : f[n] = PowerAt(f, b, n) /\ h[n] = PowerAt(h, b, n)
    <3>1. \A n \in 0..m : n \in 0..(m + 1)
      OBVIOUS
    <3> QED
      BY <1>1, <3>1 DEF Powers
  <2>2. 0 \in G
    BY <2>1 DEF PowerAt
  <2>3. ASSUME NEW n \in 0..m, n + 1 \in 0..m, n \in G
        PROVE  n + 1 \in G
    <3>1. n + 1 # 0 /\ (n + 1) - 1 = n
      OBVIOUS
    <3>2. f[n + 1] = b * f[n] /\ h[n + 1] = b * h[n]
      BY <2>1, <2>3, <3>1 DEF PowerAt
    <3> QED
      BY <2>3, <3>2
  <2>4. 0..m \subseteq G
    <3> HIDE DEF G
    <3> QED
      BY <2>2, <2>3, Induction
  <2>5. m \in 0..m
    OBVIOUS
  <2> QED
    BY <2>4, <2>5
<1> QED
  BY <1>2, <1>3, <1>4, <1>5

\* A power of a positive number is one.
LEMMA PowerType ==
    ASSUME NEW b \in Nat \ {0}, NEW m \in Nat
    PROVE  Power(b, m) \in Nat \ {0}
<1> DEFINE G == {n \in 0..m : Power(b, n) \in Nat \ {0}}
<1>1. 0 \in G
  BY PowerStep
<1>2. ASSUME NEW n \in 0..m, n + 1 \in 0..m, n \in G
      PROVE  n + 1 \in G
  <2>1. n \in Nat /\ Power(b, n) \in Nat \ {0}
    BY <1>2
  <2>2. Power(b, n + 1) = b * Power(b, n)
    BY <2>1, PowerStep
  <2>3. b * Power(b, n) \in Nat \ {0}
    BY <2>1
  <2> QED
    BY <1>2, <2>2, <2>3
<1>3. 0..m \subseteq G
  <2> HIDE DEF G
  <2> QED
    BY <1>1, <1>2, Induction
<1>4. m \in 0..m
  OBVIOUS
<1> QED
  BY <1>3, <1>4

\* A power grows with its exponent.
LEMMA PowerGrows ==
    ASSUME NEW b \in Nat \ {0}, NEW k \in Nat, NEW m \in Nat, k <= m
    PROVE  Power(b, k) <= Power(b, m)
<1> DEFINE G == {n \in 0..(m - k) : Power(b, k) <= Power(b, k + n)}
<1>0. m - k \in Nat
  OBVIOUS
<1>1. 0 \in G
  <2>1. k + 0 = k /\ Power(b, k) \in Nat
    BY PowerType
  <2> QED
    BY <1>0, <2>1
<1>2. ASSUME NEW n \in 0..(m - k), n + 1 \in 0..(m - k), n \in G
      PROVE  n + 1 \in G
  <2>1. k + n \in Nat /\ k + (n + 1) = (k + n) + 1
    BY <1>0
  <2>2. Power(b, k + (n + 1)) = b * Power(b, k + n)
    BY <2>1, PowerStep
  <2>3. Power(b, k + n) \in Nat /\ Power(b, k) \in Nat
    BY <2>1, PowerType
  <2>4. b * Power(b, k + n) >= Power(b, k + n)
    BY <2>3
  <2>5. b * Power(b, k + n) \in Nat /\ Power(b, k) <= Power(b, k + n)
    BY <1>2, <2>3
  <2>6. Power(b, k) <= b * Power(b, k + n)
    BY <2>3, <2>4, <2>5
  <2> QED
    BY <1>2, <2>2, <2>6
<1>3. 0..(m - k) \subseteq G
  <2> HIDE DEF G
  <2> QED
    BY <1>0, <1>1, <1>2, Induction
<1>4. m - k \in 0..(m - k) /\ k + (m - k) = m
  BY <1>0
<1> QED
  BY <1>3, <1>4

\* A power grows with its base.
LEMMA PowerOfMore ==
    ASSUME NEW a \in Nat \ {0}, NEW b \in Nat \ {0}, a <= b, NEW m \in Nat
    PROVE  Power(a, m) <= Power(b, m)
<1> DEFINE G == {n \in 0..m : Power(a, n) <= Power(b, n)}
<1>1. 0 \in G
  <2>1. Power(a, 0) = 1 /\ Power(b, 0) = 1
    BY PowerStep
  <2> QED
    BY <2>1
<1>2. ASSUME NEW n \in 0..m, n + 1 \in 0..m, n \in G
      PROVE  n + 1 \in G
  <2>1. n \in Nat /\ Power(a, n) <= Power(b, n)
    BY <1>2
  <2>2. Power(a, n + 1) = a * Power(a, n) /\ Power(b, n + 1) = b * Power(b, n)
    BY <2>1, PowerStep
  <2>3. Power(a, n) \in Nat /\ Power(b, n) \in Nat
    BY <2>1, PowerType
  <2>4. a * Power(a, n) <= b * Power(a, n) /\ b * Power(a, n) <= b * Power(b, n)
    BY <2>1, <2>3
  <2>5. a * Power(a, n) \in Nat /\ b * Power(a, n) \in Nat
        /\ b * Power(b, n) \in Nat
    BY <2>3
  <2>6. a * Power(a, n) <= b * Power(b, n)
    BY <2>4, <2>5
  <2> QED
    BY <1>2, <2>2, <2>6
<1>3. 0..m \subseteq G
  <2> HIDE DEF G
  <2> QED
    BY <1>1, <1>2, Induction
<1>4. m \in 0..m
  OBVIOUS
<1> QED
  BY <1>3, <1>4

\* Dividing by E and then by b divides by b * E.
LEMMA DivDiv ==
    ASSUME NEW v \in Nat, NEW E \in Nat \ {0}, NEW b \in Nat \ {0}
    PROVE  (v \div E) \div b = v \div (b * E)
<1> DEFINE q == v \div E
           r == v % E
           s == q \div b
           t == q % b
           F == b * E
<1>1. q \in Nat /\ r \in 0..(E - 1) /\ v = q * E + r
  BY SMT
<1>2. s \in Nat /\ t \in 0..(b - 1) /\ q = s * b + t
  BY <1>1
<1> HIDE DEF q, r, s, t
<1>3. q * E = s * F + t * E
  <2>1. q * E = (s * b + t) * E
    BY <1>2
  <2>2. (s * b + t) * E = (s * b) * E + t * E
    BY <1>2
  <2>3. (s * b) * E = s * (b * E)
    BY <1>2
  <2> QED
    BY <2>1, <2>2, <2>3
<1>4. F \in Nat \ {0}
  OBVIOUS
<1>5. t * E + r \in 0..(F - 1)
  <2>1. t + 1 <= b /\ t \in Nat
    BY <1>2
  <2>2. (t + 1) * E <= b * E /\ (t + 1) * E = t * E + E /\ t * E \in Nat
    BY <2>1
  <2> QED
    BY <1>1, <2>2, <1>4
<1> HIDE DEF F
<1>6. s * F \in Nat /\ t * E \in Nat
  BY <1>2, <1>4
<1>7. v = s * F + (t * E + r)
  BY <1>1, <1>3, <1>6
<1>8. v \div F = s
  <2> DEFINE e == t * E + r
  <2>1. e \in 0..(F - 1) /\ v = s * F + e
    BY <1>5, <1>7
  <2> HIDE DEF e
  <2> QED
    BY <1>2, <1>4, <2>1
<1> QED
  BY <1>8 DEF F, s, q
-----------------------------------------------------------------------------
(* Concatenation.                                                          *)

\* The function that FlattenSeq is defined with, and what it makes of the first
\* k sequences of s.
FlatAt(g, s, n) == IF n = 1 THEN s[n] ELSE g[n - 1] \o s[n]
Flats(g, s, k) == g = [n \in 1..k |-> FlatAt(g, s, n)]
Flat(s, k) == IF k = 0 THEN <<>> ELSE (CHOOSE g : Flats(g, s, k))[k]

\* FlattenSeq concatenates them all.
LEMMA FlattenIs ==
    ASSUME NEW C, NEW s \in Seq(C)
    PROVE  FlattenSeq(s) = Flat(s, Len(s))
<1>1. CASE Len(s) = 0
  <2>1. s = <<>>
    BY <1>1
  <2> QED
    BY <1>1, <2>1 DEF FlattenSeq, Flat
<1>2. CASE Len(s) # 0
  BY <1>2 DEF FlattenSeq, Flat, Flats, FlatAt
<1> QED
  BY <1>1, <1>2

\* There is such a function.
LEMMA FlatsExist ==
    ASSUME NEW s, NEW m \in Nat
    PROVE  \E g : Flats(g, s, m)
<1> DEFINE G == {n \in 0..m : \E g : Flats(g, s, n)}
<1>1. 0 \in G
  <2> DEFINE g == [n \in 1..0 |-> {}]
  <2>1. g = [n \in 1..0 |-> FlatAt(g, s, n)]
    <3>1. \A n \in 1..0 : FALSE
      OBVIOUS
    <3> QED
      BY <3>1
  <2>2. Flats(g, s, 0)
    BY <2>1 DEF Flats
  <2> QED
    BY <2>2
<1>2. ASSUME NEW n \in 0..m, n + 1 \in 0..m, n \in G
      PROVE  n + 1 \in G
  <2>1. PICK g : Flats(g, s, n)
    BY <1>2
  <2> DEFINE h == [k \in 1..(n + 1) |->
                     IF k = n + 1 THEN FlatAt(g, s, n + 1) ELSE g[k]]
  <2>2. n \in Nat
    OBVIOUS
  <2>3. ASSUME NEW k \in 1..(n + 1)
        PROVE  h[k] = FlatAt(h, s, k)
    <3>1. CASE k = n + 1
      <4>1. h[k] = FlatAt(g, s, k)
        BY <3>1
      <4>2. k # 1 => h[k - 1] = g[k - 1]
        BY <2>2, <3>1
      <4> HIDE DEF h
      <4> QED
        BY <4>1, <4>2 DEF FlatAt
    <3>2. CASE k # n + 1
      <4>1. k \in 1..n /\ (k # 1 => k - 1 \in 1..n)
        BY <2>2, <3>2
      <4>2. h[k] = g[k] /\ (k # 1 => h[k - 1] = g[k - 1])
        BY <2>2, <4>1
      <4>3. g[k] = FlatAt(g, s, k)
        BY <2>1, <4>1 DEF Flats
      <4> HIDE DEF h
      <4> QED
        BY <4>2, <4>3 DEF FlatAt
    <3> QED
      BY <3>1, <3>2
  <2>4. h = [k \in 1..(n + 1) |-> h[k]]
    OBVIOUS
  <2> HIDE DEF h
  <2>5. Flats(h, s, n + 1)
    BY <2>3, <2>4 DEF Flats
  <2> QED
    BY <1>2, <2>5
<1>3. 0..m \subseteq G
  <2> HIDE DEF G
  <2> QED
    BY <1>1, <1>2, Induction
<1>4. m \in 0..m
  OBVIOUS
<1> QED
  BY <1>3, <1>4

\* One sequence more.
LEMMA FlatStep ==
    ASSUME NEW C, NEW s, NEW m \in Nat, s[m + 1] \in Seq(C)
    PROVE  Flat(s, m + 1) = Flat(s, m) \o s[m + 1]
<1>1. CASE m = 0
  <2> DEFINE g == CHOOSE g : Flats(g, s, 1)
  <2>1. Flats(g, s, 1)
    <3>1. \E g_1 : Flats(g_1, s, 1)
      BY FlatsExist
    <3> QED
      BY <3>1
  <2>2. Flat(s, 1) = g[1]
    BY DEF Flat
  <2> HIDE DEF g
  <2>3. g[1] = s[1]
    BY <2>1 DEF Flats, FlatAt
  <2>4. m + 1 = 1 /\ s[1] \in Seq(C) /\ <<>> \o s[1] = s[1]
    BY <1>1
  <2>5. Flat(s, m) = <<>>
    BY <1>1 DEF Flat
  <2> QED
    BY <2>2, <2>3, <2>4, <2>5
<1>2. CASE m # 0
  <2> DEFINE f == CHOOSE g : Flats(g, s, m)
             h == CHOOSE g : Flats(g, s, m + 1)
  <2>1. Flats(f, s, m) /\ Flats(h, s, m + 1)
    <3>1. m + 1 \in Nat
      OBVIOUS
    <3>2. (\E g : Flats(g, s, m)) /\ (\E g : Flats(g, s, m + 1))
      BY <3>1, FlatsExist
    <3> QED
      BY <3>2
  <2>2. Flat(s, m) = f[m] /\ Flat(s, m + 1) = h[m + 1]
    BY <1>2 DEF Flat
  <2> HIDE DEF f, h
  <2>3. h[m + 1] = h[m] \o s[m + 1]
    <3>1. m + 1 \in 1..(m + 1) /\ m + 1 # 1 /\ (m + 1) - 1 = m
      BY <1>2
    <3>2. h[m + 1] = FlatAt(h, s, m + 1)
      BY <2>1, <3>1 DEF Flats
    <3> QED
      BY <3>1, <3>2 DEF FlatAt
  <2>4. f[m] = h[m]
    <3> DEFINE G == {n \in 0..m : n # 0 => f[n] = h[n]}
    <3>1. 0 \in G
      OBVIOUS
    <3>2. \A n \in 1..m : f[n] = FlatAt(f, s, n) /\ h[n] = FlatAt(h, s, n)
      <4>1. \A n \in 1..m : n \in 1..(m + 1)
        OBVIOUS
      <4> QED
        BY <2>1, <4>1 DEF Flats
    <3>3. ASSUME NEW n \in 0..m, n + 1 \in 0..m, n \in G
          PROVE  n + 1 \in G
      <4>1. n \in Nat /\ n + 1 \in 1..m /\ (n + 1) - 1 = n /\ (n + 1 = 1 <=> n = 0)
        BY <3>3
      <4>2. f[n + 1] = FlatAt(f, s, n + 1) /\ h[n + 1] = FlatAt(h, s, n + 1)
        BY <3>2, <4>1
      <4>3. n # 0 => f[n] = h[n]
        BY <3>3
      <4>4. f[n + 1] = h[n + 1]
        BY <4>1, <4>2, <4>3 DEF FlatAt
      <4> QED
        BY <3>3, <4>4
    <3>4. 0..m \subseteq G
      <4> HIDE DEF G
      <4> QED
        BY <3>1, <3>3, Induction
    <3>5. m \in 0..m
      OBVIOUS
    <3> QED
      BY <1>2, <3>4, <3>5
  <2> QED
    BY <2>2, <2>3, <2>4
<1> QED
  BY <1>1, <1>2

\* The concatenation of sequences is one.
LEMMA FlatType ==
    ASSUME NEW C, NEW s \in Seq(Seq(C)), NEW m \in 0..Len(s)
    PROVE  Flat(s, m) \in Seq(C)
<1> DEFINE G == {n \in 0..Len(s) : Flat(s, n) \in Seq(C)}
<1>0. Len(s) \in Nat /\ \A n \in 1..Len(s) : s[n] \in Seq(C)
  OBVIOUS
<1>1. 0 \in G
  BY <1>0 DEF Flat
<1>2. ASSUME NEW n \in 0..Len(s), n + 1 \in 0..Len(s), n \in G
      PROVE  n + 1 \in G
  <2>1. n \in Nat /\ n + 1 \in 1..Len(s)
    BY <1>0, <1>2
  <2>2. s[n + 1] \in Seq(C) /\ Flat(s, n) \in Seq(C)
    BY <1>0, <1>2, <2>1
  <2>3. Flat(s, n + 1) = Flat(s, n) \o s[n + 1]
    BY <2>1, <2>2, FlatStep
  <2>4. Flat(s, n) \o s[n + 1] \in Seq(C)
    BY <2>2
  <2> QED
    BY <1>2, <2>3, <2>4
<1>3. 0..Len(s) \subseteq G
  <2> HIDE DEF G
  <2> QED
    BY <1>0, <1>1, <1>2, Induction
<1> QED
  BY <1>3
-----------------------------------------------------------------------------
(* Digits and numerals.                                                    *)

\* What can be printed, or be in the buffer.
Hex == {"0", "1", "2", "3", "4", "5", "6", "7", "8", "9",
        "a", "b", "c", "d", "e", "f"}
Characters == STRING \cup Hex \cup {"-", "s", Nul}

\* A digit is a character, and not the terminator.
LEMMA DigitIs ==
    ASSUME NEW d \in 0..15
    PROVE  Digit(d) \in Hex /\ Digit(d) \in Characters /\ Digit(d) # Nul
<1>1. Digit(d) \in Hex
  BY DEF Digit, Hex
<1>2. Nul \notin Hex
  BY DEF Nul, Hex
<1> QED
  BY <1>1, <1>2 DEF Characters

\* The bases numbers are printed in.
Bases == {10, 16}

\* A digit of a number.
LEMMA DigitOf ==
    ASSUME NEW v \in Nat, NEW b \in Bases
    PROVE  Digit(v % b) \in Characters /\ Digit(v % b) # Nul
<1>1. v % b \in 0..15
  BY DEF Bases
<1> QED
  BY <1>1, DigitIs

\* What the numbers are bounded by.
LEMMA WordSizes ==
    /\ W \in Nat /\ W >= 1 /\ BufLen \in Nat /\ BufLen >= 3
    /\ Power(2, W) \in Nat /\ Power(2, W - 1) \in Nat \ {0}
    /\ Power(2, W) = 2 * Power(2, W - 1)
    /\ \A b \in Bases : b \in Nat /\ b >= 2 /\ Power(2, W) <= Power(b, W)
                        /\ Power(2, W) <= Power(b, BufLen - 2)
<1>1. W \in Nat /\ W >= 1 /\ BufLen \in Nat /\ BufLen >= 2 /\ W - 1 \in Nat
      /\ BufLen - 2 \in Nat
  BY PrintfAssumption
<1>2. Power(2, (W - 1) + 1) = 2 * Power(2, W - 1) /\ (W - 1) + 1 = W
  BY <1>1, PowerStep
<1>3. Power(2, W - 1) \in Nat \ {0} /\ Power(2, W) \in Nat
  BY <1>1, PowerType
<1>4. ASSUME NEW b \in Bases
      PROVE  b \in Nat /\ b >= 2 /\ Power(2, W) <= Power(b, W)
             /\ Power(2, W) <= Power(b, BufLen - 2)
  <2>1. b \in Nat \ {0} /\ 2 <= b /\ 10 <= b /\ 2 \in Nat \ {0} /\ 10 \in Nat \ {0}
    BY DEF Bases
  <2>2. Power(2, W) <= Power(b, W) /\ Power(10, BufLen - 2) <= Power(b, BufLen - 2)
    BY <1>1, <2>1, PowerOfMore
  <2>3. Power(10, BufLen - 2) \in Nat /\ Power(b, BufLen - 2) \in Nat
    BY <1>1, <2>1, PowerType
  <2> QED
    BY <1>3, <2>1, <2>2, <2>3, BufferHoldsWords
<1>5. BufLen # 2
  <2> SUFFICES ASSUME BufLen = 2
               PROVE  FALSE
    OBVIOUS
  <2>1. BufLen - 2 = 0
    BY <1>1
  <2>2. Power(10, BufLen - 2) = 1
    BY <2>1, PowerStep
  <2>3. Power(2, W) >= 2
    BY <1>2, <1>3
  <2> QED
    BY <1>3, <2>2, <2>3, BufferHoldsWords
<1> QED
  BY <1>1, <1>2, <1>3, <1>4, <1>5

\* The words passed to vga_printf, and what the conversions' buffer can be.
AllWords == 0..(Power(2, W) - 1)
Buffers == [0..(BufLen - 1) -> Characters]

\* The number that a directive prints, its base, and its size.
ValueOf(c, w) == IF c \in {"i", "h"} THEN Signed(w) ELSE w
BaseOf(c) == IF c \in {"h", "x"} THEN 16 ELSE 10
Size(z) == IF z < 0 THEN -z ELSE z

\* A number fits a word, and only a signed one can be negative.
LEMMA ValueRange ==
    ASSUME NEW c \in Numbers, NEW w \in AllWords
    PROVE  /\ ValueOf(c, w) \in Int /\ BaseOf(c) \in Bases
           /\ Size(ValueOf(c, w)) \in Nat /\ Size(ValueOf(c, w)) < Power(2, W)
           /\ Least \in Int /\ Least < 0
           /\ c \in {"u", "x"} => ValueOf(c, w) = w
<1> DEFINE H == Power(2, W - 1)
           F == Power(2, W)
<1>1. H \in Nat \ {0} /\ F \in Nat /\ F = 2 * H
  BY WordSizes
<1>2. w \in Nat /\ w < F
  BY <1>1 DEF AllWords
<1>3. Least = -H /\ Signed(w) = (IF w >= H THEN w - F ELSE w)
  BY DEF Least, Signed
<1> HIDE DEF H, F
<1>4. ValueOf(c, w) = Signed(w) \/ ValueOf(c, w) = w
  BY DEF ValueOf
<1>5. ValueOf(c, w) \in Int /\ Size(ValueOf(c, w)) \in Nat
      /\ Size(ValueOf(c, w)) < F
  <2>1. CASE ValueOf(c, w) = w
    BY <1>1, <1>2, <2>1 DEF Size
  <2>2. CASE ValueOf(c, w) = Signed(w)
    BY <1>1, <1>2, <1>3, <2>2 DEF Size
  <2> QED
    BY <1>4, <2>1, <2>2
<1>6. BaseOf(c) \in Bases
  BY DEF BaseOf, Bases
<1>7. c \in {"u", "x"} => ValueOf(c, w) = w
  BY DEF ValueOf
<1>8. Least \in Int /\ Least < 0
  BY <1>1, <1>3
<1> QED
  BY <1>5, <1>6, <1>7, <1>8 DEF F

\* A number has so many digits, one at least.
Digits(v, b, n) == v < Power(b, n) /\ (n = 1 \/ v >= Power(b, n - 1))

\* The digits of a word are W at most: no numeral is out of Numeral's reach.
LEMMA HasDigits ==
    ASSUME NEW v \in Nat, v < Power(2, W), NEW b \in Bases
    PROVE  \E n \in 1..(W + 1) : Digits(v, b, n)
<1> DEFINE S == {n \in Nat : n >= 1 /\ v < Power(b, n)}
<1>1. W \in Nat /\ W >= 1 /\ Power(2, W) \in Nat /\ b \in Nat \ {0}
      /\ Power(2, W) <= Power(b, W)
  BY WordSizes
<1>2. Power(b, W) \in Nat
  BY <1>1, PowerType
<1>3. W \in S
  BY <1>1, <1>2
<1>4. PICK n \in S : \A m \in S : n <= m
  BY <1>3, LeastOfNats
<1>5. n \in 1..(W + 1)
  BY <1>1, <1>3, <1>4
<1>6. n # 1 => v >= Power(b, n - 1)
  <2> SUFFICES ASSUME n # 1
               PROVE  v >= Power(b, n - 1)
    OBVIOUS
  <2>1. n - 1 \in Nat /\ n - 1 >= 1 /\ n - 1 < n
    BY <1>5
  <2>2. n - 1 \notin S
    BY <1>4, <2>1
  <2>3. Power(b, n - 1) \in Nat
    BY <1>1, <2>1, PowerType
  <2> QED
    BY <2>1, <2>2, <2>3
<1> QED
  BY <1>4, <1>5, <1>6 DEF Digits

\* It has not two lengths.
LEMMA OneLength ==
    ASSUME NEW v \in Nat, NEW b \in Bases, NEW n \in Nat, NEW m \in Nat, n >= 1,
           m > n,
           Digits(v, b, n)
    PROVE  ~Digits(v, b, m)
<1>1. b \in Nat \ {0}
  BY DEF Bases
<1>2. m - 1 \in Nat /\ n <= m - 1 /\ m # 1
  OBVIOUS
<1>3. Power(b, n) \in Nat /\ Power(b, m - 1) \in Nat
      /\ Power(b, n) <= Power(b, m - 1)
  BY <1>1, <1>2, PowerType, PowerGrows
<1>4. v < Power(b, n)
  BY DEF Digits
<1>5. ~(v >= Power(b, m - 1))
  BY <1>3, <1>4
<1> QED
  BY <1>2, <1>5 DEF Digits

\* So a numeral is what its length makes of it.
LEMMA NumeralIs ==
    ASSUME NEW v \in Nat, NEW b \in Bases, NEW n \in 1..(W + 1), Digits(v, b, n)
    PROVE  Numeral(v, b) = [k \in 1..n |-> Digit((v \div Power(b, n - k)) % b)]
<1> DEFINE m == CHOOSE k \in 1..(W + 1) : Digits(v, b, k)
<1>1. Numeral(v, b) = [k \in 1..m |-> Digit((v \div Power(b, m - k)) % b)]
  BY DEF Numeral, Digits
<1>2. m \in 1..(W + 1) /\ Digits(v, b, m)
  OBVIOUS
<1> HIDE DEF m
<1>3. n \in Nat /\ m \in Nat /\ n >= 1 /\ m >= 1
  BY <1>2, WordSizes
<1>4. m = n
  BY <1>2, <1>3, OneLength
<1> QED
  BY <1>1, <1>4

\* A numeral is printed with characters.
LEMMA NumeralType ==
    ASSUME NEW v \in Nat, v < Power(2, W), NEW b \in Bases
    PROVE  Numeral(v, b) \in Seq(Characters)
<1>1. PICK n \in 1..(W + 1) : Digits(v, b, n)
  BY HasDigits
<1>2. Numeral(v, b) = [k \in 1..n |-> Digit((v \div Power(b, n - k)) % b)]
  BY <1>1, NumeralIs
<1>3. n \in Nat
  BY WordSizes
<1>4. ASSUME NEW k \in 1..n
      PROVE  Digit((v \div Power(b, n - k)) % b) \in Characters
  <2>1. n - k \in Nat /\ b \in Nat \ {0}
    BY <1>3 DEF Bases
  <2>2. Power(b, n - k) \in Nat \ {0}
    BY <2>1, PowerType
  <2>3. v \div Power(b, n - k) \in Nat
    BY <2>2
  <2> QED
    BY <2>3, DigitOf
<1> QED
  BY <1>2, <1>3, <1>4

\* What the directive of a number prints: a minus and the numeral of its size.
LEMMA ConvertedIs ==
    ASSUME NEW c \in Numbers, NEW w \in AllWords
    PROVE  Converted(c, w) =
             IF ValueOf(c, w) < 0
             THEN <<"-">> \o Numeral(-ValueOf(c, w), BaseOf(c))
             ELSE Numeral(ValueOf(c, w), BaseOf(c))
<1>1. ~(w < 0)
  BY WordSizes DEF AllWords
<1>2. CASE c = "i"
  BY <1>2 DEF Converted, SignedNumeral, ValueOf, BaseOf
<1>3. CASE c = "h"
  BY <1>3 DEF Converted, SignedNumeral, ValueOf, BaseOf
<1>4. CASE c = "u"
  BY <1>1, <1>4 DEF Converted, SignedNumeral, ValueOf, BaseOf
<1>5. CASE c = "x"
  BY <1>1, <1>5 DEF Converted, SignedNumeral, ValueOf, BaseOf
<1> QED
  BY <1>2, <1>3, <1>4, <1>5 DEF Numbers

\* Every directive prints characters.
LEMMA ConvertedType ==
    ASSUME NEW c \in Directives, NEW w \in AllWords
    PROVE  Converted(c, w) \in Seq(Characters)
<1>1. CASE c \in Numbers
  <2> DEFINE z == ValueOf(c, w)
  <2>1. z \in Int /\ Size(z) \in Nat /\ Size(z) < Power(2, W) /\ BaseOf(c) \in Bases
    BY <1>1, ValueRange
  <2>2. Numeral(Size(z), BaseOf(c)) \in Seq(Characters)
    BY <2>1, NumeralType
  <2>3. Converted(c, w) = IF z < 0 THEN <<"-">> \o Numeral(Size(z), BaseOf(c))
                          ELSE Numeral(Size(z), BaseOf(c))
    BY <1>1, ConvertedIs DEF Size
  <2>4. <<"-">> \in Seq(Characters)
    BY DEF Characters
  <2> HIDE DEF z
  <2>5. <<"-">> \o Numeral(Size(z), BaseOf(c)) \in Seq(Characters)
    BY <2>2, <2>4
  <2> QED
    BY <2>2, <2>3, <2>5
<1>2. CASE c = "c"
  <2>1. w \in Nat /\ 16 \in Bases
    BY WordSizes DEF AllWords, Bases
  <2>2. Digit(w % 16) \in Characters
    BY <2>1, DigitOf
  <2>3. Converted(c, w) = <<Digit(w % 16)>>
    BY <1>2 DEF Converted, CharOf
  <2> QED
    BY <2>2, <2>3
<1>3. CASE c = "s"
  <2>1. w \in Nat /\ 16 \in Bases
    BY WordSizes DEF AllWords, Bases
  <2>2. Digit(w % 16) \in Characters /\ "s" \in Characters
    BY <2>1, DigitOf DEF Characters
  <2>3. Converted(c, w) = <<"s", Digit(w % 16)>>
    BY <1>3 DEF Converted, StringAt
  <2> QED
    BY <2>2, <2>3
<1>4. CASE c = "b"
  <2>1. "0" \in Characters /\ "1" \in Characters
    BY DEF Characters, Hex
  <2>2. Converted(c, w) = IF w % 256 = 0 THEN <<"0">> ELSE <<"1">>
    BY <1>4 DEF Converted
  <2> QED
    BY <2>1, <2>2
<1> QED
  BY <1>1, <1>2, <1>3, <1>4 DEF Directives
-----------------------------------------------------------------------------
(* The conversion of a number: the word w for the directive c.             *)

\* The loop has put the l lowest digits of the number in the buffer bf, and has
\* v of it left; the least int is left as it is.
InDigits(c, w, ba, v, neg, l, bf) ==
    LET z == ValueOf(c, w)
        E == Power(BaseOf(c), l)
    IN  /\ ba = BaseOf(c) /\ neg = (z < 0) /\ l \in 0..(BufLen - 2)
        /\ bf \in Buffers
        /\ z = Least => v = Least /\ l = 0
        /\ z # Least =>
            /\ Size(z) >= 1 /\ v = Size(z) \div E
            /\ l # 0 => Power(BaseOf(c), l - 1) <= Size(z)
            /\ \A j \in 0..(l - 1) :
                bf[j] = Digit((Size(z) \div Power(BaseOf(c), j)) % BaseOf(c))

\* The buffer holds n characters and a terminator.
Terminated(bf, n) == bf[n] = Nul /\ \A j \in 0..(n - 1) : bf[j] # Nul

\* The number is in the buffer; the least int is not what it should be.
InPrint(c, w, l, bf) ==
    /\ l \in 0..(BufLen - 1) /\ bf \in Buffers
    /\ \E n \in 1..(BufLen - 1) :
        /\ Terminated(bf, n)
        /\ ValueOf(c, w) # Least => [j \in 1..n |-> bf[j - 1]] = Converted(c, w)

\* Zero is in the buffer at once.
LEMMA ZeroStarts ==
    ASSUME NEW c \in Numbers, NEW w \in AllWords, NEW bf \in Buffers,
           ValueOf(c, w) = 0
    PROVE  InPrint(c, w, 0, [bf EXCEPT ![0] = "0", ![1] = Nul])
<1> DEFINE h == [bf EXCEPT ![0] = "0", ![1] = Nul]
           b == BaseOf(c)
<1>1. BufLen \in Nat /\ BufLen >= 3 /\ W \in Nat /\ W >= 1
  BY WordSizes
<1>2. b \in Bases /\ b \in Nat \ {0}
  BY ValueRange DEF Bases
<1>3. "0" \in Characters /\ Nul \in Characters /\ Nul # "0"
  BY DEF Characters, Hex, Nul
<1>4. h \in Buffers /\ h[0] = "0" /\ h[1] = Nul
  BY <1>1, <1>3 DEF Buffers
<1>5. Converted(c, w) = <<"0">>
  <2>1. Converted(c, w) = Numeral(0, b)
    BY ConvertedIs
  <2>2. Power(b, 0) = 1 /\ Power(b, 0 + 1) = b * Power(b, 0)
    BY <1>2, PowerStep
  <2>3. Power(b, 1) = b
    BY <1>2, <2>2
  <2>4. Digits(0, b, 1)
    BY <1>2, <2>3 DEF Digits
  <2>5. 1 \in 1..(W + 1)
    BY <1>1
  <2>6. Numeral(0, b) = [k \in 1..1 |-> Digit((0 \div Power(b, 1 - k)) % b)]
    <3>1. 0 \in Nat
      OBVIOUS
    <3> HIDE DEF b
    <3> QED
      BY <1>2, <2>4, <2>5, <3>1, NumeralIs
  <2>7. \A k \in 1..1 : (0 \div Power(b, 1 - k)) % b = 0
    <3>1. \A k \in 1..1 : 1 - k = 0
      OBVIOUS
    <3>2. (0 \div 1) % b = 0
      BY <1>2
    <3> QED
      BY <2>2, <3>1, <3>2
  <2>8. Digit(0) = "0"
    BY DEF Digit
  <2> HIDE DEF b
  <2>9. Numeral(0, b) = [k \in 1..1 |-> "0"]
    BY <2>6, <2>7, <2>8
  <2>10. [k \in 1..1 |-> "0"] = <<"0">>
    OBVIOUS
  <2> QED
    BY <2>1, <2>9, <2>10
<1> HIDE DEF h
<1>6. [j \in 1..1 |-> h[j - 1]] = <<"0">>
  BY <1>4
<1>7. Terminated(h, 1) /\ 1 \in 1..(BufLen - 1) /\ 0 \in 0..(BufLen - 1)
  BY <1>1, <1>3, <1>4 DEF Terminated
<1>8. InPrint(c, w, 0, h)
  BY <1>4, <1>5, <1>6, <1>7 DEF InPrint
<1> QED
  BY <1>8 DEF h

\* Another number has none of its digits in the buffer yet.
LEMMA DigitsStart ==
    ASSUME NEW c \in Numbers, NEW w \in AllWords, NEW bf \in Buffers,
           NEW z, z = ValueOf(c, w),
           NEW v, v = (IF z < 0 THEN Negated(z) ELSE z), v # 0
    PROVE  InDigits(c, w, BaseOf(c), v, z < 0, 0, bf)
<1>1. z \in Int /\ Size(z) \in Nat /\ Least \in Int /\ Least < 0
      /\ BaseOf(c) \in Bases
  BY ValueRange
<1>2. 0 \in 0..(BufLen - 2)
  BY WordSizes
<1>3. Power(BaseOf(c), 0) = 1
  BY PowerStep
<1>4. z = Least => v = Least
  BY <1>1 DEF Negated
<1>5. z # Least => v = Size(z)
  BY <1>1 DEF Negated, Size
<1>6. z # Least => Size(z) >= 1 /\ v = Size(z) \div Power(BaseOf(c), 0)
  <2>1. Size(z) \div 1 = Size(z)
    BY <1>1
  <2> QED
    BY <1>1, <1>3, <1>5, <2>1
<1>7. \A j \in 0..(0 - 1) : FALSE
  OBVIOUS
<1> QED
  BY <1>2, <1>4, <1>6, <1>7 DEF InDigits

\* One digit more is put; there is place for it.
LEMMA DigitPut ==
    ASSUME NEW c \in Numbers, NEW w \in AllWords, NEW ba, NEW v, NEW neg, NEW l,
           NEW bf,
           InDigits(c, w, ba, v, neg, l, bf), v > 0
    PROVE  InDigits(c, w, ba, v \div ba, neg, l + 1,
                    [bf EXCEPT ![l] = Digit(v % ba)])
<1> DEFINE z == ValueOf(c, w)
           b == BaseOf(c)
           E == Power(b, l)
           h == [bf EXCEPT ![l] = Digit(v % ba)]
<1>1. z \in Int /\ Size(z) \in Nat /\ Least \in Int /\ Least < 0 /\ b \in Bases
      /\ Size(z) < Power(2, W)
  BY ValueRange
<1>2. b \in Nat \ {0} /\ BufLen - 2 \in Nat /\ Power(2, W) \in Nat
      /\ Power(2, W) <= Power(b, BufLen - 2)
  BY <1>1, WordSizes DEF Bases
<1>3. /\ ba = b /\ neg = (z < 0) /\ l \in 0..(BufLen - 2) /\ bf \in Buffers
      /\ z = Least => v = Least
      /\ z # Least =>
            /\ Size(z) >= 1 /\ v = Size(z) \div E
            /\ \A j \in 0..(l - 1) : bf[j] = Digit((Size(z) \div Power(b, j)) % b)
  BY DEF InDigits
<1>4. z # Least
  BY <1>1, <1>3
<1> HIDE DEF z, b
<1>5. l \in Nat /\ E \in Nat \ {0} /\ v = Size(z) \div E
  <2>1. l \in Nat
    BY <1>2, <1>3
  <2>2. E \in Nat \ {0}
    BY <1>2, <2>1, PowerType
  <2> QED
    BY <1>3, <1>4, <2>1, <2>2
<1> HIDE DEF E
<1>6. v \in Nat
  BY <1>1, <1>5
<1>7. E <= Size(z)
  <2> SUFFICES ASSUME ~(E <= Size(z))
               PROVE  FALSE
    OBVIOUS
  <2>1. Size(z) \in 0..(E - 1)
    BY <1>1, <1>5
  <2>2. Size(z) \div E = 0
    BY <1>5, <2>1
  <2> QED
    BY <1>5, <2>2
<1>8. l + 1 \in 0..(BufLen - 2)
  <2> SUFFICES ASSUME ~(l + 1 <= BufLen - 2)
               PROVE  FALSE
    BY <1>2, <1>5
  <2>1. BufLen - 2 <= l
    BY <1>2, <1>5
  <2>2. Power(b, BufLen - 2) <= E /\ Power(b, BufLen - 2) \in Nat
    BY <1>2, <1>5, <2>1, PowerGrows, PowerType DEF E
  <2> QED
    BY <1>1, <1>2, <1>5, <1>7, <2>2
<1>9. Digit(v % ba) \in Characters
  BY <1>1, <1>3, <1>6, DigitOf
<1>10. BufLen \in Nat /\ l \in 0..(BufLen - 1)
  <2>1. BufLen \in Nat
    BY WordSizes
  <2>2. l <= BufLen - 2
    BY <1>3
  <2> QED
    BY <1>5, <2>1, <2>2
<1>11. h \in Buffers /\ h[l] = Digit(v % ba) /\ \A j \in 0..(l - 1) : h[j] = bf[j]
  <2>1. \A j \in 0..(l - 1) : j # l /\ j \in 0..(BufLen - 1)
    BY <1>5, <1>10
  <2> QED
    BY <1>3, <1>9, <1>10, <2>1 DEF Buffers
<1>12. v \div ba = Size(z) \div Power(b, l + 1)
  <2>1. Power(b, l + 1) = b * E
    BY <1>5, PowerStep DEF E
  <2>2. (Size(z) \div E) \div b = Size(z) \div (b * E)
    BY <1>1, <1>2, <1>5, DivDiv
  <2> QED
    BY <1>3, <1>5, <2>1, <2>2
<1>13. ASSUME NEW j \in 0..((l + 1) - 1)
       PROVE  h[j] = Digit((Size(z) \div Power(b, j)) % b)
  <2>1. CASE j = l
    BY <1>3, <1>5, <1>11, <2>1 DEF E
  <2>2. CASE j # l
    <3>1. j \in 0..(l - 1)
      BY <1>5, <2>2
    <3> QED
      BY <1>3, <1>4, <1>11, <3>1
  <2> QED
    BY <2>1, <2>2
<1>14. (l + 1) - 1 = l /\ Power(b, (l + 1) - 1) <= Size(z)
  BY <1>5, <1>7 DEF E
<1> HIDE DEF h
<1>15. InDigits(c, w, ba, v \div ba, neg, l + 1, h)
  BY <1>3, <1>4, <1>8, <1>11, <1>12, <1>13, <1>14 DEF InDigits, z, b
<1> QED
  BY <1>15 DEF h

\* What is before the terminator is reversed, and the rest is kept.
LEMMA ReversedIs ==
    ASSUME NEW bf \in Buffers, NEW n \in 0..(BufLen - 1)
    PROVE  /\ Reversed(bf, n) \in Buffers
           /\ \A j \in 0..(n - 1) : Reversed(bf, n)[j] = bf[n - j - 1]
           /\ Reversed(bf, n)[n] = bf[n]
<1>1. BufLen \in Nat /\ n \in Nat /\ n <= BufLen - 1
  BY WordSizes
<1>2. DOMAIN bf = 0..(BufLen - 1) /\ \A j \in 0..(BufLen - 1) : bf[j] \in Characters
  BY DEF Buffers
<1>3. \A j \in 0..(BufLen - 1) : j < n => n - j - 1 \in 0..(BufLen - 1)
  BY <1>1
<1>4. Reversed(bf, n) =
        [j \in 0..(BufLen - 1) |-> IF j < n THEN bf[n - j - 1] ELSE bf[j]]
  BY <1>2 DEF Reversed
<1>5. \A j \in 0..(BufLen - 1) :
        (IF j < n THEN bf[n - j - 1] ELSE bf[j]) \in Characters
  BY <1>2, <1>3
<1>6. \A j \in 0..(n - 1) : j < n /\ j \in 0..(BufLen - 1)
  BY <1>1
<1>7. ~(n < n)
  BY <1>1
<1> QED
  BY <1>4, <1>5, <1>6, <1>7 DEF Buffers

\* Reversing what is before the terminator leaves it and them what they are.
LEMMA ReversedEnds ==
    ASSUME NEW bf \in Buffers, NEW n \in 0..(BufLen - 1), Terminated(bf, n)
    PROVE  Terminated(Reversed(bf, n), n)
<1>1. n \in Nat
  BY WordSizes
<1>2. \A j \in 0..(n - 1) : n - j - 1 \in 0..(n - 1)
  BY <1>1
<1> QED
  BY <1>2, ReversedIs DEF Terminated

\* The least int: nothing but its sign.
LEMMA LeastFinishes ==
    ASSUME NEW c \in Numbers, NEW w \in AllWords, NEW bf \in Buffers,
           ValueOf(c, w) = Least, NEW signed, signed = [bf EXCEPT ![0] = "-"]
    PROVE  InPrint(c, w, 1, Reversed([signed EXCEPT ![1] = Nul], 1))
<1> DEFINE g == [signed EXCEPT ![1] = Nul]
<1>1. BufLen \in Nat /\ BufLen >= 3
  BY WordSizes
<1>2. "-" \in Characters /\ Nul \in Characters /\ Nul # "-"
  BY DEF Characters, Nul
<1>3. g \in Buffers /\ g[0] = "-" /\ g[1] = Nul
  BY <1>1, <1>2 DEF Buffers
<1> HIDE DEF g
<1>4. Terminated(g, 1)
  BY <1>2, <1>3 DEF Terminated
<1>5. 1 \in 1..(BufLen - 1) /\ 1 \in 0..(BufLen - 1)
  BY <1>1
<1>6. Terminated(Reversed(g, 1), 1) /\ Reversed(g, 1) \in Buffers
  BY <1>3, <1>4, <1>5, ReversedIs, ReversedEnds
<1>7. InPrint(c, w, 1, Reversed(g, 1))
  BY <1>5, <1>6 DEF InPrint
<1> QED
  BY <1>7 DEF g

\* When nothing is left of a number, all its digits are in the buffer.
LEMMA AllDigits ==
    ASSUME NEW c \in Numbers, NEW w \in AllWords, NEW ba, NEW v, NEW neg, NEW l,
           NEW bf,
           InDigits(c, w, ba, v, neg, l, bf), ~(v > 0), ValueOf(c, w) # Least
    PROVE  /\ l \in Nat /\ l >= 1 /\ l \in 1..(W + 1)
           /\ Digits(Size(ValueOf(c, w)), BaseOf(c), l)
<1> DEFINE z == ValueOf(c, w)
           b == BaseOf(c)
           E == Power(b, l)
<1>1. z \in Int /\ Size(z) \in Nat /\ b \in Bases /\ Size(z) < Power(2, W)
  BY ValueRange
<1>2. b \in Nat \ {0} /\ BufLen \in Nat /\ Power(2, W) \in Nat /\ W \in Nat
      /\ Power(2, W) <= Power(b, W)
  BY <1>1, WordSizes DEF Bases
<1>3. /\ l \in 0..(BufLen - 2) /\ Size(z) >= 1 /\ v = Size(z) \div E
      /\ l # 0 => Power(b, l - 1) <= Size(z)
  BY DEF InDigits
<1> HIDE DEF z, b
<1>4. l \in Nat
  BY <1>2, <1>3
<1>5. E \in Nat \ {0}
  BY <1>2, <1>4, PowerType
<1>6. Size(z) < E
  <2> SUFFICES ASSUME Size(z) >= E
               PROVE  FALSE
    BY <1>1, <1>5
  <2> HIDE DEF E
  <2>1. Size(z) \div E >= 1
    BY <1>1, <1>5
  <2> QED
    BY <1>1, <1>3, <1>5, <2>1
<1>7. l # 0
  <2> SUFFICES ASSUME l = 0
               PROVE  FALSE
    OBVIOUS
  <2>1. E = 1
    BY PowerStep
  <2> QED
    BY <1>1, <1>3, <1>6, <2>1
<1>8. l >= 1 /\ l - 1 \in Nat
  BY <1>4, <1>7
<1>9. l <= W + 1
  <2> SUFFICES ASSUME ~(l <= W + 1)
               PROVE  FALSE
    OBVIOUS
  <2>1. W <= l - 1
    <3>1. W \in Nat
      BY <1>2
    <3> QED
      BY <1>4, <3>1
  <2>2. Power(b, W) <= Power(b, l - 1) /\ Power(b, W) \in Nat
        /\ Power(b, l - 1) \in Nat
    BY <1>2, <1>8, <2>1, PowerGrows, PowerType
  <2> QED
    BY <1>1, <1>2, <1>3, <1>7, <2>2
<1>10. Digits(Size(z), b, l)
  BY <1>1, <1>3, <1>6, <1>7, <1>5, <1>8 DEF Digits
<1> QED
  BY <1>2, <1>4, <1>8, <1>9, <1>10 DEF z, b

\* A minus before a numeral.
LEMMA MinusBefore ==
    ASSUME NEW m \in Nat, NEW s \in [1..m -> Characters], NEW g,
           g[m] = "-", \A j \in 1..m : g[m - j] = s[j]
    PROVE  [j \in 1..(m + 1) |-> g[(m + 1) - j]] = <<"-">> \o s
<1>1. s \in Seq(Characters) /\ Len(s) = m /\ <<"-">> \in Seq({"-"})
      /\ Len(<<"-">>) = 1
  OBVIOUS
<1>2. <<"-">> \o s = [j \in 1..(1 + m) |-> IF j <= 1 THEN <<"-">>[j] ELSE s[j - 1]]
  BY <1>1
<1>3. 1 + m = m + 1
  OBVIOUS
<1>4. ASSUME NEW j \in 1..(m + 1)
      PROVE  g[(m + 1) - j] = IF j <= 1 THEN <<"-">>[j] ELSE s[j - 1]
  <2>1. CASE j = 1
    <3>1. (m + 1) - j = m /\ <<"-">>[j] = "-" /\ j <= 1
      BY <2>1
    <3> QED
      BY <3>1
  <2>2. CASE j # 1
    <3>1. j - 1 \in 1..m /\ ~(j <= 1) /\ m - (j - 1) = (m + 1) - j
      BY <2>2
    <3> QED
      BY <3>1
  <2> QED
    BY <2>1, <2>2
<1> QED
  BY <1>2, <1>3, <1>4

\* A number that is not the least int.
LEMMA NumberFinishes ==
    ASSUME NEW c \in Numbers, NEW w \in AllWords, NEW ba, NEW v, NEW neg, NEW l,
           NEW bf,
           InDigits(c, w, ba, v, neg, l, bf), ~(v > 0), ValueOf(c, w) # Least,
           NEW n, n = (IF neg THEN l + 1 ELSE l),
           NEW signed, signed = (IF neg THEN [bf EXCEPT ![l] = "-"] ELSE bf)
    PROVE  InPrint(c, w, n, Reversed([signed EXCEPT ![n] = Nul], n))
<1> DEFINE z == ValueOf(c, w)
           b == BaseOf(c)
           s == [j \in 1..l |-> Digit((Size(z) \div Power(b, l - j)) % b)]
           g == [signed EXCEPT ![n] = Nul]
           h == Reversed(g, n)
<1>1. z \in Int /\ Size(z) \in Nat /\ b \in Bases /\ Size(z) < Power(2, W)
  BY ValueRange
<1>2. l \in Nat /\ l >= 1 /\ l \in 1..(W + 1) /\ Digits(Size(z), b, l)
  BY AllDigits
<1>3. Numeral(Size(z), b) = s
  BY <1>1, <1>2, NumeralIs
<1>4. /\ neg = (z < 0) /\ l \in 0..(BufLen - 2) /\ bf \in Buffers
      /\ \A j \in 0..(l - 1) : bf[j] = Digit((Size(z) \div Power(b, j)) % b)
  BY DEF InDigits
<1>5. BufLen \in Nat /\ BufLen >= 3 /\ b \in Nat \ {0}
  BY <1>1, WordSizes DEF Bases
<1>6. Converted(c, w) = IF neg THEN <<"-">> \o s ELSE s
  BY <1>1, <1>3, <1>4, ConvertedIs DEF Size
<1> HIDE DEF z, b
<1>7. ASSUME NEW j \in 0..(l - 1)
      PROVE  bf[j] \in Characters /\ bf[j] # Nul
  <2>1. j \in Nat
    BY <1>2
  <2>2. Power(b, j) \in Nat \ {0}
    BY <1>5, <2>1, PowerType
  <2>3. Size(z) \div Power(b, j) \in Nat
    BY <1>1, <2>2
  <2> QED
    BY <1>1, <1>4, <2>3, DigitOf
<1>8. ASSUME NEW j \in 1..l
      PROVE  s[j] = bf[l - j] /\ s[j] \in Characters
  <2>1. l - j \in 0..(l - 1)
    BY <1>2
  <2> QED
    BY <1>4, <1>7, <2>1
<1>9. s \in [1..l -> Characters]
  BY <1>8
<1> HIDE DEF s
<1>10. n \in Nat /\ n \in 1..(BufLen - 1) /\ n \in 0..(BufLen - 1)
       /\ l \in 0..(BufLen - 1)
  BY <1>2, <1>4, <1>5
<1>11. "-" \in Characters /\ Nul \in Characters /\ Nul # "-"
  BY DEF Characters, Nul
<1>12. signed \in Buffers /\ (neg => signed[l] = "-")
       /\ \A j \in 0..(l - 1) : signed[j] = bf[j]
  <2>1. \A j \in 0..(l - 1) : j # l /\ j \in 0..(BufLen - 1)
    BY <1>2, <1>5, <1>10
  <2>2. [bf EXCEPT ![l] = "-"] \in Buffers /\ [bf EXCEPT ![l] = "-"][l] = "-"
        /\ \A j \in 0..(l - 1) : [bf EXCEPT ![l] = "-"][j] = bf[j]
    BY <1>4, <1>10, <1>11, <2>1 DEF Buffers
  <2>3. CASE neg
    BY <2>2, <2>3
  <2>4. CASE ~neg
    BY <1>4, <2>4
  <2> QED
    BY <2>3, <2>4
<1>13. g \in Buffers /\ g[n] = Nul /\ \A j \in 0..(n - 1) : g[j] = signed[j]
  <2>1. \A j \in 0..(n - 1) : j # n /\ j \in 0..(BufLen - 1)
    BY <1>5, <1>10
  <2> QED
    BY <1>10, <1>11, <1>12, <2>1 DEF Buffers, g
<1> HIDE DEF g
<1>14. Terminated(g, n)
  <2>1. ASSUME NEW j \in 0..(n - 1)
        PROVE  g[j] # Nul
    <3>1. j \in 0..(l - 1) \/ (neg /\ j = l)
      BY <1>2, <1>10
    <3> QED
      BY <1>7, <1>11, <1>12, <1>13, <3>1
  <2> QED
    BY <1>13, <2>1 DEF Terminated
<1>15. h \in Buffers /\ Terminated(h, n)
       /\ \A j \in 0..(n - 1) : h[j] = g[n - j - 1]
  BY <1>10, <1>13, <1>14, ReversedIs, ReversedEnds
<1> HIDE DEF h
<1>16. [j \in 1..n |-> h[j - 1]] = [j \in 1..n |-> g[n - j]]
  <2>1. \A j \in 1..n : j - 1 \in 0..(n - 1) /\ n - (j - 1) - 1 = n - j
    BY <1>10
  <2> QED
    BY <1>15, <2>1
<1>17. \A j \in 1..l : g[l - j] = s[j]
  <2>1. \A j \in 1..l : l - j \in 0..(l - 1) /\ l - j \in 0..(n - 1)
    BY <1>2
  <2> QED
    BY <1>8, <1>12, <1>13, <2>1
<1>18. [j \in 1..n |-> g[n - j]] = Converted(c, w)
  <2>1. CASE neg
    <3>1. n = l + 1 /\ g[l] = "-"
      <4>1. n = l + 1 /\ l \in 0..(n - 1)
        BY <1>2, <2>1
      <4> QED
        BY <1>12, <1>13, <2>1, <4>1
    <3>2. [j \in 1..(l + 1) |-> g[(l + 1) - j]] = <<"-">> \o s
      BY <1>2, <1>9, <1>17, <3>1, MinusBefore
    <3> QED
      BY <1>6, <2>1, <3>1, <3>2
  <2>2. CASE ~neg
    <3>1. n = l
      BY <2>2
    <3>2. [j \in 1..l |-> g[l - j]] = s
      BY <1>9, <1>17
    <3> QED
      BY <1>6, <2>2, <3>1, <3>2
  <2> QED
    BY <2>1, <2>2
<1>19. InPrint(c, w, n, h)
  BY <1>10, <1>15, <1>16, <1>18 DEF InPrint
<1> QED
  BY <1>19 DEF g, h

\* The conversion of a number finishes.
LEMMA Finishes ==
    ASSUME NEW c \in Numbers, NEW w \in AllWords, NEW ba, NEW v, NEW neg, NEW l,
           NEW bf,
           InDigits(c, w, ba, v, neg, l, bf), ~(v > 0),
           NEW n, n = (IF neg THEN l + 1 ELSE l),
           NEW signed, signed = (IF neg THEN [bf EXCEPT ![l] = "-"] ELSE bf)
    PROVE  InPrint(c, w, n, Reversed([signed EXCEPT ![n] = Nul], n))
<1>1. CASE ValueOf(c, w) # Least
  BY <1>1, NumberFinishes
<1>2. CASE ValueOf(c, w) = Least
  <2>1. Least \in Int /\ Least < 0
    BY ValueRange
  <2>2. neg = (ValueOf(c, w) < 0) /\ l = 0 /\ bf \in Buffers
    BY <1>2 DEF InDigits
  <2>3. n = 1 /\ signed = [bf EXCEPT ![0] = "-"]
    <3>1. neg
      BY <1>2, <2>1, <2>2
    <3>2. l + 1 = 1 /\ l = 0
      BY <2>2
    <3>3. n = l + 1 /\ signed = [bf EXCEPT ![l] = "-"]
      BY <3>1
    <3> QED
      BY <3>2, <3>3
  <2>4. InPrint(c, w, 1, Reversed([signed EXCEPT ![1] = Nul], 1))
    BY <1>2, <2>2, <2>3, LeastFinishes
  <2> QED
    BY <2>3, <2>4
<1> QED
  BY <1>1, <1>2
-----------------------------------------------------------------------------
(* The walk over the format.                                               *)

\* The directives among the first j characters of a format, and what each
\* character of it prints: the letter of a directive its argument, the % nothing.
Taken(f, j) == Cardinality(Letters(f) \cap 1..j)
Piece(f, a, j) ==
    IF j \in Letters(f) THEN Converted(f[j], a[Taken(f, j)])
    ELSE IF j + 1 \in Letters(f) THEN <<>> ELSE <<f[j]>>
Pieces(f, a) == [j \in 1..Len(f) |-> Piece(f, a, j)]

\* Between the letters of two directives there is a %.
LEMMA LettersApart ==
    ASSUME NEW f \in Formats
    PROVE  /\ Len(f) \in Nat /\ Letters(f) \subseteq 1..Len(f)
           /\ 1 \notin Letters(f)
           /\ Len(f) + 1 \notin Letters(f)
           /\ \A j \in Letters(f) : f[j] \in Directives /\ j + 1 \notin Letters(f)
<1>1. f \in Seq(STRING) /\ Len(f) \in Nat
  BY PrintfAssumption
<1>2. ASSUME NEW j \in Letters(f)
      PROVE  j \in 1..Len(f) /\ j # 1 /\ j # Len(f) + 1 /\ f[j] \in Directives
  BY <1>1 DEF Letters
<1>3. ASSUME NEW j \in Letters(f)
      PROVE  j + 1 \notin Letters(f)
  <2>1. f[j] # "%"
    BY <1>2 DEF Directives, Numbers
  <2>2. (j + 1) - 1 = j
    BY <1>1, <1>2
  <2> QED
    BY <2>1, <2>2 DEF Letters
<1> QED
  BY <1>1, <1>2, <1>3

\* The directives are counted one at a time.
LEMMA TakenStep ==
    ASSUME NEW f \in Formats, NEW j \in Nat
    PROVE  /\ Taken(f, j) \in Nat
           /\ j + 1 \in Letters(f) => Taken(f, j + 1) = Taken(f, j) + 1
           /\ j + 1 \notin Letters(f) => Taken(f, j + 1) = Taken(f, j)
<1> DEFINE S == Letters(f) \cap 1..j
           T == Letters(f) \cap 1..(j + 1)
<1>1. IsFiniteSet(S)
  <2>1. IsFiniteSet(1..j)
    BY FS_Interval
  <2> QED
    BY <2>1, FS_Subset
<1>2. Cardinality(S) \in Nat
  BY <1>1, FS_CardinalityType
<1>3. 1..(j + 1) = 1..j \cup {j + 1} /\ j + 1 \notin 1..j
  OBVIOUS
<1>4. j + 1 \in Letters(f) => T = S \cup {j + 1} /\ j + 1 \notin S
  BY <1>3
<1>5. j + 1 \notin Letters(f) => T = S
  BY <1>3
<1> HIDE DEF S, T
<1>6. j + 1 \notin S => Cardinality(S \cup {j + 1}) = Cardinality(S) + 1
  BY <1>1, FS_AddElement
<1>7. Taken(f, j) = Cardinality(S) /\ Taken(f, j + 1) = Cardinality(T)
  BY DEF Taken, S, T
<1> QED
  BY <1>2, <1>4, <1>5, <1>6, <1>7

\* No directive is counted before the format begins.
LEMMA TakenNone ==
    ASSUME NEW f
    PROVE  Taken(f, 0) = 0
<1>1. Letters(f) \cap 1..0 = {}
  OBVIOUS
<1> QED
  BY <1>1, FS_EmptySet DEF Taken

\* Every directive has an argument.
LEMMA HasArgument ==
    ASSUME NEW f \in Formats, NEW a \in Args, NEW j \in Letters(f)
    PROVE  Taken(f, j) \in 1..Len(a) /\ a[Taken(f, j)] \in AllWords
<1>1. j \in Nat /\ j - 1 \in Nat /\ (j - 1) + 1 = j /\ Len(f) \in Nat
  BY LettersApart
<1>2. Taken(f, j - 1) \in Nat /\ Taken(f, j) = Taken(f, j - 1) + 1
  BY <1>1, TakenStep
<1>3. IsFiniteSet(Letters(f))
  <2>1. IsFiniteSet(1..Len(f))
    BY <1>1, FS_Interval
  <2> QED
    BY <2>1, FS_Subset, LettersApart
<1>4. Taken(f, j) <= Cardinality(Letters(f)) /\ Cardinality(Letters(f)) \in Nat
  BY <1>3, FS_Subset, FS_CardinalityType DEF Taken
<1>5. a \in Seq(AllWords)
  BY PrintfAssumption DEF AllWords
<1>6. Cardinality(Letters(f)) <= Len(a) /\ Len(a) \in Nat
  BY <1>5, DirectivesHaveArguments
<1>7. Taken(f, j) \in 1..Len(a)
  BY <1>2, <1>4, <1>6
<1> QED
  BY <1>5, <1>7

\* What a character of the format prints.
LEMMA PieceType ==
    ASSUME NEW f \in Formats, NEW a \in Args, NEW j \in 1..Len(f)
    PROVE  Piece(f, a, j) \in Seq(Characters)
<1>1. CASE j \in Letters(f)
  <2>1. f[j] \in Directives /\ a[Taken(f, j)] \in AllWords
    BY <1>1, LettersApart, HasArgument
  <2>2. Piece(f, a, j) = Converted(f[j], a[Taken(f, j)])
    BY <1>1 DEF Piece
  <2> QED
    BY <2>1, <2>2, ConvertedType
<1>2. CASE j \notin Letters(f) /\ j + 1 \in Letters(f)
  <2>1. Piece(f, a, j) = <<>>
    BY <1>2 DEF Piece
  <2> QED
    BY <2>1
<1>3. CASE j \notin Letters(f) /\ j + 1 \notin Letters(f)
  <2>1. Piece(f, a, j) = <<f[j]>>
    BY <1>3 DEF Piece
  <2>2. f[j] \in Characters
    BY PrintfAssumption DEF Characters
  <2> QED
    BY <2>1, <2>2
<1> QED
  BY <1>1, <1>2, <1>3

\* What the first characters of a format print.
Prints(f, a, j) == Flat(Pieces(f, a), j)

\* They print what the ones before print, and then what the last one does.
LEMMA PrintsMore ==
    ASSUME NEW f \in Formats, NEW a \in Args
    PROVE  /\ Prints(f, a, 0) = <<>>
           /\ \A k \in 1..Len(f) :
                /\ Prints(f, a, k) = Prints(f, a, k - 1) \o Piece(f, a, k)
                /\ Piece(f, a, k) = <<>> =>
                     Prints(f, a, k) = Prints(f, a, k - 1)
<1> DEFINE P == Pieces(f, a)
<1>1. Len(f) \in Nat
  BY LettersApart
<1>2. \A j \in 1..Len(f) :
          P[j] = Piece(f, a, j) /\ Piece(f, a, j) \in Seq(Characters)
  BY PieceType DEF Pieces
<1>3. P = [j \in 1..Len(f) |-> P[j]]
  BY DEF Pieces
<1> HIDE DEF P
<1>4. P \in Seq(Seq(Characters)) /\ Len(P) = Len(f)
  BY <1>1, <1>2, <1>3
<1>5. Flat(P, 0) = <<>>
  BY DEF Flat
<1>6. ASSUME NEW k \in 1..Len(f)
      PROVE  /\ Flat(P, k) = Flat(P, k - 1) \o Piece(f, a, k)
             /\ Piece(f, a, k) = <<>> => Flat(P, k) = Flat(P, k - 1)
  <2>1. k - 1 \in Nat /\ (k - 1) + 1 = k /\ k - 1 \in 0..Len(P)
    BY <1>1, <1>4
  <2>2. P[(k - 1) + 1] \in Seq(Characters) /\ P[(k - 1) + 1] = Piece(f, a, k)
    BY <1>2, <2>1
  <2>3. Flat(P, (k - 1) + 1) = Flat(P, k - 1) \o P[(k - 1) + 1]
    BY <2>1, <2>2, FlatStep
  <2>4. Flat(P, k - 1) \in Seq(Characters)
    BY <1>4, <2>1, FlatType
  <2>5. Flat(P, k) = Flat(P, k - 1) \o Piece(f, a, k)
    BY <2>1, <2>2, <2>3
  <2>6. Flat(P, k - 1) \o <<>> = Flat(P, k - 1)
    BY <2>4
  <2> QED
    BY <2>5, <2>6
<1> QED
  BY <1>5, <1>6 DEF Prints, P

\* A format prints what it is expected to.
LEMMA PrintsAll ==
    ASSUME fmt \in Formats, args \in Args
    PROVE  Expected = Prints(fmt, args, Len(fmt))
<1> DEFINE P == Pieces(fmt, args)
<1>1. Len(fmt) \in Nat
  BY LettersApart
<1>2. \A j \in 1..Len(fmt) : P[j] = Piece(fmt, args, j)
                             /\ Piece(fmt, args, j) \in Seq(Characters)
  BY PieceType DEF Pieces
<1>3. P = [j \in 1..Len(fmt) |-> P[j]]
  BY DEF Pieces
<1>4. Expected = FlattenSeq(P)
  BY DEF Expected, Pieces, Piece, ArgumentOf, Taken
<1> HIDE DEF P
<1>5. P \in Seq(Seq(Characters)) /\ Len(P) = Len(fmt)
  BY <1>1, <1>2, <1>3
<1>6. FlattenSeq(P) = Flat(P, Len(P))
  BY <1>5, FlattenIs
<1> QED
  BY <1>4, <1>5, <1>6 DEF Prints, P

\* A terminated buffer has one length.
LEMMA StrLenIs ==
    ASSUME buf \in Buffers, NEW n \in 1..(BufLen - 1), Terminated(buf, n)
    PROVE  StrLen = n
<1>1. BufLen \in Nat
  BY WordSizes
<1>2. DOMAIN buf = 0..(BufLen - 1) /\ n \in DOMAIN buf
  BY <1>1 DEF Buffers
<1>3. StrLen = CHOOSE m \in DOMAIN buf : Terminated(buf, m)
  BY DEF StrLen, Terminated
<1> DEFINE m == CHOOSE m \in DOMAIN buf : Terminated(buf, m)
<1>4. m \in DOMAIN buf /\ Terminated(buf, m)
  BY <1>2
<1> HIDE DEF m
<1>5. n \in Nat /\ m \in Nat
  BY <1>1, <1>2, <1>4
<1>6. ~(m < n)
  <2>1. m < n => m \in 0..(n - 1)
    BY <1>5
  <2> QED
    BY <1>4, <2>1 DEF Terminated
<1>7. ~(n < m)
  <2>1. n < m => n \in 0..(m - 1)
    BY <1>5
  <2> QED
    BY <1>4, <2>1 DEF Terminated
<1>8. m = n
  BY <1>5, <1>6, <1>7
<1> QED
  BY <1>3, <1>8 DEF m
-----------------------------------------------------------------------------
(* The invariant.                                                          *)

\* Between two characters of the format, or at the letter of a number.
AtCharacter ==
    step = "walk" =>
        /\ i \in 1..(Len(fmt) + 1) /\ i \notin Letters(fmt)
        /\ arg = Taken(fmt, i - 1)
AtNumber ==
    step # "walk" =>
        i \in Letters(fmt) /\ fmt[i] \in Numbers /\ arg = Taken(fmt, i)

\* What has been printed, and the state of a number's conversion.
PrintedSoFar == ~LeastPrinted => out = Prints(fmt, args, i - 1)
ConvertedSoFar ==
    /\ step = "digits" =>
         InDigits(fmt[i], args[arg], base, value, negative, len, buf)
    /\ step = "print" => InPrint(fmt[i], args[arg], len, buf)

\* All of it, with what the call and the buffer are.
PrintfInv ==
    /\ fmt \in Formats /\ args \in Args /\ buf \in Buffers
    /\ step \in {"walk", "digits", "print"}
    /\ AtCharacter /\ AtNumber /\ PrintedSoFar /\ ConvertedSoFar

\* Init establishes the invariant.
LEMMA PrintfInitInv == Init => PrintfInv
<1> SUFFICES ASSUME Init
             PROVE  PrintfInv
  OBVIOUS
<1>1. fmt \in Formats /\ args \in Args /\ i = 1 /\ arg = 0 /\ step = "walk"
      /\ out = <<>>
      /\ buf = [j \in 0..(BufLen - 1) |-> Nul]
  BY DEF Init
<1>2. buf \in Buffers
  <2>1. Nul \in Characters
    BY DEF Characters
  <2> QED
    BY <1>1, <2>1 DEF Buffers
<1>3. Len(fmt) \in Nat /\ 1 \notin Letters(fmt)
  BY <1>1, LettersApart
<1>4. i - 1 = 0 /\ i \in 1..(Len(fmt) + 1)
  BY <1>1, <1>3
<1>5. AtCharacter /\ AtNumber
  BY <1>1, <1>3, <1>4, TakenNone DEF AtCharacter, AtNumber
<1>6. PrintedSoFar
  BY <1>1, <1>4, PrintsMore DEF PrintedSoFar
<1>7. ConvertedSoFar
  BY <1>1 DEF ConvertedSoFar
<1> QED
  BY <1>1, <1>2, <1>5, <1>6, <1>7 DEF PrintfInv

\* Where a character or a directive is met, and what it prints.
LEMMA WalkingAt ==
    ASSUME PrintfInv, Walking
    PROVE  /\ fmt \in Formats /\ args \in Args /\ buf \in Buffers
           /\ Len(fmt) \in Nat /\ i \in 1..Len(fmt) /\ i \notin Letters(fmt)
           /\ arg = Taken(fmt, i - 1) /\ arg = Taken(fmt, i)
           /\ \A c \in Directives : Follows(c) =>
                /\ i + 1 \in Letters(fmt) /\ fmt[i + 1] = c
                /\ i + 2 \notin Letters(fmt) /\ i + 1 \in 1..Len(fmt)
                /\ Taken(fmt, i + 1) = arg + 1 /\ args[arg + 1] \in AllWords
                /\ Piece(fmt, args, i) = <<>>
                /\ Piece(fmt, args, i + 1) = Converted(c, args[arg + 1])
           /\ (\A c \in Directives : ~Follows(c)) =>
                i + 1 \notin Letters(fmt) /\ Piece(fmt, args, i) = <<fmt[i]>>
<1>1. /\ fmt \in Formats /\ args \in Args /\ buf \in Buffers /\ step = "walk"
      /\ i <= Len(fmt) /\ AtCharacter
  BY DEF PrintfInv, Walking
<1>2. Len(fmt) \in Nat
  BY <1>1, LettersApart
<1>3. i \in 1..Len(fmt) /\ i \notin Letters(fmt) /\ arg = Taken(fmt, i - 1)
  BY <1>1, <1>2 DEF AtCharacter
<1>4. i \in Nat /\ i - 1 \in Nat /\ (i - 1) + 1 = i
  BY <1>2, <1>3
<1>5. arg = Taken(fmt, i)
  BY <1>1, <1>3, <1>4, TakenStep
<1>6. ASSUME NEW c \in Directives, Follows(c)
      PROVE  /\ i + 1 \in Letters(fmt) /\ fmt[i + 1] = c
             /\ i + 2 \notin Letters(fmt) /\ i + 1 \in 1..Len(fmt)
             /\ Taken(fmt, i + 1) = arg + 1 /\ args[arg + 1] \in AllWords
             /\ Piece(fmt, args, i) = <<>>
             /\ Piece(fmt, args, i + 1) = Converted(c, args[arg + 1])
  <2>1. fmt[i] = "%" /\ i < Len(fmt) /\ fmt[i + 1] = c
    BY <1>6 DEF Follows
  <2>2. i + 1 \in 2..Len(fmt) /\ (i + 1) - 1 = i /\ (i + 1) + 1 = i + 2
        /\ i + 1 \in 1..Len(fmt)
    BY <1>2, <1>3, <2>1
  <2>3. i + 1 \in Letters(fmt)
    BY <2>1, <2>2 DEF Letters
  <2>4. i + 2 \notin Letters(fmt)
    BY <1>1, <2>2, <2>3, LettersApart
  <2>5. Taken(fmt, i + 1) = arg + 1
    BY <1>1, <1>4, <1>5, <2>3, TakenStep
  <2>6. args[arg + 1] \in AllWords
    BY <1>1, <2>3, <2>5, HasArgument
  <2>7. Piece(fmt, args, i) = <<>>
    BY <1>3, <2>3 DEF Piece
  <2>8. Piece(fmt, args, i + 1) = Converted(c, args[arg + 1])
    BY <2>1, <2>3, <2>5 DEF Piece
  <2> QED
    BY <2>1, <2>2, <2>3, <2>4, <2>5, <2>6, <2>7, <2>8
<1>7. ASSUME \A c \in Directives : ~Follows(c)
      PROVE  i + 1 \notin Letters(fmt) /\ Piece(fmt, args, i) = <<fmt[i]>>
  <2>1. i + 1 \notin Letters(fmt)
    <3> SUFFICES ASSUME i + 1 \in Letters(fmt)
                 PROVE  FALSE
      OBVIOUS
    <3>1. i + 1 \in 2..Len(fmt) /\ fmt[(i + 1) - 1] = "%"
          /\ fmt[i + 1] \in Directives
      BY DEF Letters
    <3>2. i < Len(fmt) /\ (i + 1) - 1 = i
      BY <1>2, <1>3, <3>1
    <3> QED
      BY <1>7, <3>1, <3>2 DEF Follows
  <2> QED
    BY <1>3, <2>1 DEF Piece
<1> QED
  BY <1>1, <1>2, <1>3, <1>5, <1>6, <1>7

\* The exception is one of the call, not of the state.
LEMMA SameCall ==
    ASSUME UNCHANGED <<fmt, args>>
    PROVE  LeastPrinted' <=> LeastPrinted
BY DEF LeastPrinted, ArgumentOf

\* A step of the walk that prints what the character or the directive does.
LEMMA WalkKeeps ==
    ASSUME PrintfInv, UNCHANGED <<fmt, args, buf>>, step' = "walk",
           NEW k \in 1..Len(fmt), i' = k + 1, k + 1 \notin Letters(fmt),
           arg' = Taken(fmt, k),
           ~LeastPrinted => out' = Prints(fmt, args, k)
    PROVE  PrintfInv'
<1>1. fmt \in Formats /\ args \in Args /\ buf \in Buffers
  BY DEF PrintfInv
<1>2. Len(fmt) \in Nat
  BY <1>1, LettersApart
<1>3. (k + 1) - 1 = k /\ k + 1 \in 1..(Len(fmt) + 1)
  BY <1>2
<1>4. AtCharacter'
  BY <1>3 DEF AtCharacter
<1>5. AtNumber' /\ ConvertedSoFar'
  BY DEF AtNumber, ConvertedSoFar
<1>6. PrintedSoFar'
  BY <1>3, SameCall DEF PrintedSoFar
<1> QED
  BY <1>1, <1>4, <1>5, <1>6 DEF PrintfInv

\* A character that is printed keeps it.
LEMMA PlainKeeps ==
    ASSUME PrintfInv, Plain
    PROVE  PrintfInv'
<1>1. /\ Walking /\ \A c \in Directives : ~Follows(c)
      /\ out' = out \o <<fmt[i]>> /\ i' = i + 1
      /\ UNCHANGED <<fmt, args, arg, step, buf>>
  BY DEF Plain, Write
<1>2. /\ fmt \in Formats /\ args \in Args /\ i \in 1..Len(fmt)
      /\ arg = Taken(fmt, i) /\ i + 1 \notin Letters(fmt)
      /\ Piece(fmt, args, i) = <<fmt[i]>>
  BY <1>1, WalkingAt
<1>3. step' = "walk"
  BY <1>1 DEF Walking
<1>4. ~LeastPrinted => out' = Prints(fmt, args, i)
  BY <1>1, <1>2, PrintsMore DEF PrintfInv, PrintedSoFar
<1> QED
  BY <1>1, <1>2, <1>3, <1>4, WalkKeeps

\* A character or string that is inserted keeps it.
LEMMA TextKeeps ==
    ASSUME PrintfInv, Text
    PROVE  PrintfInv'
<1>1. /\ Walking /\ i' = i + 2 /\ arg' = arg + 1
      /\ UNCHANGED <<fmt, args, step, buf>>
  BY DEF Text
<1>2. PICK c \in {"c", "s", "b"} : Follows(c)
           /\ out' = out \o Converted(c, args[arg + 1])
  <2>1. CASE Follows("c") /\ Write(<<CharOf(Argument)>>)
    BY <2>1 DEF Write, Argument, Converted
  <2>2. CASE Follows("s") /\ Write(StringAt(Argument))
    BY <2>2 DEF Write, Argument, Converted
  <2>3. CASE Follows("b") /\ Write(IF Argument % 256 = 0 THEN <<"0">> ELSE <<"1">>)
    BY <2>3 DEF Write, Argument, Converted
  <2> QED
    BY <2>1, <2>2, <2>3 DEF Text
<1>3. c \in Directives
  BY DEF Directives
<1>4. /\ fmt \in Formats /\ args \in Args /\ Len(fmt) \in Nat /\ i \in 1..Len(fmt)
      /\ i + 1 \in 1..Len(fmt) /\ i + 2 \notin Letters(fmt)
      /\ Taken(fmt, i + 1) = arg + 1 /\ Piece(fmt, args, i) = <<>>
      /\ Piece(fmt, args, i + 1) = Converted(c, args[arg + 1])
  BY <1>1, <1>2, <1>3, WalkingAt
<1>5. (i + 1) + 1 = i + 2 /\ (i + 1) - 1 = i
  BY <1>4
<1>6. step' = "walk"
  BY <1>1 DEF Walking
<1>7. ~LeastPrinted => out' = Prints(fmt, args, i + 1)
  <2>1. Prints(fmt, args, i) = Prints(fmt, args, i - 1)
    BY <1>4, PrintsMore
  <2>2. Prints(fmt, args, i + 1) = Prints(fmt, args, i) \o Piece(fmt, args, i + 1)
    BY <1>4, <1>5, PrintsMore
  <2> QED
    BY <1>2, <1>4, <2>1, <2>2 DEF PrintfInv, PrintedSoFar
<1> QED
  BY <1>1, <1>4, <1>5, <1>6, <1>7, WalkKeeps

\* The start of a conversion keeps it.
LEMMA StartNumberKeeps ==
    ASSUME PrintfInv, StartNumber
    PROVE  PrintfInv'
<1>1. /\ Walking /\ len' = 0 /\ i' = i + 1 /\ arg' = arg + 1
      /\ UNCHANGED <<fmt, args, out>>
  BY DEF StartNumber, StartNumberAt
<1>2. PICK c \in Numbers :
        /\ Follows(c) /\ base' = BaseOf(c)
        /\ negative' = (ValueOf(c, args[arg + 1]) < 0)
        /\ value' = IF ValueOf(c, args[arg + 1]) < 0
                    THEN Negated(ValueOf(c, args[arg + 1]))
                    ELSE ValueOf(c, args[arg + 1])
  BY DEF StartNumber, StartNumberAt, BaseOf, ValueOf, Argument
<1>3. c \in Directives
  BY DEF Directives
<1>4. /\ fmt \in Formats /\ args \in Args /\ buf \in Buffers /\ Len(fmt) \in Nat
      /\ i \in 1..Len(fmt) /\ i + 1 \in Letters(fmt) /\ fmt[i + 1] = c
      /\ Taken(fmt, i + 1) = arg + 1 /\ args[arg + 1] \in AllWords
      /\ Piece(fmt, args, i) = <<>>
  BY <1>1, <1>2, <1>3, WalkingAt
<1> DEFINE w == args[arg + 1]
           z == ValueOf(c, w)
<1>5. fmt'[i'] = c /\ args'[arg'] = w
  BY <1>1, <1>4
<1>6. z \in Int /\ Least \in Int /\ Least < 0 /\ w \in AllWords
  BY <1>4, ValueRange
<1>7. base' = BaseOf(c) /\ negative' = (z < 0)
      /\ value' = IF z < 0 THEN Negated(z) ELSE z
  BY <1>2
<1> HIDE DEF w, z
<1>8. CASE value' = 0
  <2>1. buf' = [buf EXCEPT ![0] = "0", ![1] = Nul] /\ step' = "print"
    BY <1>8 DEF StartNumber, StartNumberAt
  <2>2. z = 0
    BY <1>6, <1>7, <1>8 DEF Negated
  <2>3. InPrint(c, w, 0, buf')
    BY <1>4, <1>6, <2>1, <2>2, ZeroStarts DEF z
  <2>4. ConvertedSoFar'
    BY <1>1, <1>5, <2>1, <2>3 DEF ConvertedSoFar
  <2>5. buf' \in Buffers
    BY <2>3 DEF InPrint
  <2> QED
    <3>1. step' # "walk" /\ step' \in {"walk", "digits", "print"}
      BY <2>1
    <3>2. AtCharacter' /\ AtNumber'
      BY <1>1, <1>4, <1>5, <3>1 DEF AtCharacter, AtNumber
    <3>3. PrintedSoFar'
      <4>1. (i + 1) - 1 = i /\ Prints(fmt, args, i) = Prints(fmt, args, i - 1)
        BY <1>4, PrintsMore
      <4> QED
        BY <1>1, <4>1, SameCall DEF PrintfInv, PrintedSoFar
    <3> QED
      BY <1>1, <1>4, <2>4, <2>5, <3>1, <3>2, <3>3 DEF PrintfInv
<1>9. CASE value' # 0
  <2>1. buf' = buf /\ step' = "digits"
    BY <1>9 DEF StartNumber, StartNumberAt
  <2>2. InDigits(c, w, BaseOf(c), value', z < 0, 0, buf)
    BY <1>4, <1>6, <1>7, <1>9, DigitsStart DEF z
  <2>3. InDigits(c, w, base', value', negative', len', buf')
    BY <1>1, <1>7, <2>1, <2>2
  <2>4. ConvertedSoFar'
    BY <1>5, <2>1, <2>3 DEF ConvertedSoFar
  <2> QED
    <3>1. step' # "walk" /\ step' \in {"walk", "digits", "print"}
      BY <2>1
    <3>2. AtCharacter' /\ AtNumber'
      BY <1>1, <1>4, <1>5, <3>1 DEF AtCharacter, AtNumber
    <3>3. PrintedSoFar'
      <4>1. (i + 1) - 1 = i /\ Prints(fmt, args, i) = Prints(fmt, args, i - 1)
        BY <1>4, PrintsMore
      <4> QED
        BY <1>1, <4>1, SameCall DEF PrintfInv, PrintedSoFar
    <3> QED
      BY <1>1, <1>4, <2>1, <2>4, <3>1, <3>2, <3>3 DEF PrintfInv
<1> QED
  BY <1>8, <1>9

\* At the letter of a number: its argument.
LEMMA NumberAt ==
    ASSUME PrintfInv, step # "walk"
    PROVE  /\ fmt \in Formats /\ args \in Args /\ buf \in Buffers
           /\ Len(fmt) \in Nat /\ i \in 1..Len(fmt) /\ i \in Letters(fmt)
           /\ i + 1 \notin Letters(fmt)
           /\ fmt[i] \in Numbers /\ args[arg] \in AllWords /\ arg = Taken(fmt, i)
           /\ Piece(fmt, args, i) = Converted(fmt[i], args[arg])
           /\ ~LeastPrinted => ValueOf(fmt[i], args[arg]) # Least
<1>1. /\ fmt \in Formats /\ args \in Args /\ buf \in Buffers
      /\ i \in Letters(fmt) /\ fmt[i] \in Numbers /\ arg = Taken(fmt, i)
  BY DEF PrintfInv, AtNumber
<1>2. Len(fmt) \in Nat /\ i \in 1..Len(fmt) /\ i + 1 \notin Letters(fmt)
  BY <1>1, LettersApart
<1>3. args[arg] \in AllWords
  BY <1>1, HasArgument
<1>4. Piece(fmt, args, i) = Converted(fmt[i], args[arg])
  BY <1>1 DEF Piece
<1>5. ArgumentOf(i) = args[arg]
  BY <1>1 DEF ArgumentOf, Taken
<1>6. ASSUME ValueOf(fmt[i], args[arg]) = Least
      PROVE  LeastPrinted
  <2>1. Least < 0
        /\ (fmt[i] \in {"u", "x"} => ValueOf(fmt[i], args[arg]) = args[arg])
    BY <1>1, <1>3, ValueRange
  <2>2. ~(args[arg] < 0)
    BY <1>3, WordSizes DEF AllWords
  <2>3. fmt[i] \in {"i", "h"}
    BY <1>1, <1>6, <2>1, <2>2 DEF Numbers
  <2>4. Signed(ArgumentOf(i)) = Least
    BY <1>5, <1>6, <2>3 DEF ValueOf
  <2> QED
    BY <1>1, <2>3, <2>4 DEF LeastPrinted
<1> QED
  BY <1>1, <1>2, <1>3, <1>4, <1>6

\* A step of the conversion.
LEMMA ConversionKeeps ==
    ASSUME PrintfInv, step # "walk", UNCHANGED <<fmt, args, i, arg, out>>,
           step' \in {"digits", "print"}, buf' \in Buffers, ConvertedSoFar'
    PROVE  PrintfInv'
<1>1. step' # "walk" /\ step' \in {"walk", "digits", "print"}
  OBVIOUS
<1>2. AtCharacter' /\ AtNumber'
  BY <1>1 DEF PrintfInv, AtCharacter, AtNumber
<1>3. PrintedSoFar'
  BY SameCall DEF PrintfInv, PrintedSoFar
<1> QED
  BY <1>1, <1>2, <1>3 DEF PrintfInv

\* A digit keeps it.
LEMMA PutDigitKeeps ==
    ASSUME PrintfInv, PutDigit
    PROVE  PrintfInv'
<1>1. /\ step = "digits" /\ value > 0
      /\ buf' = [buf EXCEPT ![len] = Digit(value % base)]
      /\ len' = len + 1 /\ value' = value \div base
      /\ UNCHANGED <<fmt, args, i, arg, step, base, negative, out>>
  BY DEF PutDigit
<1>2. step # "walk"
  BY <1>1
<1>3. fmt[i] \in Numbers /\ args[arg] \in AllWords
  BY <1>2, NumberAt
<1>4. InDigits(fmt[i], args[arg], base, value, negative, len, buf)
  BY <1>1 DEF PrintfInv, ConvertedSoFar
<1>5. InDigits(fmt[i], args[arg], base', value', negative', len', buf')
  BY <1>1, <1>3, <1>4, DigitPut
<1>6. buf' \in Buffers
  BY <1>5 DEF InDigits
<1>7. ConvertedSoFar'
  BY <1>1, <1>5 DEF ConvertedSoFar
<1> QED
  BY <1>1, <1>2, <1>6, <1>7, ConversionKeeps

\* What is left of a number is an integer.
LEMMA LeftIs ==
    ASSUME NEW c \in Numbers, NEW w \in AllWords, NEW ba, NEW v, NEW neg, NEW l,
           NEW bf,
           InDigits(c, w, ba, v, neg, l, bf), v <= 0
    PROVE  ~(v > 0)
<1> DEFINE z == ValueOf(c, w)
           b == BaseOf(c)
           E == Power(b, l)
<1>1. z \in Int /\ Size(z) \in Nat /\ b \in Bases /\ Least \in Int
  BY ValueRange
<1>2. b \in Nat \ {0} /\ BufLen \in Nat
  BY <1>1, WordSizes DEF Bases
<1>3. /\ l \in 0..(BufLen - 2)
      /\ z = Least => v = Least
      /\ z # Least => v = Size(z) \div E
  BY DEF InDigits
<1> HIDE DEF z, b
<1>4. l \in Nat
  BY <1>2, <1>3
<1>5. E \in Nat \ {0}
  BY <1>2, <1>4, PowerType
<1> HIDE DEF E
<1>6. Size(z) \div E \in Nat
  BY <1>1, <1>5
<1>7. v \in Int
  BY <1>1, <1>3, <1>6
<1> QED
  BY <1>7

\* The end of a conversion keeps it.
LEMMA FinishKeeps ==
    ASSUME PrintfInv, Finish
    PROVE  PrintfInv'
<1> DEFINE n == IF negative THEN len + 1 ELSE len
           signed == IF negative THEN [buf EXCEPT ![len] = "-"] ELSE buf
<1>1. /\ step = "digits" /\ value <= 0 /\ len' = n
      /\ buf' = Reversed([signed EXCEPT ![n] = Nul], n) /\ step' = "print"
      /\ UNCHANGED <<fmt, args, i, arg, base, value, negative, out>>
  BY DEF Finish
<1>2. step # "walk"
  BY <1>1
<1>3. fmt[i] \in Numbers /\ args[arg] \in AllWords
  BY <1>2, NumberAt
<1>4. InDigits(fmt[i], args[arg], base, value, negative, len, buf)
  BY <1>1 DEF PrintfInv, ConvertedSoFar
<1>5. ~(value > 0)
  BY <1>1, <1>3, <1>4, LeftIs
<1>6. InPrint(fmt[i], args[arg], n, Reversed([signed EXCEPT ![n] = Nul], n))
  <2>1. n = (IF negative THEN len + 1 ELSE len)
        /\ signed = (IF negative THEN [buf EXCEPT ![len] = "-"] ELSE buf)
    OBVIOUS
  <2> HIDE DEF n, signed
  <2> QED
    BY <1>3, <1>4, <1>5, <2>1, Finishes
<1>7. InPrint(fmt[i], args[arg], len', buf')
  BY <1>1, <1>6
<1>8. buf' \in Buffers
  BY <1>7 DEF InPrint
<1>9. ConvertedSoFar'
  BY <1>1, <1>7 DEF ConvertedSoFar
<1> QED
  BY <1>1, <1>2, <1>8, <1>9, ConversionKeeps

\* Printing a number keeps it.
LEMMA PrintNumberKeeps ==
    ASSUME PrintfInv, PrintNumber
    PROVE  PrintfInv'
<1>1. /\ step = "print" /\ out' = out \o [j \in 1..StrLen |-> buf[j - 1]]
      /\ step' = "walk" /\ i' = i + 1
      /\ UNCHANGED <<fmt, args, arg, buf>>
  BY DEF PrintNumber, Write
<1>2. step # "walk"
  BY <1>1
<1>3. /\ fmt \in Formats /\ args \in Args /\ buf \in Buffers
      /\ i \in 1..Len(fmt) /\ i + 1 \notin Letters(fmt) /\ arg = Taken(fmt, i)
      /\ Piece(fmt, args, i) = Converted(fmt[i], args[arg])
      /\ ~LeastPrinted => ValueOf(fmt[i], args[arg]) # Least
  BY <1>2, NumberAt
<1>4. InPrint(fmt[i], args[arg], len, buf)
  BY <1>1 DEF PrintfInv, ConvertedSoFar
<1>5. PICK n \in 1..(BufLen - 1) :
        /\ Terminated(buf, n)
        /\ ValueOf(fmt[i], args[arg]) # Least =>
             [j \in 1..n |-> buf[j - 1]] = Converted(fmt[i], args[arg])
  BY <1>4 DEF InPrint
<1>6. StrLen = n
  BY <1>3, <1>5, StrLenIs
<1>7. ~LeastPrinted => out' = Prints(fmt, args, i)
  <2> SUFFICES ASSUME ~LeastPrinted
               PROVE  out' = Prints(fmt, args, i)
    OBVIOUS
  <2>1. out' = out \o Piece(fmt, args, i)
    BY <1>1, <1>3, <1>5, <1>6
  <2>2. out = Prints(fmt, args, i - 1)
    BY DEF PrintfInv, PrintedSoFar
  <2> QED
    BY <1>3, <2>1, <2>2, PrintsMore
<1> QED
  BY <1>1, <1>3, <1>7, WalkKeeps

\* For every format, arguments and width of word: at each character what has
\* been printed is what the characters before it print, and within a conversion
\* the buffer holds the digits done, whatever was in it before.
THEOREM PrintfKeepsInv == Spec => []PrintfInv
<1>1. Init => PrintfInv
  BY PrintfInitInv
<1>2. PrintfInv /\ [Next]_vars => PrintfInv'
  <2> SUFFICES ASSUME PrintfInv, [Next]_vars
               PROVE  PrintfInv'
    OBVIOUS
  <2>1. CASE Plain
    BY <2>1, PlainKeeps
  <2>2. CASE Text
    BY <2>2, TextKeeps
  <2>3. CASE StartNumber
    BY <2>3, StartNumberKeeps
  <2>4. CASE PutDigit
    BY <2>4, PutDigitKeeps
  <2>5. CASE Finish
    BY <2>5, FinishKeeps
  <2>6. CASE PrintNumber
    BY <2>6, PrintNumberKeeps
  <2>7. CASE UNCHANGED vars
    <3>1. UNCHANGED <<fmt, args, i, arg, step, base, value, negative, len, buf,
                      out>>
      BY <2>7 DEF vars, conversion
    <3>2. UNCHANGED <<AtCharacter, AtNumber, PrintedSoFar, ConvertedSoFar>>
      BY <3>1, SameCall DEF AtCharacter, AtNumber, PrintedSoFar, ConvertedSoFar
    <3> QED
      BY <3>1, <3>2 DEF PrintfInv
  <2> QED
    BY <2>1, <2>2, <2>3, <2>4, <2>5, <2>6, <2>7 DEF Next
<1> QED
  BY <1>1, <1>2, PTL DEF Spec

\* For all of them, vga_vprintf prints the format with its arguments in place
\* of the directives, the least int as a signed number excepted.
THEOREM FormatPrinted == Spec => []PrintsTheFormat
<1>1. PrintfInv => PrintsTheFormat
  <2> SUFFICES ASSUME PrintfInv, Done, ~LeastPrinted
               PROVE  out = Expected
    BY DEF PrintsTheFormat
  <2>1. fmt \in Formats /\ args \in Args /\ step = "walk" /\ i > Len(fmt)
    BY DEF PrintfInv, Done
  <2>2. Len(fmt) \in Nat
    BY <2>1, LettersApart
  <2>3. i \in 1..(Len(fmt) + 1)
    BY <2>1 DEF PrintfInv, AtCharacter
  <2>4. i - 1 = Len(fmt)
    BY <2>1, <2>2, <2>3
  <2>5. out = Prints(fmt, args, Len(fmt))
    BY <2>4 DEF PrintfInv, PrintedSoFar
  <2> QED
    BY <2>1, <2>5, PrintsAll
<1> QED
  BY <1>1, PrintfKeepsInv, PTL

\* For all of them, the conversions of strings.c write within a buffer that a
\* word's digits, a sign and a terminator fit, and terminate it.
THEOREM BufferFits == Spec => []FitsTheBuffer
<1>1. PrintfInv => FitsTheBuffer
  <2> SUFFICES ASSUME PrintfInv, step = "print"
               PROVE  len < BufLen /\ \E j \in DOMAIN buf : buf[j] = Nul
    BY DEF FitsTheBuffer
  <2>1. InPrint(fmt[i], args[arg], len, buf)
    BY DEF PrintfInv, ConvertedSoFar
  <2>2. len \in 0..(BufLen - 1) /\ BufLen \in Nat
    BY <2>1, WordSizes DEF InPrint
  <2>3. PICK n \in 1..(BufLen - 1) : buf[n] = Nul
    BY <2>1 DEF InPrint, Terminated
  <2>4. n \in DOMAIN buf
    BY <2>2 DEF PrintfInv, Buffers
  <2> QED
    BY <2>2, <2>3, <2>4
<1> QED
  BY <1>1, PrintfKeepsInv, PTL
=============================================================================
