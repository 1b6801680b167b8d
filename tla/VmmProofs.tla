----------------------------- MODULE VmmProofs -----------------------------
(***************************************************************************)
(* Page tables and virtual memory managers for every amount of memory,     *)
(* every size of the tables, of the shell's buffers and of a thread's      *)
(* stack: a page has one use, the kernel is reachable in every address     *)
(* space, and the shell's buffer stays mapped.                             *)
(*                                                                         *)
(* The argument gives every page a kind and the place of the entry that    *)
(* refers to it.  The entries of the tables of live managers lead from a   *)
(* kind to the next one, and each page they reach names the entry it is    *)
(* reached from: two ways through the tables never meet.                   *)
(***************************************************************************)
EXTENDS Vmm, FiniteSetTheorems, WellFoundedInduction, TLAPS

USE VmmAssumption

Table == 1..(FRAMES + 3)
Memory == [free : SUBSET Frame, table : [Table -> [Index -> Entry]]]
Link(e) == Present(e) /\ ~Huge(e)

Pml4Kind(half) == IF half = "user" THEN "userPml4" ELSE "kernelPml4"
Kinds == {"none", "block", "userPml4", "kernelPml4", "low", "high", "directory", "pagetable",
          "page", "stack"}

\* The entries of a table of each kind that a walk may take, and where they lead.  Entry 1 of
\* a user PML4 belongs to the kernel.
Leads(k, i) ==
    \/ k \in {"userPml4", "high"} /\ i = 0
    \/ k = "kernelPml4" /\ i \in {0, 1}
    \/ k = "low" /\ i = 1
    \/ k \in {"directory", "pagetable"}
Below(k, i) ==
    IF k \in {"userPml4", "kernelPml4"} THEN IF i = 0 THEN "low" ELSE "high"
    ELSE IF k \in {"low", "high"} THEN "directory"
    ELSE IF k = "directory" THEN "pagetable" ELSE "page"

\* kind[f] is the kind of page f, up[f] the table and the entry that refer to it.
Tree(m, kind, up) ==
    /\ m \in Memory
    /\ kind \in [Frame -> Kinds]
    /\ up \in [Frame -> Frame \X Nat]
    /\ \A f \in Frame, i \in Index :
         Leads(kind[f], i) /\ Link(m.table[f][i]) =>
            /\ m.table[f][i].to \in Frame
            /\ kind[m.table[f][i].to] = Below(kind[f], i)
            /\ up[m.table[f][i].to] = <<f, i>>

\* A free page has no kind.
Frees(m, kind) == \A f \in m.free : kind[f] = "none"

\* The entries of the upper two levels on the way to a half of an address space.
Top(half) == IF half = "user" THEN 0 ELSE 1
Next2(half) == IF half = "user" THEN 1 ELSE 0

\* The entries that mapping a page in a half of page table p may write, but for pages in U.
OnTheWay(p, half, m, kind, up, f, i) ==
    \/ f = p /\ i = Top(half) /\ ~Link(m.table[f][i])
    \/ kind[f] \in {"low", "high"} /\ up[f] = <<p, Top(half)>> /\ i = Next2(half)
    \/ kind[f] \in {"directory", "pagetable"}

\* What an operation that maps pages does: it takes free pages, gives a kind to free ones and
\* to those in X only, and writes entries on the way only.
Grows(p, half, U, X, m, kind, up, n, kind2, up2) ==
    /\ n.free \subseteq m.free
    /\ \A f \in Frame : f \in m.free \cup X \/ (kind2[f] = kind[f] /\ up2[f] = up[f])
    /\ \A f \in Table, i \in Index :
         f \in U \/ n.table[f][i] = m.table[f][i] \/ (f \in Frame /\ OnTheWay(p, half, m, kind, up, f, i))

-----------------------------------------------------------------------------
(***************************************************************************)
(* Numbers.                                                                *)
(***************************************************************************)
LEMMA Smallest ==
    ASSUME NEW S \in SUBSET Nat, S # {}
    PROVE  \E x \in S : \A y \in S : x <= y
  <1>1. PICK x \in S : \A y \in S : <<y, x>> \notin OpToRel(<, Nat)
    BY NatLessThanWellFounded, WFMin, Zenon
  <1>2. ASSUME NEW y \in S PROVE x <= y
    <2>1. <<y, x>> \in Nat \X Nat
      OBVIOUS
    <2>2. ~(y < x)
      BY <1>1, <2>1 DEF OpToRel
    <2> QED
      BY <2>2
  <1> QED
    BY <1>2

\* A set of numbers that has 0 and, with a number, the next one, up to n.
LEMMA Upwards ==
    ASSUME NEW n \in Nat, NEW G, 0 \in G, \A k \in 1..n : k - 1 \in G => k \in G
    PROVE  \A k \in 0..n : k \in G
  <1> DEFINE bad == {k \in 0..n : k \notin G}
  <1>1. SUFFICES ASSUME bad # {} PROVE FALSE
    OBVIOUS
  <1>2. PICK k \in bad : \A j \in bad : k <= j
    <2>1. bad \in SUBSET Nat
      OBVIOUS
    <2> HIDE DEF bad
    <2> QED
      BY <1>1, <2>1, Smallest
  <1>3. k \in 1..n /\ k - 1 \in 0..n
    BY <1>2
  <1>4. k - 1 \in G
    BY <1>2, <1>3
  <1> QED
    BY <1>2, <1>3, <1>4

LEMMA Sizes ==
    /\ 0 \in Index /\ 1 \in Index
    /\ HEAP \in Nat /\ HEAP >= 4
    /\ Frame \subseteq Table /\ UEFI_PML4 \in Table \ Frame /\ UefiPdpt \in Table \ Frame
    /\ NULL \notin Table /\ 1 \in Frame
  <1>1. ENTRIES * ENTRIES >= 2 * ENTRIES
    OBVIOUS
  <1> QED
    BY <1>1 DEF Index, HEAP, Frame, Table, UEFI_PML4, UefiPdpt, NULL

\* A page of a heap is an entry of a page directory and one of a page table.
LEMMA Digits ==
    /\ \A n \in 0..(HEAP - 1) :
         n \div ENTRIES \in Index /\ n % ENTRIES \in Index /\ n = (n \div ENTRIES) * ENTRIES + (n % ENTRIES)
    /\ \A i, j \in Index :
         /\ i * ENTRIES + j \in 0..(HEAP - 1)
         /\ (i * ENTRIES + j) \div ENTRIES = i /\ (i * ENTRIES + j) % ENTRIES = j
  <1> DEFINE E == ENTRIES
  <1>0. E \in Nat /\ E >= 2
    OBVIOUS
  <1>1. ASSUME NEW n \in 0..(HEAP - 1)
        PROVE  n \div E \in Index /\ n % E \in Index /\ n = (n \div E) * E + (n % E)
    <2>1. n \in Nat /\ n < E * E
      BY <1>0, Sizes DEF HEAP
    <2>2. n % E \in 0..(E - 1) /\ n \div E \in Nat
      BY <1>0, <2>1
    <2>3. n = E * (n \div E) + (n % E)
      BY <1>0, <2>1
    <2>4. n \div E < E
      <3>1. SUFFICES ASSUME n \div E >= E PROVE FALSE
        BY <1>0, <2>2
      <3>2. E * (n \div E) >= E * E
        BY <1>0, <2>2, <3>1
      <3> QED
        BY <1>0, <2>1, <2>2, <2>3, <3>2
    <2> QED
      BY <1>0, <2>2, <2>3, <2>4 DEF Index
  <1>2. ASSUME NEW i \in Index, NEW j \in Index
        PROVE  i * E + j \in 0..(HEAP - 1) /\ (i * E + j) \div E = i /\ (i * E + j) % E = j
    <2>1. i \in Nat /\ j \in Nat /\ i <= E - 1 /\ j <= E - 1
      BY <1>0 DEF Index
    <2>2. i * E + j \in Nat /\ i * E <= (E - 1) * E /\ (E - 1) * E = E * E - E
      BY <1>0, <2>1
    <2>3. i * E + j \in 0..(HEAP - 1)
      <3>1. i * E \in Nat /\ E * E \in Nat
        BY <1>0, <2>1
      <3>2. HEAP = E * E
        BY DEF HEAP
      <3> QED
        BY <1>0, <2>1, <2>2, <3>1, <3>2
    <2> DEFINE n == i * E + j
               q == n \div E
               r == n % E
    <2>4. q \in Nat /\ r \in 0..(E - 1) /\ n = E * q + r
      BY <1>0, <2>2
    <2>7. E * q + r = E * i + j
      BY <1>0, <2>1, <2>4
    <2>5. q = i
      <3>1. E * q + r = E * i + j
        BY <2>7
      <3> HIDE DEF n, q, r
      <3>2. CASE q >= i + 1
        <4>1. E * q >= E * i + E
          BY <1>0, <2>1, <2>4, <3>2
        <4> QED
          BY <1>0, <2>1, <2>4, <3>1, <4>1
      <3>3. CASE i >= q + 1
        <4>1. E * i >= E * q + E
          BY <1>0, <2>1, <2>4, <3>3
        <4> QED
          BY <1>0, <2>1, <2>4, <3>1, <4>1
      <3> QED
        BY <2>1, <2>4, <3>2, <3>3
    <2>6. r = j
      <3> HIDE DEF n, q, r
      <3> QED
        BY <1>0, <2>1, <2>4, <2>5, <2>7
    <2> QED
      BY <2>3, <2>5, <2>6
  <1> QED
    BY <1>1, <1>2

-----------------------------------------------------------------------------
(***************************************************************************)
(* Pages and entries.                                                      *)
(***************************************************************************)
LEMMA EntryTypes ==
    /\ Absent \in Entry /\ ~Link(Absent)
    /\ EmptyTable \in [Index -> Entry]
    /\ \A t \in 0..(FRAMES + 3), F \in SUBSET {"P", "W", "U", "H"} : [to |-> t, flags |-> F] \in Entry
    /\ \A e \in Entry, F \in SUBSET {"P", "W", "U", "H"} :
         /\ [e EXCEPT !.flags = @ \cup F] \in Entry
         /\ [e EXCEPT !.flags = @ \cup F].to = e.to
         /\ [e EXCEPT !.flags = @ \cup F].flags = e.flags \cup F
  BY DEF Absent, Entry, Link, Present, Huge, EmptyTable, NULL

\* Writing one entry.
SetEntry(m, t, i, e) == [m EXCEPT !.table[t][i] = e]

LEMMA EntrySet ==
    ASSUME NEW m \in Memory, NEW t \in Table, NEW i \in Index, NEW e \in Entry
    PROVE  /\ SetEntry(m, t, i, e) \in Memory
           /\ SetEntry(m, t, i, e).free = m.free
           /\ \A f \in Table, j \in Index :
                SetEntry(m, t, i, e).table[f][j] = IF f = t /\ j = i THEN e ELSE m.table[f][j]
  BY DEF Memory, SetEntry

\* Pmm_Malloc(1) gives a free page, and memset clears it.
LEMMA TakeFacts ==
    ASSUME NEW m \in Memory, m.free # {}
    PROVE  /\ Pmm_Malloc(m) \in m.free /\ Pmm_Malloc(m) \in Frame /\ Pmm_Malloc(m) \in Table
           /\ Take(m) \in Memory /\ Take(m).free = m.free \ {Pmm_Malloc(m)}
           /\ \A f \in Table : Take(m).table[f] = IF f = Pmm_Malloc(m) THEN EmptyTable ELSE m.table[f]
  <1>1. m.free \subseteq Frame /\ m.free \in SUBSET Nat
    BY DEF Memory, Frame
  <1>2. \E f \in m.free : \A g \in m.free : f <= g
    BY <1>1, Smallest
  <1>3. Pmm_Malloc(m) \in m.free
    BY <1>2 DEF Pmm_Malloc
  <1>4. Pmm_Malloc(m) \in Frame /\ Pmm_Malloc(m) \in Table
    BY <1>1, <1>3, Sizes
  <1>5. m.table \in [Table -> [Index -> Entry]]
    BY DEF Memory
  <1> DEFINE t == [m.table EXCEPT ![Pmm_Malloc(m)] = EmptyTable]
             g == m.free \ {Pmm_Malloc(m)}
  <1>6. t \in [Table -> [Index -> Entry]] /\ \A f \in Table : t[f] = IF f = Pmm_Malloc(m) THEN EmptyTable ELSE m.table[f]
    BY <1>4, <1>5, EntryTypes
  <1>7. Take(m) = [free |-> g, table |-> t]
    BY DEF Take
  <1>8. g \in SUBSET Frame
    BY <1>1
  <1> HIDE DEF g, t
  <1>9. Take(m) \in Memory /\ Take(m).free = g /\ Take(m).table = t
    BY <1>6, <1>7, <1>8 DEF Memory
  <1> QED
    BY <1>3, <1>4, <1>6, <1>9 DEF g

\* A table that has a kind and its entries are of their types.
LEMMA TreeTypes ==
    ASSUME NEW m, NEW kind, NEW up, Tree(m, kind, up)
    PROVE  /\ m \in Memory /\ m.free \subseteq Frame
           /\ \A f \in Frame : kind[f] \in Kinds /\ up[f] \in Frame \X Nat
           /\ \A f \in Table, i \in Index : m.table[f][i] \in Entry /\ m.table[f][i].to \in 0..(FRAMES + 3)
                                             /\ m.table[f][i].flags \in SUBSET {"P", "W", "U", "H"}
  <1>1. m \in Memory
    BY DEF Tree
  <1>2. \A f \in Table, i \in Index : m.table[f][i] \in Entry
    BY <1>1 DEF Memory
  <1> QED
    BY <1>1, <1>2 DEF Tree, Memory, Entry

\* The target of an entry that leads on.
LEMMA ChildOf ==
    ASSUME NEW m, NEW kind, NEW up, Tree(m, kind, up), NEW f \in Frame, NEW i \in Index,
           Leads(kind[f], i), Link(m.table[f][i])
    PROVE  /\ m.table[f][i].to \in Frame
           /\ kind[m.table[f][i].to] = Below(kind[f], i)
           /\ up[m.table[f][i].to] = <<f, i>>
  BY DEF Tree

LEMMA BelowKinds ==
    \A k, i : Below(k, i) \in {"low", "high", "directory", "pagetable", "page"}
  BY DEF Below

\* Changing tables that are free, and taking pages, leaves everything else as it is.
LEMMA Untouched ==
    ASSUME NEW m, NEW kind, NEW up, Tree(m, kind, up), Frees(m, kind), NEW n \in Memory, n.free \subseteq m.free,
           \A f \in Table : f \in m.free \/ n.table[f] = m.table[f]
    PROVE  Tree(n, kind, up) /\ Frees(n, kind)
  <1>1. ASSUME NEW f \in Frame, NEW i \in Index, Leads(kind[f], i)
        PROVE  n.table[f][i] = m.table[f][i]
    BY <1>1, Sizes DEF Frees, Leads
  <1> QED
    BY <1>1 DEF Tree, Frees

\* What Descend returns in each of its cases.
Went(w, i) == [w EXCEPT !.t = w.m.table[w.t][i].to]
Stuck(w) == [w EXCEPT !.t = NULL]
Took(w, i) ==
    [m |-> SetEntry(Take(w.m), w.t, i, [to |-> Pmm_Malloc(w.m), flags |-> {"P", "W", "U"}]),
     t |-> Pmm_Malloc(w.m)]

LEMMA DescendIs ==
    ASSUME NEW w, NEW i
    PROVE  Descend(w, i) = IF w.t = NULL THEN w
                           ELSE IF Link(w.m.table[w.t][i]) THEN Went(w, i)
                           ELSE IF w.m.free = {} THEN Stuck(w)
                           ELSE Took(w, i)
  BY Zenon DEF Descend, Link, Went, Stuck, Took, SetEntry

LEMMA DescendCases ==
    ASSUME NEW w, NEW i
    PROVE  /\ w.t = NULL => Descend(w, i) = w
           /\ w.t # NULL /\ Link(w.m.table[w.t][i]) => Descend(w, i) = Went(w, i)
           /\ w.t # NULL /\ ~Link(w.m.table[w.t][i]) /\ w.m.free = {} => Descend(w, i) = Stuck(w)
           /\ w.t # NULL /\ ~Link(w.m.table[w.t][i]) /\ w.m.free # {} => Descend(w, i) = Took(w, i)
  BY DescendIs, Zenon

\* One level of the walk: it ends, or arrives at a table of the next kind.
LEMMA DescendTree ==
    ASSUME NEW m, NEW kind, NEW up, Tree(m, kind, up), Frees(m, kind),
           NEW t \in Frame, NEW i \in Index, Leads(kind[t], i), Below(kind[t], i) # "page"
    PROVE  LET w == Descend([m |-> m, t |-> t], i)
               kind2 == [kind EXCEPT ![w.t] = Below(kind[t], i)]
               up2 == [up EXCEPT ![w.t] = <<t, i>>]
           IN  \/ w = [m |-> m, t |-> NULL]
               \/ /\ w.t \in Frame /\ kind2[w.t] = Below(kind[t], i) /\ up2[w.t] = <<t, i>>
                  /\ Tree(w.m, kind2, up2) /\ Frees(w.m, kind2)
                  /\ w.m.free \subseteq m.free
                  /\ \A f \in Frame : f \in m.free \/ (kind2[f] = kind[f] /\ up2[f] = up[f])
                  /\ \A f \in Table, j \in Index : \/ f \in m.free
                                                   \/ w.m.table[f][j] = m.table[f][j]
                                                   \/ f = t /\ j = i /\ ~Link(m.table[t][i])
  <1> DEFINE e == m.table[t][i]
             w0 == [m |-> m, t |-> t]
             w == Descend(w0, i)
             k2 == Below(kind[t], i)
             kind2 == [kind EXCEPT ![w.t] = k2]
             up2 == [up EXCEPT ![w.t] = <<t, i>>]
  <1>1. w0.m = m /\ w0.t = t /\ t # NULL /\ t \in Table
    BY Sizes
  <1>2. m \in Memory /\ e \in Entry /\ kind \in [Frame -> Kinds] /\ up \in [Frame -> Frame \X Nat]
    BY SMTT(30), <1>1, TreeTypes DEF Tree
  <1>3. k2 \in Kinds /\ <<t, i>> \in Frame \X Nat
    BY BelowKinds DEF Kinds, Index
  <1>4. CASE Link(e)
    <2>1. w = [m |-> m, t |-> e.to]
      <3> HIDE DEF w0
      <3>1. w0.t # NULL /\ Link(w0.m.table[w0.t][i])
        BY <1>1, <1>4, Zenon
      <3>2. w = [w0 EXCEPT !.t = w0.m.table[w0.t][i].to]
        BY <3>1, DescendCases, Zenon DEF Went
      <3>3. [w0 EXCEPT !.t = e.to] = [m |-> m, t |-> e.to]
        <4> USE DEF w0
        <4> QED
          OBVIOUS
      <3> QED
        BY <1>1, <3>2, <3>3, Zenon
    <2>2. e.to \in Frame /\ kind[e.to] = k2 /\ up[e.to] = <<t, i>>
      BY <1>4, ChildOf
    <2>3. kind2 = kind /\ up2 = up
      BY <1>2, <2>1, <2>2
    <2>4. w.m = m /\ w.t = e.to
      BY <2>1
    <2>5. /\ w.t \in Frame /\ kind2[w.t] = k2 /\ up2[w.t] = <<t, i>>
          /\ Tree(w.m, kind2, up2) /\ Frees(w.m, kind2)
          /\ w.m.free \subseteq m.free
          /\ \A f \in Frame : f \in m.free \/ (kind2[f] = kind[f] /\ up2[f] = up[f])
          /\ \A f \in Table, j \in Index : \/ f \in m.free
                                           \/ w.m.table[f][j] = m.table[f][j]
                                           \/ f = t /\ j = i /\ ~Link(m.table[t][i])
      <3> HIDE DEF w, kind2, up2, k2
      <3> QED
        BY <2>2, <2>3, <2>4
    <2> QED
      BY <2>5, Zenon
  <1>5. CASE ~Link(e) /\ m.free = {}
    <2>1. w = Stuck(w0)
      <3> HIDE DEF w0
      <3> QED
        BY <1>1, <1>5, DescendCases, Zenon
    <2>2. w = [m |-> m, t |-> NULL]
      BY <2>1 DEF Stuck
    <2> QED
      BY <2>2, Zenon
  <1>6. CASE ~Link(e) /\ m.free # {}
    <2> DEFINE g == Pmm_Malloc(m)
               ne == [to |-> g, flags |-> {"P", "W", "U"}]
               n == SetEntry(Take(m), t, i, ne)
    <2>1. w = [m |-> n, t |-> g]
      <3> HIDE DEF w0
      <3>1. w0.t # NULL /\ ~Link(w0.m.table[w0.t][i]) /\ w0.m.free # {}
        BY <1>1, <1>6, Zenon
      <3>2. w = Took(w0, i)
        BY <3>1, DescendCases, Zenon
      <3> QED
        BY <1>1, <3>2, Zenon DEF Took
    <2>2. g \in m.free /\ g \in Frame /\ g \in Table /\ Take(m) \in Memory
      BY <1>2, <1>6, TakeFacts
    <2>3. g # t /\ kind[g] = "none"
      BY <2>2 DEF Frees, Leads
    <2>4. ne \in Entry /\ Link(ne) /\ ne.to = g
      BY <2>2, EntryTypes DEF Link, Present, Huge, Frame
    <2>5. n \in Memory /\ n.free = m.free \ {g}
      <3>1. Take(m).free = m.free \ {g}
        BY <1>2, <1>6, TakeFacts
      <3>2. n \in Memory /\ n.free = Take(m).free
        BY <1>1, <2>2, <2>4, EntrySet
      <3> HIDE DEF n
      <3> QED
        BY <3>1, <3>2
    <2>6. ASSUME NEW f \in Table, NEW j \in Index
          PROVE  n.table[f][j] = IF f = t /\ j = i THEN ne ELSE IF f = g THEN Absent ELSE m.table[f][j]
      <3>1. n.table[f][j] = IF f = t /\ j = i THEN ne ELSE Take(m).table[f][j]
        BY <1>1, <2>2, <2>4, EntrySet
      <3>2. Take(m).table[f] = IF f = g THEN EmptyTable ELSE m.table[f]
        BY <1>2, <1>6, TakeFacts
      <3>3. EmptyTable[j] = Absent
        BY DEF EmptyTable
      <3> HIDE DEF n
      <3> QED
        BY <2>3, <3>1, <3>2, <3>3
    <2>7. w.m = n /\ w.t = g
      BY <2>1
    <2> DEFINE kg == [kind EXCEPT ![g] = k2]
               ug == [up EXCEPT ![g] = <<t, i>>]
    <2>8. kind2 = kg /\ up2 = ug
      BY <2>7
    <2>9. kg \in [Frame -> Kinds] /\ ug \in [Frame -> Frame \X Nat]
      BY <1>2, <1>3, <2>2
    <2>10. /\ kg[g] = k2 /\ ug[g] = <<t, i>>
           /\ \A f \in Frame : f # g => kg[f] = kind[f] /\ ug[f] = up[f]
      BY <1>2, <2>2
    <2> HIDE DEF n, ne, g, kg, ug
    <2>11. ASSUME NEW f \in Frame, NEW j \in Index, Leads(kg[f], j), Link(n.table[f][j])
           PROVE  n.table[f][j].to \in Frame /\ kg[n.table[f][j].to] = Below(kg[f], j) /\ ug[n.table[f][j].to] = <<f, j>>
      <3>1. f \in Table
        BY Sizes
      <3>2. f # g
        BY <2>3, <2>6, <2>11, <3>1, EntryTypes
      <3>3. kg[f] = kind[f]
        BY <2>10, <3>2
      <3>4. CASE f = t /\ j = i
        BY <2>2, <2>4, <2>6, <2>10, <3>1, <3>3, <3>4
      <3>5. CASE ~(f = t /\ j = i)
        <4>1. n.table[f][j] = m.table[f][j]
          BY <2>6, <3>1, <3>2, <3>5
        <4>2. /\ m.table[f][j].to \in Frame /\ kind[m.table[f][j].to] = Below(kind[f], j)
              /\ up[m.table[f][j].to] = <<f, j>>
          BY <2>11, <3>3, <4>1, ChildOf
        <4>3. m.table[f][j].to # g
          BY <2>3, <4>2, BelowKinds
        <4> QED
          BY <2>10, <3>3, <4>1, <4>2, <4>3
      <3> QED
        BY <3>4, <3>5
    <2>12. Tree(n, kg, ug)
      BY <2>5, <2>9, <2>11 DEF Tree
    <2>13. Frees(n, kg)
      BY <1>2, <2>5, <2>10 DEF Frees, Memory
    <2>14. n.free \subseteq m.free /\ \A f \in Frame : f \in m.free \/ (kg[f] = kind[f] /\ ug[f] = up[f])
      BY <2>2, <2>5, <2>10
    <2>15. \A f \in Table, j \in Index :
             f \in m.free \/ n.table[f][j] = m.table[f][j] \/ (f = t /\ j = i /\ ~Link(m.table[t][i]))
      BY <1>6, <2>2, <2>6
    <2>16. /\ w.t \in Frame /\ kind2[w.t] = k2 /\ up2[w.t] = <<t, i>>
           /\ Tree(w.m, kind2, up2) /\ Frees(w.m, kind2)
           /\ w.m.free \subseteq m.free
           /\ \A f \in Frame : f \in m.free \/ (kind2[f] = kind[f] /\ up2[f] = up[f])
           /\ \A f \in Table, j \in Index : \/ f \in m.free
                                            \/ w.m.table[f][j] = m.table[f][j]
                                            \/ f = t /\ j = i /\ ~Link(m.table[t][i])
      <3> HIDE DEF w, kind2, up2, k2
      <3> QED
        BY <2>2, <2>7, <2>8, <2>10, <2>12, <2>13, <2>14, <2>15, Zenon
    <2> QED
      BY <2>16, Zenon
  <1> QED
    BY <1>4, <1>5, <1>6, Zenon

LEMMA GrowsStays ==
    ASSUME NEW p, NEW half, NEW U, NEW X, NEW m, NEW kind, NEW up
    PROVE  Grows(p, half, U, X, m, kind, up, m, kind, up)
  BY DEF Grows

LEMMA GrowsFurther ==
    ASSUME NEW p, NEW half, NEW U, NEW X,
           NEW m1, NEW k1, NEW u1, NEW m2, NEW k2, NEW u2, NEW m3, NEW k3, NEW u3,
           m1.free \subseteq U, X \subseteq U,
           Grows(p, half, U, X, m1, k1, u1, m2, k2, u2), Grows(p, half, U, X, m2, k2, u2, m3, k3, u3)
    PROVE  Grows(p, half, U, X, m1, k1, u1, m3, k3, u3)
  <1>1. m3.free \subseteq m1.free
    BY DEF Grows
  <1>2. \A f \in Frame : f \in m1.free \cup X \/ (k3[f] = k1[f] /\ u3[f] = u1[f])
    BY DEF Grows
  <1>3. ASSUME NEW f \in Table, NEW i \in Index, f \notin U, m3.table[f][i] # m1.table[f][i]
        PROVE  f \in Frame /\ OnTheWay(p, half, m1, k1, u1, f, i)
    <2>1. CASE m2.table[f][i] # m1.table[f][i]
      BY <1>3, <2>1 DEF Grows
    <2>2. CASE m2.table[f][i] = m1.table[f][i]
      <3>1. f \in Frame /\ OnTheWay(p, half, m2, k2, u2, f, i)
        BY <1>3, <2>2 DEF Grows
      <3>2. k2[f] = k1[f] /\ u2[f] = u1[f]
        BY <1>3, <3>1 DEF Grows
      <3> QED
        BY <2>2, <3>1, <3>2 DEF OnTheWay
    <2> QED
      BY <2>1, <2>2
  <1> QED
    BY <1>1, <1>2, <1>3 DEF Grows

LEMMA GrowsWider ==
    ASSUME NEW p, NEW half, NEW U, NEW X, NEW U2, NEW X2, U \subseteq U2, X \subseteq X2,
           NEW m1, NEW k1, NEW u1, NEW m2, NEW k2, NEW u2,
           Grows(p, half, U, X, m1, k1, u1, m2, k2, u2)
    PROVE  Grows(p, half, U2, X2, m1, k1, u1, m2, k2, u2)
  BY DEF Grows

-----------------------------------------------------------------------------
(***************************************************************************)
(* Mapping a page.                                                         *)
(***************************************************************************)

\* What a walk has reached: nothing, or a table of kind k referred to by the entry e.
Reached(w, kind, up, k, e) == w.t = NULL \/ (w.t \in Frame /\ kind[w.t] = k /\ up[w.t] = e)

LEMMA DescendGrows ==
    ASSUME NEW m, NEW kind, NEW up, Tree(m, kind, up), Frees(m, kind),
           NEW t \in Frame, NEW i \in Index, Leads(kind[t], i), Below(kind[t], i) # "page",
           NEW p, NEW half, NEW U, m.free \subseteq U,
           ~Link(m.table[t][i]) => t \in U \/ OnTheWay(p, half, m, kind, up, t, i)
    PROVE  LET w == Descend([m |-> m, t |-> t], i)
           IN  /\ w = [m |-> w.m, t |-> w.t]
               /\ \E k2, u2 : /\ Tree(w.m, k2, u2) /\ Frees(w.m, k2)
                              /\ Grows(p, half, U, {}, m, kind, up, w.m, k2, u2)
                              /\ Reached(w, k2, u2, Below(kind[t], i), <<t, i>>)
  <1> DEFINE w == Descend([m |-> m, t |-> t], i)
             k2 == [kind EXCEPT ![w.t] = Below(kind[t], i)]
             u2 == [up EXCEPT ![w.t] = <<t, i>>]
  <1>1. w = [m |-> w.m, t |-> w.t]
    <2> DEFINE w0 == [m |-> m, t |-> t]
    <2>1. w0.m = m /\ w0.t = t /\ w0 = [m |-> m, t |-> t]
      OBVIOUS
    <2> HIDE DEF w0
    <2>2. \/ w = w0
          \/ \E x : w = [w0 EXCEPT !.t = x]
          \/ \E x, y : w = [m |-> x, t |-> y]
      BY DescendIs, Zenon DEF Went, Stuck, Took
    <2> QED
      BY <2>1, <2>2
  <1>2. CASE w = [m |-> m, t |-> NULL]
    <2>1. w.m = m /\ w.t = NULL
      BY <1>2
    <2>2. Reached(w, kind, up, Below(kind[t], i), <<t, i>>)
      BY <2>1 DEF Reached
    <2>3. /\ Tree(w.m, kind, up) /\ Frees(w.m, kind)
          /\ Grows(p, half, U, {}, m, kind, up, w.m, kind, up)
      <3> HIDE DEF w
      <3> QED
        BY <2>1, GrowsStays
    <2> QED
      BY <1>1, <2>2, <2>3, Zenon
  <1>3. CASE w # [m |-> m, t |-> NULL]
    <2>1. /\ w.t \in Frame /\ k2[w.t] = Below(kind[t], i) /\ u2[w.t] = <<t, i>>
          /\ Tree(w.m, k2, u2) /\ Frees(w.m, k2)
          /\ w.m.free \subseteq m.free
          /\ \A f \in Frame : f \in m.free \/ (k2[f] = kind[f] /\ u2[f] = up[f])
          /\ \A f \in Table, j \in Index : \/ f \in m.free
                                           \/ w.m.table[f][j] = m.table[f][j]
                                           \/ f = t /\ j = i /\ ~Link(m.table[t][i])
      BY <1>3, DescendTree, Zenon
    <2>2. /\ Grows(p, half, U, {}, m, kind, up, w.m, k2, u2)
          /\ Reached(w, k2, u2, Below(kind[t], i), <<t, i>>)
      <3> HIDE DEF w, k2, u2
      <3> QED
        BY <2>1 DEF Grows, Reached
    <2> QED
      BY <1>1, <2>1, <2>2, Zenon
  <1> QED
    BY <1>1, <1>2, <1>3, Zenon

LEMMA DescendEnded ==
    ASSUME NEW m, NEW i
    PROVE  Descend([m |-> m, t |-> NULL], i) = [m |-> m, t |-> NULL]
  <1> DEFINE w == [m |-> m, t |-> NULL]
  <1>1. w.t = NULL
    OBVIOUS
  <1> HIDE DEF w
  <1>2. Descend(w, i) = w
    BY <1>1, DescendCases, Zenon
  <1> QED
    BY <1>2 DEF w

LEMMA PathParts ==
    ASSUME NEW half \in Half, NEW n \in 0..(HEAP - 1)
    PROVE  /\ Path(half, n)[1] = Top(half) /\ Path(half, n)[2] = Next2(half)
           /\ Path(half, n)[3] = n \div ENTRIES /\ Path(half, n)[4] = n % ENTRIES
           /\ Top(half) \in Index /\ Next2(half) \in Index
           /\ n \div ENTRIES \in Index /\ n % ENTRIES \in Index
           /\ Leads(Pml4Kind(half), Top(half))
           /\ Below(Pml4Kind(half), Top(half)) = IF half = "user" THEN "low" ELSE "high"
           /\ Leads(Below(Pml4Kind(half), Top(half)), Next2(half))
           /\ Below(Below(Pml4Kind(half), Top(half)), Next2(half)) = "directory"
           /\ Pml4Kind(half) \in {"userPml4", "kernelPml4"}
  <1>1. n \div ENTRIES \in Index /\ n % ENTRIES \in Index
    BY Digits
  <1>2. CASE half = "user"
    BY <1>1, <1>2, Sizes DEF Path, Top, Next2, Leads, Below, Pml4Kind
  <1>3. CASE half = "kernel"
    BY <1>1, <1>3, Sizes DEF Path, Top, Next2, Leads, Below, Pml4Kind
  <1> QED
    BY <1>2, <1>3 DEF Half

\* The three levels of walk_page_table.
LEMMA WalkGrows ==
    ASSUME NEW m, NEW kind, NEW up, Tree(m, kind, up), Frees(m, kind),
           NEW half \in Half, NEW n \in 0..(HEAP - 1),
           NEW p \in Frame, kind[p] = Pml4Kind(half), NEW U, m.free \subseteq U
    PROVE  LET v == Path(half, n)
               w == Descend(Descend(Descend([m |-> m, t |-> p], v[1]), v[2]), v[3])
           IN  \E k2, u2 : /\ Tree(w.m, k2, u2) /\ Frees(w.m, k2)
                           /\ Grows(p, half, U, {}, m, kind, up, w.m, k2, u2)
                           /\ w.t = NULL \/ (w.t \in Frame /\ k2[w.t] = "pagetable")
  <1> DEFINE i1 == Top(half)
             i2 == Next2(half)
             i3 == n \div ENTRIES
             w1 == Descend([m |-> m, t |-> p], i1)
             w2 == Descend(w1, i2)
             w3 == Descend(w2, i3)
             b1 == Below(Pml4Kind(half), i1)
  <1>0. w3 = Descend(Descend(Descend([m |-> m, t |-> p], Path(half, n)[1]), Path(half, n)[2]), Path(half, n)[3])
    BY PathParts, Zenon
  <1>1. /\ w1 = [m |-> w1.m, t |-> w1.t]
        /\ \E k2, u2 : /\ Tree(w1.m, k2, u2) /\ Frees(w1.m, k2)
                       /\ Grows(p, half, U, {}, m, kind, up, w1.m, k2, u2)
                       /\ Reached(w1, k2, u2, b1, <<p, i1>>)
    <2>1. /\ i1 \in Index /\ Leads(kind[p], i1) /\ Below(kind[p], i1) = b1 /\ Below(kind[p], i1) # "page"
          /\ (~Link(m.table[p][i1]) => p \in U \/ OnTheWay(p, half, m, kind, up, p, i1))
      BY PathParts DEF OnTheWay
    <2> HIDE DEF i1, b1
    <2> QED
      BY <2>1, DescendGrows
  <1> HIDE DEF w1
  <1>2. PICK k1, u1 : /\ Tree(w1.m, k1, u1) /\ Frees(w1.m, k1)
                      /\ Grows(p, half, U, {}, m, kind, up, w1.m, k1, u1)
                      /\ Reached(w1, k1, u1, b1, <<p, i1>>)
    BY <1>1
  <1>3. CASE w1.t = NULL
    <2>1. w1 = [m |-> w1.m, t |-> NULL]
      BY <1>1, <1>3
    <2>2. w3 = w1
      BY <2>1, DescendEnded, Zenon
    <2> HIDE DEF w3, w2
    <2> QED
      BY <1>0, <1>2, <1>3, <2>2, Zenon
  <1>4. CASE w1.t # NULL
    <2>1. w1.t \in Frame /\ k1[w1.t] = b1 /\ u1[w1.t] = <<p, i1>>
      BY <1>2, <1>4 DEF Reached
    <2>2. w1.m.free \subseteq U
      BY <1>2 DEF Grows
    <2>3. /\ w2 = [m |-> w2.m, t |-> w2.t]
          /\ \E k2, u2 : /\ Tree(w2.m, k2, u2) /\ Frees(w2.m, k2)
                         /\ Grows(p, half, U, {}, w1.m, k1, u1, w2.m, k2, u2)
                         /\ Reached(w2, k2, u2, "directory", <<w1.t, i2>>)
      <3>1. /\ i2 \in Index /\ Leads(k1[w1.t], i2) /\ Below(k1[w1.t], i2) = "directory"
            /\ (~Link(w1.m.table[w1.t][i2]) => w1.t \in U \/ OnTheWay(p, half, w1.m, k1, u1, w1.t, i2))
        BY <2>1, PathParts DEF OnTheWay
      <3>2. w2 = Descend([m |-> w1.m, t |-> w1.t], i2)
        BY <1>1, Zenon
      <3> DEFINE x == Descend([m |-> w1.m, t |-> w1.t], i2)
      <3>3. /\ x = [m |-> x.m, t |-> x.t]
            /\ \E k2, u2 : /\ Tree(x.m, k2, u2) /\ Frees(x.m, k2)
                           /\ Grows(p, half, U, {}, w1.m, k1, u1, x.m, k2, u2)
                           /\ Reached(x, k2, u2, Below(k1[w1.t], i2), <<w1.t, i2>>)
        <4> HIDE DEF i2
        <4> QED
          BY <1>2, <2>1, <2>2, <3>1, DescendGrows
      <3> HIDE DEF w2, x
      <3> QED
        BY <3>1, <3>2, <3>3 DEF x
    <2> HIDE DEF w2
    <2>4. PICK k2, u2 : /\ Tree(w2.m, k2, u2) /\ Frees(w2.m, k2)
                        /\ Grows(p, half, U, {}, w1.m, k1, u1, w2.m, k2, u2)
                        /\ Reached(w2, k2, u2, "directory", <<w1.t, i2>>)
      BY <2>3
    <2>5. Grows(p, half, U, {}, m, kind, up, w2.m, k2, u2)
      BY <1>2, <2>4, GrowsFurther
    <2>6. CASE w2.t = NULL
      <3>1. w2 = [m |-> w2.m, t |-> NULL]
        BY <2>3, <2>6
      <3>2. w3 = w2
        BY <3>1, DescendEnded, Zenon
      <3> HIDE DEF w3
      <3> QED
        BY <1>0, <2>4, <2>5, <2>6, <3>2 DEF w2
    <2>7. CASE w2.t # NULL
      <3>1. w2.t \in Frame /\ k2[w2.t] = "directory"
        BY <2>4, <2>7 DEF Reached
      <3>2. w2.m.free \subseteq U
        BY <2>5 DEF Grows
      <3>3. /\ i3 \in Index /\ Leads(k2[w2.t], i3) /\ Below(k2[w2.t], i3) = "pagetable"
            /\ (~Link(w2.m.table[w2.t][i3]) => w2.t \in U \/ OnTheWay(p, half, w2.m, k2, u2, w2.t, i3))
        BY <3>1, PathParts DEF OnTheWay, Leads, Below
      <3>4. w3 = Descend([m |-> w2.m, t |-> w2.t], i3)
        BY <2>3, Zenon
      <3> DEFINE x == Descend([m |-> w2.m, t |-> w2.t], i3)
      <3>5. /\ x = [m |-> x.m, t |-> x.t]
            /\ \E k3, u3 : /\ Tree(x.m, k3, u3) /\ Frees(x.m, k3)
                           /\ Grows(p, half, U, {}, w2.m, k2, u2, x.m, k3, u3)
                           /\ Reached(x, k3, u3, Below(k2[w2.t], i3), <<w2.t, i3>>)
        <4> HIDE DEF i3
        <4> QED
          BY <2>4, <3>1, <3>2, <3>3, DescendGrows
      <3> HIDE DEF w3, x
      <3>6. w3 = x
        BY <3>4 DEF x
      <3>7. PICK k3, u3 : /\ Tree(x.m, k3, u3) /\ Frees(x.m, k3)
                          /\ Grows(p, half, U, {}, w2.m, k2, u2, x.m, k3, u3)
                          /\ Reached(x, k3, u3, Below(k2[w2.t], i3), <<w2.t, i3>>)
        BY <3>5
      <3>8. Grows(p, half, U, {}, m, kind, up, x.m, k3, u3)
        BY <2>5, <3>7, GrowsFurther
      <3>9. x.t = NULL \/ (x.t \in Frame /\ k3[x.t] = "pagetable")
        BY <3>3, <3>7 DEF Reached
      <3>10. /\ Tree(w3.m, k3, u3) /\ Frees(w3.m, k3)
             /\ Grows(p, half, U, {}, m, kind, up, w3.m, k3, u3)
             /\ w3.t = NULL \/ (w3.t \in Frame /\ k3[w3.t] = "pagetable")
        BY <3>6, <3>7, <3>8, <3>9, Zenon
      <3> QED
        BY <1>0, <3>10, Zenon DEF w2
    <2> QED
      BY <2>6, <2>7
  <1> QED
    BY <1>3, <1>4

\* A page table's entry for a page that had no use.
LEMMA LinkTree ==
    ASSUME NEW m, NEW kind, NEW up, Tree(m, kind, up), Frees(m, kind),
           NEW t \in Frame, kind[t] = "pagetable", NEW j \in Index,
           NEW phys \in Frame, kind[phys] = "none", phys \notin m.free, NEW e \in Entry, e.to = phys
    PROVE  LET k2 == [kind EXCEPT ![phys] = "page"]
               u2 == [up EXCEPT ![phys] = <<t, j>>]
           IN  Tree(SetEntry(m, t, j, e), k2, u2) /\ Frees(SetEntry(m, t, j, e), k2)
  <1> DEFINE k2 == [kind EXCEPT ![phys] = "page"]
             u2 == [up EXCEPT ![phys] = <<t, j>>]
             n == SetEntry(m, t, j, e)
  <1>1. t \in Table /\ m \in Memory /\ kind \in [Frame -> Kinds] /\ up \in [Frame -> Frame \X Nat] /\ j \in Nat
    BY Sizes DEF Tree, Index
  <1>2. n \in Memory /\ n.free = m.free
         /\ \A f \in Table, i \in Index : n.table[f][i] = IF f = t /\ i = j THEN e ELSE m.table[f][i]
    BY <1>1, EntrySet
  <1>3. k2 \in [Frame -> Kinds] /\ u2 \in [Frame -> Frame \X Nat]
    BY <1>1 DEF Kinds
  <1>4. /\ k2[phys] = "page" /\ u2[phys] = <<t, j>>
        /\ \A f \in Frame : f # phys => k2[f] = kind[f] /\ u2[f] = up[f]
    BY <1>1
  <1> HIDE DEF n, k2, u2
  <1>5. ASSUME NEW f \in Frame, NEW i \in Index, Leads(k2[f], i), Link(n.table[f][i])
        PROVE  n.table[f][i].to \in Frame /\ k2[n.table[f][i].to] = Below(k2[f], i) /\ u2[n.table[f][i].to] = <<f, i>>
    <2>1. f \in Table /\ f # phys
      BY <1>4, <1>5, Sizes DEF Leads
    <2>2. k2[f] = kind[f]
      BY <1>4, <2>1
    <2>3. CASE f = t /\ i = j
      BY <1>2, <1>4, <2>1, <2>2, <2>3 DEF Below
    <2>4. CASE ~(f = t /\ i = j)
      <3>1. n.table[f][i] = m.table[f][i]
        BY <1>2, <2>1, <2>4
      <3>2. /\ m.table[f][i].to \in Frame /\ kind[m.table[f][i].to] = Below(kind[f], i)
            /\ up[m.table[f][i].to] = <<f, i>>
        BY <1>5, <2>2, <3>1, ChildOf
      <3>3. m.table[f][i].to # phys
        BY <3>2, BelowKinds
      <3> QED
        BY <1>4, <2>2, <3>1, <3>2, <3>3
    <2> QED
      BY <2>3, <2>4
  <1>6. Tree(n, k2, u2)
    BY <1>2, <1>3, <1>5 DEF Tree
  <1>7. Frees(n, k2)
    BY <1>1, <1>2, <1>4 DEF Frees, Memory
  <1> QED
    BY <1>6, <1>7 DEF n, k2, u2

LEMMA MapGrows ==
    ASSUME NEW m, NEW kind, NEW up, Tree(m, kind, up), Frees(m, kind),
           NEW half \in Half, NEW n \in 0..(HEAP - 1),
           NEW p \in Frame, kind[p] = Pml4Kind(half), NEW U, m.free \subseteq U,
           NEW phys \in Frame, kind[phys] = "none", phys \notin m.free,
           NEW flags \in SUBSET {"W", "U"}
    PROVE  LET r == map_page(m, p, Path(half, n), phys, flags)
           IN  \E k2, u2 : /\ Tree(r, k2, u2) /\ Frees(r, k2)
                           /\ Grows(p, half, U, {phys}, m, kind, up, r, k2, u2)
  <1> DEFINE v == Path(half, n)
             w == Descend(Descend(Descend([m |-> m, t |-> p], v[1]), v[2]), v[3])
             fresh == ~Present(w.m.table[w.t][v[4]])
             e == [to |-> phys, flags |-> flags \cup {"P"}]
             m3 == IF fresh THEN Take(w.m) ELSE w.m
             r == map_page(m, p, v, phys, flags)
  <1>1. PICK k1, u1 : /\ Tree(w.m, k1, u1) /\ Frees(w.m, k1)
                      /\ Grows(p, half, U, {}, m, kind, up, w.m, k1, u1)
                      /\ w.t = NULL \/ (w.t \in Frame /\ k1[w.t] = "pagetable")
    BY WalkGrows
  <1>2. r = IF w.t = NULL \/ (fresh /\ w.m.free = {}) THEN w.m ELSE SetEntry(m3, w.t, v[4], e)
    BY Zenon DEF map_page, SetEntry
  <1>3. Grows(p, half, U, {phys}, m, kind, up, w.m, k1, u1)
    BY <1>1, GrowsWider
  <1>4. v[4] \in Index
    BY PathParts
  <1>5. e \in Entry /\ e.to = phys
    BY EntryTypes, Sizes DEF Frame
  <1> HIDE DEF w, e, r, v
  <1>6. CASE w.t = NULL \/ (fresh /\ w.m.free = {})
    <2>1. r = w.m
      BY <1>2, <1>6
    <2>2. Tree(r, k1, u1) /\ Frees(r, k1) /\ Grows(p, half, U, {phys}, m, kind, up, r, k1, u1)
      BY <1>1, <1>3, <2>1
    <2> QED
      BY <2>2, Zenon DEF r, v
  <1>7. CASE ~(w.t = NULL \/ (fresh /\ w.m.free = {}))
    <2>1. r = SetEntry(m3, w.t, v[4], e)
      BY SMTT(30), <1>2, <1>7
    <2>2. w.t \in Frame /\ w.t \in Table /\ k1[w.t] = "pagetable" /\ (fresh => w.m.free # {}) /\ w.m \in Memory
      BY <1>1, <1>7, Sizes DEF Tree
    <2>3. /\ m3 \in Memory /\ m3.free \subseteq w.m.free
          /\ \A f \in Table : f \in w.m.free \/ m3.table[f] = w.m.table[f]
      BY <2>2, TakeFacts
    <2> HIDE DEF m3, fresh
    <2>4. Tree(m3, k1, u1) /\ Frees(m3, k1)
      BY <1>1, <2>3, Untouched
    <2>5. k1[phys] = "none" /\ u1[phys] = up[phys] /\ phys \notin w.m.free /\ w.m.free \subseteq U
      BY <1>1 DEF Grows
    <2> DEFINE k2 == [k1 EXCEPT ![phys] = "page"]
               u2 == [u1 EXCEPT ![phys] = <<w.t, v[4]>>]
    <2>6. Tree(r, k2, u2) /\ Frees(r, k2)
      <3>1. phys \notin m3.free
        BY <2>3, <2>5
      <3> QED
        BY <1>4, <1>5, <2>1, <2>2, <2>4, <2>5, <3>1, LinkTree
    <2>7. \A f \in Frame : f # phys => k2[f] = k1[f] /\ u2[f] = u1[f]
      BY <1>1 DEF Tree
    <2>8. /\ r.free = m3.free
          /\ \A f \in Table, i \in Index : r.table[f][i] = IF f = w.t /\ i = v[4] THEN e ELSE m3.table[f][i]
      BY <1>4, <1>5, <2>1, <2>2, <2>3, EntrySet
    <2> HIDE DEF k2, u2
    <2>9. Grows(p, half, U, {phys}, m, kind, up, r, k2, u2)
      <3>1. r.free \subseteq m.free
        BY <1>1, <2>3, <2>8 DEF Grows
      <3>2. \A f \in Frame : f \in m.free \cup {phys} \/ (k2[f] = kind[f] /\ u2[f] = up[f])
        BY <1>1, <2>7 DEF Grows
      <3>3. ASSUME NEW f \in Table, NEW i \in Index, f \notin U, r.table[f][i] # m.table[f][i]
            PROVE  f \in Frame /\ OnTheWay(p, half, m, kind, up, f, i)
        <4>1. CASE f = w.t
          <5>1. f \in Frame /\ f \notin m.free /\ k1[f] = "pagetable"
            BY <2>2, <3>3, <4>1
          <5>2. kind[f] = "pagetable"
            BY <1>1, <5>1 DEF Grows
          <5> QED
            BY <5>1, <5>2 DEF OnTheWay
        <4>2. CASE f # w.t
          <5>1. r.table[f][i] = w.m.table[f][i]
            BY <2>3, <2>5, <2>8, <3>3, <4>2
          <5> QED
            BY <1>1, <3>3, <5>1 DEF Grows
        <4> QED
          BY <4>1, <4>2
      <3> QED
        BY <3>1, <3>2, <3>3 DEF Grows
    <2> QED
      BY <2>6, <2>9, Zenon DEF r, v
  <1> QED
    BY <1>6, <1>7

-----------------------------------------------------------------------------
(***************************************************************************)
(* A buffer: its pages, and their mapping.                                 *)
(***************************************************************************)

\* phys_pages takes a page in every round of its loop.
Grab(g, m, n) ==
    g = [k \in 0..n |->
           IF k = 0 THEN [m |-> m, pages |-> <<>>]
           ELSE [m |-> Take(g[k-1].m), pages |-> [j \in 1..k |->
                   IF j = k THEN Pmm_Malloc(g[k-1].m) ELSE g[k-1].pages[j]]]]

LEMMA GrabExists ==
    ASSUME NEW m, NEW n \in Nat
    PROVE  \E g : Grab(g, m, n) /\ phys_pages(m, n) = g[n]
  <1> DEFINE good == {k \in Nat : \E g : Grab(g, m, k)}
             First == [m |-> m, pages |-> <<>>]
             Then(k, s) == [m |-> Take(s.m), pages |-> [j \in 1..k |->
                               IF j = k THEN Pmm_Malloc(s.m) ELSE s.pages[j]]]
  <1>1. 0 \in good
    <2> DEFINE g == [k \in {0} |-> First]
    <2>1. 0..0 = {0} /\ g[0] = First
      OBVIOUS
    <2>2. Grab(g, m, 0)
      BY <2>1 DEF Grab
    <2> QED
      BY <2>2
  <1>2. ASSUME NEW k \in 1..n, k - 1 \in good PROVE k \in good
    <2>1. PICK f : Grab(f, m, k - 1)
      BY <1>2
    <2> DEFINE g == [j \in 0..k |-> IF j = k THEN Then(k, f[k-1]) ELSE f[j]]
    <2>2. k \in 0..k /\ k - 1 \in 0..k /\ k # k - 1 /\ k # 0 /\ k \in Nat
      OBVIOUS
    <2>3. g[k - 1] = f[k - 1]
      BY SMTT(30), <2>2
    <2>4. ASSUME NEW j \in 0..k PROVE g[j] = IF j = 0 THEN First ELSE Then(j, g[j-1])
      <3>1. CASE j = k
        BY <2>2, <2>3, <3>1
      <3>2. CASE j # k
        <4>1. j \in 0..(k - 1) /\ g[j] = f[j] /\ (j # 0 => j - 1 \in 0..k /\ j - 1 # k)
          BY <3>2
        <4>2. j # 0 => g[j-1] = f[j-1]
          BY <4>1
        <4>3. f[j] = IF j = 0 THEN First ELSE Then(j, f[j-1])
          <5> DEFINE h == [i \in 0..(k-1) |-> IF i = 0 THEN First ELSE Then(i, f[i-1])]
          <5>1. h[j] = IF j = 0 THEN First ELSE Then(j, f[j-1])
            BY <4>1
          <5>2. f = h
            BY <2>1, Zenon DEF Grab
          <5> HIDE DEF h, First, Then
          <5> QED
            BY <5>1, <5>2
        <4> HIDE DEF g, First, Then
        <4> QED
          BY <4>1, <4>2, <4>3
      <3> QED
        BY <3>1, <3>2
    <2>5. Grab(g, m, k)
      <3> HIDE DEF First, Then
      <3>1. g = [j \in 0..k |-> IF j = 0 THEN First ELSE Then(j, g[j-1])]
        <4>1. \A j \in 0..k : g[j] = IF j = 0 THEN First ELSE Then(j, g[j-1])
          BY <2>4
        <4>2. g = [j \in 0..k |-> g[j]]
          BY Zenon
        <4> HIDE DEF g
        <4> QED
          BY <4>1, <4>2, Zenon
      <3> QED
        BY <3>1, Zenon DEF Grab, First, Then
    <2> QED
      BY <2>2, <2>5
  <1>3. n \in good
    <2> HIDE DEF good
    <2> QED
      BY <1>1, <1>2, Upwards
  <1>4. \E g : Grab(g, m, n)
    BY <1>3
  <1> QED
    BY <1>4, Zenon DEF phys_pages, Grab

\* The pages of a buffer were free, are different and are no longer free.
LEMMA GrabFacts ==
    ASSUME NEW m \in Memory, NEW n \in Nat, Cardinality(m.free) >= n
    PROVE  LET got == phys_pages(m, n)
           IN  /\ got.m \in Memory /\ got.m.free \subseteq m.free
               /\ \A f \in Table : f \in m.free \/ got.m.table[f] = m.table[f]
               /\ DOMAIN got.pages = 1..n
               /\ \A j \in 1..n : got.pages[j] \in m.free /\ got.pages[j] \notin got.m.free
               /\ \A i, j \in 1..n : i # j => got.pages[i] # got.pages[j]
  <1> DEFINE P(s, k) ==
               /\ s.m \in Memory /\ s.m.free \subseteq m.free
               /\ Cardinality(s.m.free) = Cardinality(m.free) - k
               /\ \A f \in Table : f \in m.free \/ s.m.table[f] = m.table[f]
               /\ DOMAIN s.pages = 1..k
               /\ \A j \in 1..k : s.pages[j] \in m.free /\ s.pages[j] \notin s.m.free
               /\ \A i, j \in 1..k : i # j => s.pages[i] # s.pages[j]
  <1>1. PICK g : Grab(g, m, n) /\ phys_pages(m, n) = g[n]
    BY GrabExists
  <1> DEFINE First == [m |-> m, pages |-> <<>>]
             Then(k, s) == [m |-> Take(s.m), pages |-> [j \in 1..k |->
                               IF j = k THEN Pmm_Malloc(s.m) ELSE s.pages[j]]]
             h == [k \in 0..n |-> IF k = 0 THEN First ELSE Then(k, g[k-1])]
  <1>2. g = h
    BY <1>1, Zenon DEF Grab
  <1>3. g[0] = First /\ \A k \in 1..n : g[k] = Then(k, g[k-1])
    <2>1. h[0] = First /\ \A k \in 1..n : h[k] = Then(k, g[k-1])
      <3> HIDE DEF First, Then
      <3> QED
        OBVIOUS
    <2> HIDE DEF h, First, Then
    <2> QED
      BY <1>2, <2>1
  <1> HIDE DEF h
  <1>4. IsFiniteSet(m.free) /\ Cardinality(m.free) \in Nat
    <2>1. m.free \in SUBSET (1..FRAMES) /\ IsFiniteSet(1..FRAMES)
      BY FS_Interval DEF Memory, Frame
    <2> QED
      BY <2>1, FS_Subset, FS_CardinalityType
  <1> DEFINE G == {k \in 0..n : P(g[k], k)}
  <1>5. 0 \in G
    <2>1. g[0].m = m /\ g[0].pages = <<>>
      BY <1>3
    <2>2. DOMAIN g[0].pages = 1..0
      BY <2>1
    <2> QED
      BY <1>4, <2>1, <2>2
  <1>6. ASSUME NEW k \in 1..n, k - 1 \in G PROVE k \in G
    <2> DEFINE s == g[k-1]
               x == Pmm_Malloc(s.m)
               t == g[k]
    <2>1. P(s, k - 1)
      BY <1>6
    <2>2. t = Then(k, s)
      BY <1>3
    <2>3. t.m = Take(s.m) /\ t.pages = [j \in 1..k |-> IF j = k THEN x ELSE s.pages[j]]
      BY <2>2
    <2> HIDE DEF t, s
    <2>4. IsFiniteSet(s.m.free) /\ s.m.free # {}
      <3>1. IsFiniteSet(s.m.free)
        BY <1>4, <2>1, FS_Subset
      <3>2. Cardinality(s.m.free) > 0
        BY <1>4, <2>1
      <3> QED
        BY <3>1, <3>2, FS_EmptySet
    <2>5. /\ x \in s.m.free /\ x \in Frame
          /\ t.m \in Memory /\ t.m.free = s.m.free \ {x}
          /\ \A f \in Table : t.m.table[f] = IF f = x THEN EmptyTable ELSE s.m.table[f]
      BY <2>1, <2>3, <2>4, TakeFacts
    <2> HIDE DEF x
    <2>6. Cardinality(t.m.free) = Cardinality(m.free) - k
      <3> DEFINE F == s.m.free
      <3> HIDE DEF F
      <3>1. Cardinality(F \ {x}) = Cardinality(F) - 1
        BY <2>4, <2>5, FS_RemoveElement DEF F
      <3>2. Cardinality(t.m.free) = Cardinality(s.m.free) - 1
        BY <2>5, <3>1 DEF F
      <3> QED
        BY <1>4, <2>1, <3>2
    <2>7. DOMAIN t.pages = 1..k /\ t.pages[k] = x /\ \A j \in 1..(k-1) : t.pages[j] = s.pages[j]
      BY <2>3
    <2>8. \A j \in 1..k : j = k \/ j \in 1..(k-1)
      OBVIOUS
    <2>9. t.m.free \subseteq m.free
      BY <2>1, <2>5
    <2>10. \A f \in Table : f \in m.free \/ t.m.table[f] = m.table[f]
      BY <2>1, <2>5
    <2>11. \A j \in 1..k : t.pages[j] \in m.free /\ t.pages[j] \notin t.m.free
      BY <2>1, <2>5, <2>7, <2>8
    <2>12. \A i, j \in 1..k : i # j => t.pages[i] # t.pages[j]
      BY <2>1, <2>5, <2>7, <2>8
    <2>13. P(t, k)
      BY <2>5, <2>6, <2>7, <2>9, <2>10, <2>11, <2>12
    <2> HIDE DEF P
    <2> QED
      BY <2>13 DEF t
  <1>7. n \in G
    <2> HIDE DEF G
    <2> QED
      BY <1>5, <1>6, Upwards
  <1>8. P(g[n], n)
    BY <1>7
  <1> HIDE DEF P
  <1>9. P(phys_pages(m, n), n)
    BY <1>1, <1>8
  <1> QED
    BY <1>9 DEF P

\* vmm_map_range maps the pages one by one.
Mapping(g, m, pml4, half, n, pages, count) ==
    g = [k \in 0..count |->
           IF k = 0 THEN m
           ELSE map_page(g[k-1], pml4, Path(half, n + k - 1), pages[k],
                         IF half = "user" THEN {"W", "U"} ELSE {"W"})]

LEMMA MappingExists ==
    ASSUME NEW m, NEW pml4, NEW half, NEW n, NEW pages, NEW N \in Nat, DOMAIN pages = 1..N
    PROVE  \E g : Mapping(g, m, pml4, half, n, pages, N) /\ vmm_map_range(m, pml4, half, n, pages) = g[N]
  <1> DEFINE good == {k \in Nat : \E g : Mapping(g, m, pml4, half, n, pages, k)}
             Then(k, s) == map_page(s, pml4, Path(half, n + k - 1), pages[k],
                                    IF half = "user" THEN {"W", "U"} ELSE {"W"})
  <1>1. 0 \in good
    <2> DEFINE g == [k \in {0} |-> m]
    <2>1. 0..0 = {0} /\ g[0] = m
      OBVIOUS
    <2>2. Mapping(g, m, pml4, half, n, pages, 0)
      BY <2>1 DEF Mapping
    <2> QED
      BY <2>2
  <1>2. ASSUME NEW k \in 1..N, k - 1 \in good PROVE k \in good
    <2>1. PICK f : Mapping(f, m, pml4, half, n, pages, k - 1)
      BY <1>2
    <2> DEFINE g == [j \in 0..k |-> IF j = k THEN Then(k, f[k-1]) ELSE f[j]]
    <2>2. k \in 0..k /\ k - 1 \in 0..k /\ k # k - 1 /\ k # 0 /\ k \in Nat
      OBVIOUS
    <2>3. g[k - 1] = f[k - 1]
      BY <2>2
    <2>4. ASSUME NEW j \in 0..k PROVE g[j] = IF j = 0 THEN m ELSE Then(j, g[j-1])
      <3> HIDE DEF Then
      <3>1. CASE j = k
        BY <2>2, <2>3, <3>1
      <3>2. CASE j # k
        <4>1. j \in 0..(k - 1) /\ g[j] = f[j] /\ (j # 0 => j - 1 \in 0..k /\ j - 1 # k)
          BY <3>2
        <4>2. j # 0 => g[j-1] = f[j-1]
          BY <4>1
        <4>3. f[j] = IF j = 0 THEN m ELSE Then(j, f[j-1])
          <5> DEFINE h == [i \in 0..(k-1) |-> IF i = 0 THEN m ELSE Then(i, f[i-1])]
          <5>1. h[j] = IF j = 0 THEN m ELSE Then(j, f[j-1])
            BY <4>1
          <5>2. f = h
            BY <2>1, Zenon DEF Mapping, Then
          <5> HIDE DEF h
          <5> QED
            BY <5>1, <5>2
        <4> HIDE DEF g
        <4> QED
          BY <4>1, <4>2, <4>3
      <3> QED
        BY <3>1, <3>2
    <2>5. Mapping(g, m, pml4, half, n, pages, k)
      <3> HIDE DEF Then
      <3>1. g = [j \in 0..k |-> IF j = 0 THEN m ELSE Then(j, g[j-1])]
        <4>1. \A j \in 0..k : g[j] = IF j = 0 THEN m ELSE Then(j, g[j-1])
          BY <2>4
        <4>2. g = [j \in 0..k |-> g[j]]
          BY Zenon
        <4> HIDE DEF g
        <4> QED
          BY <4>1, <4>2, Zenon
      <3> QED
        BY <3>1, Zenon DEF Mapping, Then
    <2> QED
      BY <2>2, <2>5
  <1>3. N \in good
    <2> HIDE DEF good
    <2> QED
      BY <1>1, <1>2, Upwards
  <1>4. \E g : Mapping(g, m, pml4, half, n, pages, N)
    BY <1>3
  <1>5. Cardinality(DOMAIN pages) = N
    BY FS_Interval
  <1> QED
    BY <1>4, <1>5, Zenon DEF vmm_map_range, Mapping

LEMMA MapRangeGrows ==
    ASSUME NEW m, NEW kind, NEW up, Tree(m, kind, up), Frees(m, kind), NEW half \in Half,
           NEW U \in SUBSET Frame, m.free \subseteq U, NEW p \in Frame \ U, kind[p] = Pml4Kind(half),
           NEW N \in Nat, NEW n \in Nat, n + N <= HEAP, NEW pages, DOMAIN pages = 1..N,
           \A j \in 1..N : pages[j] \in U /\ pages[j] \notin m.free /\ kind[pages[j]] = "none",
           \A i, j \in 1..N : i # j => pages[i] # pages[j]
    PROVE  LET r == vmm_map_range(m, p, half, n, pages)
           IN  \E k2, u2 : /\ Tree(r, k2, u2) /\ Frees(r, k2)
                           /\ Grows(p, half, U, U, m, kind, up, r, k2, u2)
  <1> DEFINE flags == IF half = "user" THEN {"W", "U"} ELSE {"W"}
             P(r, k) == \E k2, u2 : /\ Tree(r, k2, u2) /\ Frees(r, k2)
                                    /\ Grows(p, half, U, U, m, kind, up, r, k2, u2)
                                    /\ \A j \in (k+1)..N : k2[pages[j]] = "none"
  <1>1. PICK g : Mapping(g, m, p, half, n, pages, N) /\ vmm_map_range(m, p, half, n, pages) = g[N]
    BY MappingExists
  <1> DEFINE Then(k, s) == map_page(s, p, Path(half, n + k - 1), pages[k], flags)
             h == [k \in 0..N |-> IF k = 0 THEN m ELSE Then(k, g[k-1])]
  <1>2. g = h
    BY <1>1, Zenon DEF Mapping
  <1>3. g[0] = m /\ \A k \in 1..N : g[k] = Then(k, g[k-1])
    <2>1. h[0] = m /\ \A k \in 1..N : h[k] = Then(k, g[k-1])
      <3> HIDE DEF Then
      <3> QED
        OBVIOUS
    <2> HIDE DEF h, Then
    <2> QED
      BY <1>2, <2>1
  <1> HIDE DEF h
  <1> DEFINE G == {k \in 0..N : P(g[k], k)}
  <1>4. 0 \in G
    <2>1. Grows(p, half, U, U, m, kind, up, m, kind, up) /\ g[0] = m
      BY <1>3, GrowsStays
    <2>2. \A j \in (0+1)..N : kind[pages[j]] = "none"
      OBVIOUS
    <2> QED
      BY <2>1, <2>2
  <1>5. ASSUME NEW k \in 1..N, k - 1 \in G PROVE k \in G
    <2>1. PICK k1, u1 : /\ Tree(g[k-1], k1, u1) /\ Frees(g[k-1], k1)
                        /\ Grows(p, half, U, U, m, kind, up, g[k-1], k1, u1)
                        /\ \A j \in k..N : k1[pages[j]] = "none"
      BY <1>5
    <2> DEFINE phys == pages[k]
               a == n + k - 1
               s == g[k-1]
    <2>2. /\ a \in 0..(HEAP - 1) /\ k \in k..N
      BY Sizes
    <2>3. phys \in Frame /\ phys \in U /\ phys \notin m.free /\ k1[phys] = "none"
      BY <2>1, <2>2
    <2>4. s.free \subseteq U /\ phys \notin s.free /\ s.free \subseteq m.free
      BY <2>1, <2>3 DEF Grows
    <2>5. k1[p] = Pml4Kind(half)
      BY <2>1 DEF Grows
    <2>6. flags \in SUBSET {"W", "U"}
      OBVIOUS
    <2> DEFINE r == map_page(s, p, Path(half, a), phys, flags)
    <2>7. g[k] = r
      BY <1>3
    <2>8. PICK k2, u2 : /\ Tree(r, k2, u2) /\ Frees(r, k2)
                        /\ Grows(p, half, U, {phys}, s, k1, u1, r, k2, u2)
      <3> HIDE DEF s, a, phys, flags
      <3> QED
        BY <2>1, <2>2, <2>3, <2>4, <2>5, <2>6, MapGrows DEF s
    <2> HIDE DEF r
    <2>9. Grows(p, half, U, U, m, kind, up, r, k2, u2)
      <3>1. Grows(p, half, U, U, s, k1, u1, r, k2, u2)
        BY <2>3, <2>8, GrowsWider
      <3> QED
        BY <2>1, <3>1, GrowsFurther
    <2>10. ASSUME NEW j \in (k+1)..N PROVE k2[pages[j]] = "none"
      <3>1. j \in k..N /\ j \in 1..N /\ j # k
        OBVIOUS
      <3>2. pages[j] # phys /\ pages[j] \notin s.free /\ k1[pages[j]] = "none" /\ pages[j] \in Frame
        BY <2>1, <2>4, <3>1
      <3> QED
        BY <2>8, <3>2 DEF Grows
    <2>11. P(r, k)
      BY <2>8, <2>9, <2>10
    <2> HIDE DEF P
    <2> QED
      BY <2>7, <2>11
  <1>6. N \in G
    <2> HIDE DEF G
    <2> QED
      BY <1>4, <1>5, Upwards
  <1>7. P(g[N], N)
    BY <1>6
  <1>8. PICK k2, u2 : /\ Tree(g[N], k2, u2) /\ Frees(g[N], k2)
                      /\ Grows(p, half, U, U, m, kind, up, g[N], k2, u2)
    BY <1>7
  <1> QED
    BY <1>1, <1>8, ZenonT(60)

\* A manager as it is used here.
Manager == [half : Half, Pml4 : Frame, Address : 1..HEAP, PageSize : Int, AllocRecordNum : Int]
Record == [half : Half, page : Nat, size : Nat]

\* What Vmm_Malloc adds in the descriptor.
Raised(d, n) == [d EXCEPT !.Address = @ + n, !.PageSize = @ + n, !.AllocRecordNum = @ + 1]

\* What Vmm_Malloc returns: nothing was done, or the pages are mapped.
Malloced(m, kind, up, rec, d, n, r) ==
    \/ r = [m |-> m, rec |-> rec, d |-> d, at |-> NULL]
    \/ /\ r.at = d.Address /\ d.Address + n <= HEAP
       /\ r.rec = [rec EXCEPT ![d.AllocRecordNum] = [half |-> d.half, page |-> d.Address, size |-> n]]
       /\ r.d = Raised(d, n)
       /\ \E k2, u2 : /\ Tree(r.m, k2, u2) /\ Frees(r.m, k2)
                      /\ Grows(d.Pml4, d.half, m.free, {}, m, kind, up, r.m, k2, u2)

LEMMA MallocGrows ==
    ASSUME NEW m, NEW kind, NEW up, Tree(m, kind, up), Frees(m, kind),
           NEW rec, NEW d, d.half \in Half, d.Pml4 \in Frame, kind[d.Pml4] = Pml4Kind(d.half),
           d.Address \in 1..HEAP, NEW n \in Nat
    PROVE  Malloced(m, kind, up, rec, d, n, Vmm_Malloc(m, rec, d, n))
  <1> DEFINE r == Vmm_Malloc(m, rec, d, n)
             got == phys_pages(m, n)
             x == vmm_map_range(got.m, d.Pml4, d.half, d.Address, got.pages)
             rec2 == [rec EXCEPT ![d.AllocRecordNum] = [half |-> d.half, page |-> d.Address, size |-> n]]
             d2 == Raised(d, n)
  <1>1. r = IF d.Address + n > HEAP \/ Cardinality(m.free) < n
            THEN [m |-> m, rec |-> rec, d |-> d, at |-> NULL]
            ELSE [m |-> x, rec |-> rec2, d |-> d2, at |-> d.Address]
    BY Zenon DEF Vmm_Malloc, Raised
  <1>2. CASE d.Address + n > HEAP \/ Cardinality(m.free) < n
    BY <1>1, <1>2, Zenon DEF Malloced
  <1>3. CASE ~(d.Address + n > HEAP \/ Cardinality(m.free) < n)
    <2>0. /\ m \in Memory /\ m.free \in SUBSET Frame
          /\ IsFiniteSet(m.free) /\ Cardinality(m.free) \in Nat
      <3>0. m \in Memory
        BY DEF Tree
      <3>1. m \in Memory /\ m.free \in SUBSET (1..FRAMES) /\ IsFiniteSet(1..FRAMES)
        BY <3>0, FS_Interval DEF Memory, Frame
      <3> QED
        BY <3>1, FS_Subset, FS_CardinalityType DEF Frame
    <2>1. d.Address + n <= HEAP /\ Cardinality(m.free) >= n /\ d.Address \in Nat
      BY <1>3, <2>0, Sizes
    <2>2. /\ got.m \in Memory /\ got.m.free \subseteq m.free
          /\ \A f \in Table : f \in m.free \/ got.m.table[f] = m.table[f]
          /\ DOMAIN got.pages = 1..n
          /\ \A j \in 1..n : got.pages[j] \in m.free /\ got.pages[j] \notin got.m.free
          /\ \A i, j \in 1..n : i # j => got.pages[i] # got.pages[j]
      BY <2>0, <2>1, GrabFacts
    <2> HIDE DEF got
    <2>3. Tree(got.m, kind, up) /\ Frees(got.m, kind)
      BY <2>2, Untouched
    <2>4. d.Pml4 \in Frame \ m.free /\ \A j \in 1..n : kind[got.pages[j]] = "none"
      BY <2>2 DEF Frees, Pml4Kind
    <2>5. PICK k2, u2 : /\ Tree(x, k2, u2) /\ Frees(x, k2)
                        /\ Grows(d.Pml4, d.half, m.free, m.free, got.m, kind, up, x, k2, u2)
      <3> DEFINE gm == got.m
                 gp == got.pages
                 p == d.Pml4
                 half == d.half
                 a == d.Address
                 F == m.free
      <3>1. /\ gm.free \subseteq F /\ DOMAIN gp = 1..n
            /\ \A j \in 1..n : gp[j] \in F /\ gp[j] \notin gm.free /\ kind[gp[j]] = "none"
            /\ \A i, j \in 1..n : i # j => gp[i] # gp[j]
            /\ a \in Nat /\ a + n <= HEAP /\ half \in Half /\ p \in Frame \ F /\ kind[p] = Pml4Kind(half)
            /\ Tree(gm, kind, up) /\ Frees(gm, kind) /\ F \in SUBSET Frame
        BY <2>0, <2>1, <2>2, <2>3, <2>4
      <3>2. x = vmm_map_range(gm, p, half, a, gp)
        OBVIOUS
      <3> HIDE DEF x, gm, gp, p, half, a, F
      <3>3. \E k2, u2 : /\ Tree(x, k2, u2) /\ Frees(x, k2)
                        /\ Grows(p, half, F, F, gm, kind, up, x, k2, u2)
        BY <3>1, <3>2, MapRangeGrows
      <3> QED
        BY <3>3 DEF gm, p, half, F
    <2> HIDE DEF x
    <2>6. Grows(d.Pml4, d.half, m.free, {}, m, kind, up, x, k2, u2)
      BY <2>2, <2>5 DEF Grows, OnTheWay
    <2> HIDE DEF rec2, d2
    <2>7. r = [m |-> x, rec |-> rec2, d |-> d2, at |-> d.Address]
      BY <1>1, <1>3
    <2>8. r.m = x /\ r.rec = rec2 /\ r.d = d2 /\ r.at = d.Address
      BY <2>7
    <2>9. \E kk, uu : Tree(r.m, kk, uu) /\ Frees(r.m, kk)
                      /\ Grows(d.Pml4, d.half, m.free, {}, m, kind, up, r.m, kk, uu)
      BY <2>5, <2>6, <2>8, Zenon
    <2> QED
      BY <2>1, <2>8, <2>9, Zenon DEF rec2, d2, Malloced
  <1> QED
    BY <1>2, <1>3

-----------------------------------------------------------------------------
(***************************************************************************)
(* The way to a page, without creating tables.                             *)
(***************************************************************************)
LEMMA FollowFacts ==
    ASSUME NEW m, NEW t, NEW i
    PROVE  /\ t = NULL => Follow(m, t, i) = NULL
           /\ t # NULL /\ ~Link(m.table[t][i]) => Follow(m, t, i) = NULL
           /\ t # NULL /\ Link(m.table[t][i]) => Follow(m, t, i) = m.table[t][i].to
           /\ Follow(m, t, i) # NULL => t # NULL /\ Link(m.table[t][i])
  <1>1. t # NULL /\ Link(m.table[t][i]) => Follow(m, t, i) = m.table[t][i].to
    BY Zenon DEF Follow, Link
  <1>2. t = NULL \/ ~Link(m.table[t][i]) => Follow(m, t, i) = NULL
    BY Zenon DEF Follow, Link
  <1> QED
    BY <1>1, <1>2, Zenon

\* One step of a walk through tables with kinds.
LEMMA FollowTree ==
    ASSUME NEW m, NEW kind, NEW up, Tree(m, kind, up),
           NEW f \in Frame, NEW i \in Index, Leads(kind[f], i)
    PROVE  \/ Follow(m, f, i) = NULL
           \/ /\ Follow(m, f, i) \in Frame /\ kind[Follow(m, f, i)] = Below(kind[f], i)
              /\ up[Follow(m, f, i)] = <<f, i>>
              /\ Link(m.table[f][i]) /\ Follow(m, f, i) = m.table[f][i].to
  <1>1. f # NULL
    BY Sizes
  <1>2. CASE Link(m.table[f][i])
    <2>1. Follow(m, f, i) = m.table[f][i].to
      BY <1>1, <1>2, FollowFacts
    <2>2. /\ m.table[f][i].to \in Frame
          /\ kind[m.table[f][i].to] = Below(kind[f], i)
          /\ up[m.table[f][i].to] = <<f, i>>
      BY <1>2, ChildOf
    <2> QED
      BY <1>2, <2>1, <2>2
  <1>3. CASE ~Link(m.table[f][i])
    BY <1>1, <1>3, FollowFacts, Zenon
  <1> QED
    BY <1>2, <1>3

\* The places in the tables of the page n of a half: the three tables below the PML4, and the page.
T1(m, p, half) == Follow(m, p, Top(half))
T2(m, p, half) == Follow(m, T1(m, p, half), Next2(half))
T3(m, p, half, n) == Follow(m, T2(m, p, half), n \div ENTRIES)
At(m, p, half, n) == Follow(m, T3(m, p, half, n), n % ENTRIES)

LEMMA VirtIsAt ==
    ASSUME NEW m, NEW p, NEW half \in Half, NEW n \in 0..(HEAP - 1)
    PROVE  /\ virt_to_phys_on(m, p, half, n) = At(m, p, half, n)
           /\ LastTable(m, p, Path(half, n)) = T3(m, p, half, n)
           /\ Path(half, n)[4] = n % ENTRIES
  <1>1. ~(n >= HEAP)
    BY Sizes
  <1>2. LastTable(m, p, Path(half, n)) = T3(m, p, half, n)
    BY PathParts, Zenon DEF LastTable, T1, T2, T3
  <1> QED
    BY <1>1, <1>2, PathParts, Zenon DEF virt_to_phys_on, At

\* A table of kind k that the entry e refers to, or nothing.
Is(kind, up, t, k, e) == t = NULL \/ (t \in Frame /\ kind[t] = k /\ up[t] = e)

\* The kinds of the tables on the way and what refers to them.
LEMMA WayTree ==
    ASSUME NEW m, NEW kind, NEW up, Tree(m, kind, up), NEW half \in Half, NEW p \in Frame,
           Leads(kind[p], Top(half)), kind[p] \in {"userPml4", "kernelPml4"}
    PROVE  /\ Is(kind, up, T1(m, p, half), IF half = "user" THEN "low" ELSE "high", <<p, Top(half)>>)
           /\ Is(kind, up, T2(m, p, half), "directory", <<T1(m, p, half), Next2(half)>>)
           /\ T2(m, p, half) # NULL => T1(m, p, half) # NULL
           /\ \A n \in 0..(HEAP - 1) :
                /\ Is(kind, up, T3(m, p, half, n), "pagetable", <<T2(m, p, half), n \div ENTRIES>>)
                /\ Is(kind, up, At(m, p, half, n), "page", <<T3(m, p, half, n), n % ENTRIES>>)
                /\ T3(m, p, half, n) # NULL => T2(m, p, half) # NULL
                /\ At(m, p, half, n) # NULL =>
                     /\ T3(m, p, half, n) # NULL
                     /\ Link(m.table[T3(m, p, half, n)][n % ENTRIES])
                     /\ At(m, p, half, n) = m.table[T3(m, p, half, n)][n % ENTRIES].to
  <1> DEFINE t1 == T1(m, p, half)
             t2 == T2(m, p, half)
             kl == IF half = "user" THEN "low" ELSE "high"
  <1>0. Top(half) \in Index /\ Next2(half) \in Index
    BY Sizes DEF Top, Next2
  <1>1. Is(kind, up, t1, kl, <<p, Top(half)>>)
    <2>1. Below(kind[p], Top(half)) = kl
      BY DEF Below, Top, Half
    <2> QED
      BY <1>0, <2>1, FollowTree DEF T1, Is
  <1> HIDE DEF t1
  <1>2. Is(kind, up, t2, "directory", <<t1, Next2(half)>>) /\ (t2 # NULL => t1 # NULL)
    <2>1. t2 = Follow(m, t1, Next2(half))
      BY DEF T2, t1
    <2>2. CASE t1 = NULL
      BY <2>1, <2>2, FollowFacts DEF Is
    <2>3. CASE t1 # NULL
      <3>1. t1 \in Frame /\ kind[t1] = kl
        BY <1>1, <2>3 DEF Is
      <3>2. Leads(kind[t1], Next2(half)) /\ Below(kind[t1], Next2(half)) = "directory"
        BY <3>1 DEF Leads, Below, Next2, Half
      <3> QED
        BY <1>0, <2>1, <2>3, <3>1, <3>2, FollowTree DEF Is
    <2> QED
      BY <2>2, <2>3
  <1> HIDE DEF t2
  <1>3. ASSUME NEW n \in 0..(HEAP - 1)
        PROVE  /\ Is(kind, up, T3(m, p, half, n), "pagetable", <<t2, n \div ENTRIES>>)
               /\ Is(kind, up, At(m, p, half, n), "page", <<T3(m, p, half, n), n % ENTRIES>>)
               /\ T3(m, p, half, n) # NULL => t2 # NULL
               /\ At(m, p, half, n) # NULL =>
                    /\ T3(m, p, half, n) # NULL
                    /\ Link(m.table[T3(m, p, half, n)][n % ENTRIES])
                    /\ At(m, p, half, n) = m.table[T3(m, p, half, n)][n % ENTRIES].to
    <2> DEFINE t3 == T3(m, p, half, n)
               i == n \div ENTRIES
               j == n % ENTRIES
    <2>0. i \in Index /\ j \in Index
      BY Digits
    <2> HIDE DEF i, j
    <2>1. t3 = Follow(m, t2, i)
      BY DEF T3, t2, i
    <2>2. Is(kind, up, t3, "pagetable", <<t2, i>>) /\ (t3 # NULL => t2 # NULL)
      <3>1. CASE t2 = NULL
        BY <2>1, <3>1, FollowFacts DEF Is
      <3>2. CASE t2 # NULL
        <4>1. t2 \in Frame /\ kind[t2] = "directory"
          BY <1>2, <3>2 DEF Is
        <4>2. Leads(kind[t2], i) /\ Below(kind[t2], i) = "pagetable"
          BY <4>1 DEF Leads, Below
        <4> QED
          BY <2>0, <2>1, <3>2, <4>1, <4>2, FollowTree DEF Is
      <3> QED
        BY <3>1, <3>2
    <2> HIDE DEF t3
    <2>3. At(m, p, half, n) = Follow(m, t3, j)
      BY DEF At, t3, j
    <2>4. /\ Is(kind, up, At(m, p, half, n), "page", <<t3, j>>)
          /\ At(m, p, half, n) # NULL =>
               t3 # NULL /\ Link(m.table[t3][j]) /\ At(m, p, half, n) = m.table[t3][j].to
      <3>1. CASE t3 = NULL
        BY <2>3, <3>1, FollowFacts DEF Is
      <3>2. CASE t3 # NULL
        <4>1. t3 \in Frame /\ kind[t3] = "pagetable"
          BY <2>2, <3>2 DEF Is
        <4>2. Leads(kind[t3], j) /\ Below(kind[t3], j) = "page"
          BY <4>1 DEF Leads, Below
        <4> QED
          BY <2>0, <2>3, <3>2, <4>1, <4>2, FollowTree DEF Is
      <3> QED
        BY <3>1, <3>2
    <2> QED
      BY <2>2, <2>4 DEF t3, i, j
  <1> QED
    BY <1>1, <1>2, <1>3 DEF t1, t2

-----------------------------------------------------------------------------
(***************************************************************************)
(* Giving pages back.                                                      *)
(***************************************************************************)

\* The page table's PML4.
Root(up, f) == up[up[up[f][1]][1]][1]

\* What an operation that unmaps pages of page table p does.
Shrinks(p, m, kind, up, n, kind2) ==
    /\ \A f \in Frame : kind2[f] = kind[f] \/ (kind[f] = "page" /\ kind2[f] = "none")
    /\ \A f \in Table, i \in Index :
         n.table[f][i] = m.table[f][i] \/ (f \in Frame /\ kind[f] = "pagetable" /\ Root(up, f) = p)

LEMMA UnmapShrinks ==
    ASSUME NEW m, NEW kind, NEW up, Tree(m, kind, up), Frees(m, kind), NEW half \in Half,
           NEW p \in Frame, kind[p] = Pml4Kind(half), NEW n \in 0..(HEAP - 1), At(m, p, half, n) # NULL
    PROVE  LET f == virt_to_phys_on(m, p, half, n)
               r == Pmm_Free(unmap_page(m, p, half, n), {f})
               k2 == [kind EXCEPT ![f] = "none"]
           IN  /\ f = At(m, p, half, n)
               /\ Tree(r, k2, up) /\ Frees(r, k2) /\ Shrinks(p, m, kind, up, r, k2)
  <1> DEFINE f == At(m, p, half, n)
             t1 == T1(m, p, half)
             t2 == T2(m, p, half)
             t3 == T3(m, p, half, n)
             j == n % ENTRIES
             q == SetEntry(m, t3, j, Absent)
             r == Pmm_Free(q, {f})
             k2 == [kind EXCEPT ![f] = "none"]
  <1>1. virt_to_phys_on(m, p, half, n) = f /\ unmap_page(m, p, half, n) = q
    BY VirtIsAt, ZenonT(60) DEF unmap_page, SetEntry
  <1>2. j \in Index /\ j \in Nat
    BY Digits DEF Index
  <1>3. /\ t3 \in Frame /\ kind[t3] = "pagetable" /\ t3 \in Table /\ Root(up, t3) = p
        /\ f \in Frame /\ kind[f] = "page" /\ up[f] = <<t3, j>>
    <2>1. /\ Is(kind, up, t1, IF half = "user" THEN "low" ELSE "high", <<p, Top(half)>>)
          /\ Is(kind, up, t2, "directory", <<t1, Next2(half)>>)
          /\ t2 # NULL => t1 # NULL
          /\ Is(kind, up, t3, "pagetable", <<t2, n \div ENTRIES>>)
          /\ Is(kind, up, f, "page", <<t3, j>>)
          /\ t3 # NULL => t2 # NULL
          /\ f # NULL => t3 # NULL
      BY WayTree, PathParts
    <2> HIDE DEF t1, t2, t3, f, j
    <2>2. f # NULL
      BY DEF f
    <2>3. /\ t1 \in Frame /\ up[t1] = <<p, Top(half)>>
          /\ t2 \in Frame /\ up[t2] = <<t1, Next2(half)>>
          /\ t3 \in Frame /\ kind[t3] = "pagetable" /\ up[t3] = <<t2, n \div ENTRIES>>
          /\ f \in Frame /\ kind[f] = "page" /\ up[f] = <<t3, j>>
      BY <2>1, <2>2 DEF Is
    <2> QED
      BY <2>3, Sizes DEF Root
  <1> HIDE DEF f, t3, j
  <1>4. /\ q \in Memory /\ q.free = m.free
        /\ \A g \in Table, i \in Index : q.table[g][i] = IF g = t3 /\ i = j THEN Absent ELSE m.table[g][i]
    BY <1>2, <1>3, EntrySet, EntryTypes DEF Tree
  <1>5. /\ r \in Memory /\ r.free = m.free \cup {f} /\ r.table = q.table
    <2> HIDE DEF q
    <2> QED
      BY <1>3, <1>4 DEF Pmm_Free, Memory
  <1> HIDE DEF q, r
  <1>6. /\ k2 \in [Frame -> Kinds] /\ k2[f] = "none" /\ \A g \in Frame : g # f => k2[g] = kind[g]
    BY <1>3 DEF Tree, Kinds
  <1> HIDE DEF k2
  <1>7. ASSUME NEW g \in Frame, NEW i \in Index, Leads(k2[g], i), Link(r.table[g][i])
        PROVE  /\ r.table[g][i].to \in Frame
               /\ k2[r.table[g][i].to] = Below(k2[g], i)
               /\ up[r.table[g][i].to] = <<g, i>>
    <2>1. g # f /\ k2[g] = kind[g] /\ g \in Table
      BY <1>6, <1>7, Sizes DEF Leads
    <2>2. ~(g = t3 /\ i = j) /\ r.table[g][i] = m.table[g][i]
      BY <1>4, <1>5, <1>7, <2>1, EntryTypes
    <2>3. /\ m.table[g][i].to \in Frame /\ kind[m.table[g][i].to] = Below(kind[g], i)
          /\ up[m.table[g][i].to] = <<g, i>>
      BY <1>7, <2>1, <2>2, ChildOf
    <2>4. m.table[g][i].to # f
      BY <1>3, <2>2, <2>3
    <2> QED
      BY <1>6, <2>1, <2>2, <2>3, <2>4
  <1>8. Tree(r, k2, up)
    BY <1>5, <1>6, <1>7 DEF Tree
  <1>9. Frees(r, k2)
    BY <1>5, <1>6 DEF Frees, Tree, Memory
  <1>10. Shrinks(p, m, kind, up, r, k2)
    BY <1>3, <1>4, <1>5, <1>6 DEF Shrinks
  <1>11. /\ Tree(Pmm_Free(q, {f}), [kind EXCEPT ![f] = "none"], up)
         /\ Frees(Pmm_Free(q, {f}), [kind EXCEPT ![f] = "none"])
         /\ Shrinks(p, m, kind, up, Pmm_Free(q, {f}), [kind EXCEPT ![f] = "none"])
    BY <1>8, <1>9, <1>10 DEF r, k2
  <1> QED
    BY <1>1, <1>11, Zenon DEF f

LEMMA ShrinksFurther ==
    ASSUME NEW p, NEW up, NEW m1, NEW k1, NEW m2, NEW k2, NEW m3, NEW k3,
           Shrinks(p, m1, k1, up, m2, k2), Shrinks(p, m2, k2, up, m3, k3)
    PROVE  Shrinks(p, m1, k1, up, m3, k3)
  BY DEF Shrinks

LEMMA ShrinksStays ==
    ASSUME NEW p, NEW up, NEW m, NEW kind
    PROVE  Shrinks(p, m, kind, up, m, kind)
  BY DEF Shrinks

\* The loop of Vmm_Free.
Freeing(g, m, pml4, half, page, n) ==
    g = [k \in 0..n |->
           IF k = 0 THEN m
           ELSE LET f == virt_to_phys_on(g[k-1], pml4, half, page + k - 1)
                IN  IF f = NULL THEN g[k-1]
                    ELSE Pmm_Free(unmap_page(g[k-1], pml4, half, page + k - 1), {f})]

LEMMA FreeingExists ==
    ASSUME NEW m, NEW d, NEW half, NEW page, NEW n \in Nat
    PROVE  \E g : /\ Freeing(g, m, d.Pml4, half, page, n)
                  /\ Vmm_Free(m, d, half, page, n) =
                       IF page = 0 \/ n = 0 \/ ~OwnRange(d, half, page) THEN [m |-> m, d |-> d]
                       ELSE [m |-> g[n], d |-> Lowered(d, n)]
  <1> DEFINE p == d.Pml4
             good == {k \in Nat : \E g : Freeing(g, m, p, half, page, k)}
             Then(k, s) == LET f == virt_to_phys_on(s, p, half, page + k - 1)
                           IN  IF f = NULL THEN s ELSE Pmm_Free(unmap_page(s, p, half, page + k - 1), {f})
  <1>1. 0 \in good
    <2> DEFINE g == [k \in {0} |-> m]
    <2>1. 0..0 = {0} /\ g[0] = m
      OBVIOUS
    <2>2. Freeing(g, m, p, half, page, 0)
      BY <2>1 DEF Freeing
    <2> QED
      BY <2>2
  <1>2. ASSUME NEW k \in 1..n, k - 1 \in good PROVE k \in good
    <2>1. PICK f : Freeing(f, m, p, half, page, k - 1)
      BY <1>2
    <2> DEFINE g == [j \in 0..k |-> IF j = k THEN Then(k, f[k-1]) ELSE f[j]]
    <2>2. k \in 0..k /\ k - 1 \in 0..k /\ k # k - 1 /\ k # 0 /\ k \in Nat
      OBVIOUS
    <2>3. g[k - 1] = f[k - 1]
      BY <2>2
    <2>4. ASSUME NEW j \in 0..k PROVE g[j] = IF j = 0 THEN m ELSE Then(j, g[j-1])
      <3> HIDE DEF Then
      <3>1. CASE j = k
        BY <2>2, <2>3, <3>1
      <3>2. CASE j # k
        <4>1. j \in 0..(k - 1) /\ g[j] = f[j] /\ (j # 0 => j - 1 \in 0..k /\ j - 1 # k)
          BY <3>2
        <4>2. j # 0 => g[j-1] = f[j-1]
          BY <4>1
        <4>3. f[j] = IF j = 0 THEN m ELSE Then(j, f[j-1])
          <5> DEFINE h == [i \in 0..(k-1) |-> IF i = 0 THEN m ELSE Then(i, f[i-1])]
          <5>1. h[j] = IF j = 0 THEN m ELSE Then(j, f[j-1])
            BY <4>1
          <5>2. f = h
            BY <2>1, Zenon DEF Freeing, Then
          <5> HIDE DEF h
          <5> QED
            BY <5>1, <5>2
        <4> HIDE DEF g
        <4> QED
          BY <4>1, <4>2, <4>3
      <3> QED
        BY <3>1, <3>2
    <2>5. Freeing(g, m, p, half, page, k)
      <3> HIDE DEF Then
      <3>1. g = [j \in 0..k |-> IF j = 0 THEN m ELSE Then(j, g[j-1])]
        <4>1. \A j \in 0..k : g[j] = IF j = 0 THEN m ELSE Then(j, g[j-1])
          BY <2>4
        <4>2. g = [j \in 0..k |-> g[j]]
          BY Zenon
        <4> HIDE DEF g
        <4> QED
          BY <4>1, <4>2, Zenon
      <3> QED
        BY <3>1, Zenon DEF Freeing, Then
    <2> QED
      BY <2>2, <2>5
  <1>3. n \in good
    <2> HIDE DEF good
    <2> QED
      BY <1>1, <1>2, Upwards
  <1>4. \E g : Freeing(g, m, p, half, page, n)
    BY <1>3
  <1> QED
    BY <1>4, Zenon DEF Vmm_Free, Freeing

\* Vmm_Free on a manager's own half: pages of its heap become free, their entries absent.
LEMMA FreeShrinks ==
    ASSUME NEW m, NEW kind, NEW up, Tree(m, kind, up), Frees(m, kind),
           NEW d, d.half \in Half, d.Pml4 \in Frame, kind[d.Pml4] = Pml4Kind(d.half),
           NEW half, NEW page \in Nat, NEW n \in Nat
    PROVE  LET r == Vmm_Free(m, d, half, page, n)
           IN  /\ r.d = d \/ r.d = Lowered(d, n)
               /\ \E k2 : Tree(r.m, k2, up) /\ Frees(r.m, k2) /\ Shrinks(d.Pml4, m, kind, up, r.m, k2)
  <1> DEFINE p == d.Pml4
             r == Vmm_Free(m, d, half, page, n)
             P(s) == \E k2 : Tree(s, k2, up) /\ Frees(s, k2) /\ Shrinks(p, m, kind, up, s, k2)
  <1>1. PICK g : /\ Freeing(g, m, p, half, page, n)
                 /\ r = IF page = 0 \/ n = 0 \/ ~OwnRange(d, half, page) THEN [m |-> m, d |-> d]
                        ELSE [m |-> g[n], d |-> Lowered(d, n)]
    BY FreeingExists
  <1>2. P(m)
    BY ShrinksStays
  <1>3. CASE page = 0 \/ n = 0 \/ ~OwnRange(d, half, page)
    <2>1. r.m = m /\ r.d = d
      BY <1>1, <1>3
    <2> HIDE DEF r, P
    <2>2. P(r.m)
      BY <1>2, <2>1
    <2> QED
      BY <2>1, <2>2, Zenon DEF P, r
  <1>4. CASE ~(page = 0 \/ n = 0 \/ ~OwnRange(d, half, page))
    <2>1. half = d.half /\ half \in Half /\ page >= 1
      BY <1>4 DEF OwnRange
    <2> DEFINE Then(k, s) == LET f == virt_to_phys_on(s, p, half, page + k - 1)
                             IN  IF f = NULL THEN s ELSE Pmm_Free(unmap_page(s, p, half, page + k - 1), {f})
               h == [k \in 0..n |-> IF k = 0 THEN m ELSE Then(k, g[k-1])]
    <2>2. g = h
      BY <1>1, Zenon DEF Freeing
    <2>3. g[0] = m /\ \A k \in 1..n : g[k] = Then(k, g[k-1])
      <3>1. h[0] = m /\ \A k \in 1..n : h[k] = Then(k, g[k-1])
        <4> HIDE DEF Then
        <4> QED
          OBVIOUS
      <3> HIDE DEF h, Then
      <3> QED
        BY <2>2, <3>1
    <2> HIDE DEF h
    <2> DEFINE G == {k \in 0..n : P(g[k])}
    <2>4. 0 \in G
      <3> HIDE DEF P
      <3> QED
        BY <1>2, <2>3
    <2>5. ASSUME NEW k \in 1..n, k - 1 \in G PROVE k \in G
      <3> DEFINE s == g[k-1]
                 a == page + k - 1
                 f == virt_to_phys_on(s, p, half, a)
                 x == Pmm_Free(unmap_page(s, p, half, a), {f})
      <3>1. PICK k1 : Tree(s, k1, up) /\ Frees(s, k1) /\ Shrinks(p, m, kind, up, s, k1)
        BY <2>5
      <3>2. g[k] = IF f = NULL THEN s ELSE x
        BY <2>3, Zenon
      <3>3. CASE f = NULL
        <4>1. P(g[k])
          <5>1. g[k] = s
            BY <3>2, <3>3
          <5> HIDE DEF s
          <5> QED
            BY <3>1, <5>1
        <4> HIDE DEF P
        <4> QED
          BY <4>1
      <3>4. CASE f # NULL
        <4>1. ~(a >= HEAP) /\ a \in Nat
          <5>1. a \in Nat
            BY <2>1
          <5>2. a >= HEAP => f = NULL
            BY Zenon DEF virt_to_phys_on
          <5> QED
            BY <3>4, <5>1, <5>2
        <4>2. a \in 0..(HEAP - 1)
          BY <4>1, Sizes
        <4>3. p \in Frame /\ k1[p] = Pml4Kind(half)
          BY <2>1, <3>1 DEF Shrinks, Pml4Kind
        <4>4. At(s, p, half, a) # NULL
          BY <2>1, <3>4, <4>2, VirtIsAt
        <4> DEFINE k2 == [k1 EXCEPT ![f] = "none"]
        <4>5. Tree(x, k2, up) /\ Frees(x, k2) /\ Shrinks(p, s, k1, up, x, k2)
          <5> HIDE DEF s, a, p
          <5> QED
            BY <2>1, <3>1, <4>2, <4>3, <4>4, UnmapShrinks
        <4> HIDE DEF k2, x, s
        <4>6. Shrinks(p, m, kind, up, x, k2)
          BY <3>1, <4>5, ShrinksFurther
        <4>7. g[k] = x
          BY <3>2, <3>4
        <4>8. P(g[k])
          BY <4>5, <4>6, <4>7
        <4> HIDE DEF P
        <4> QED
          BY <4>8
      <3> QED
        BY <3>3, <3>4
    <2>6. n \in G
      <3> HIDE DEF G
      <3> QED
        BY <2>4, <2>5, Upwards
    <2>7. r.m = g[n] /\ r.d = Lowered(d, n)
      BY <1>1, <1>4
    <2>8. P(g[n])
      BY <2>6
    <2> HIDE DEF P, r
    <2>9. P(r.m)
      BY <2>7, <2>8
    <2> QED
      BY <2>7, <2>9, Zenon DEF P, r
  <1> QED
    BY <1>3, <1>4, Zenon

LEMMA LoweredFacts ==
    ASSUME NEW d \in Manager, NEW n \in Nat, NEW e, e = Lowered(d, n)
    PROVE  /\ e \in Manager /\ e.half = d.half /\ e.Pml4 = d.Pml4 /\ e.Address = d.Address
           /\ e.AllocRecordNum = d.AllocRecordNum - 1
  <1>1. /\ d.half \in Half /\ d.Pml4 \in Frame /\ d.Address \in 1..HEAP
        /\ d.PageSize \in Int /\ d.AllocRecordNum \in Int
    BY DEF Manager
  <1> DEFINE s == d.PageSize - n
             c == d.AllocRecordNum - 1
  <1>2. s \in Int /\ c \in Int
    BY <1>1
  <1>3. e = [d EXCEPT !.PageSize = s, !.AllocRecordNum = c]
    BY Zenon DEF Lowered
  <1> HIDE DEF s, c
  <1>4. e = [half |-> d.half, Pml4 |-> d.Pml4, Address |-> d.Address, PageSize |-> s, AllocRecordNum |-> c]
    BY <1>3 DEF Manager
  <1> QED
    BY <1>1, <1>2, <1>4 DEF Manager, c

LEMMA RaisedFacts ==
    ASSUME NEW d \in Manager, NEW n \in Nat, d.Address + n <= HEAP, NEW e, e = Raised(d, n)
    PROVE  /\ e \in Manager /\ e.half = d.half /\ e.Pml4 = d.Pml4 /\ e.Address = d.Address + n
           /\ e.AllocRecordNum = d.AllocRecordNum + 1
  <1>1. /\ d.half \in Half /\ d.Pml4 \in Frame /\ d.Address \in 1..HEAP
        /\ d.PageSize \in Int /\ d.AllocRecordNum \in Int
    BY DEF Manager
  <1> DEFINE a == d.Address + n
             s == d.PageSize + n
             c == d.AllocRecordNum + 1
  <1>2. s \in Int /\ c \in Int /\ a \in 1..HEAP
    BY <1>1, Sizes
  <1>3. e = [d EXCEPT !.Address = a, !.PageSize = s, !.AllocRecordNum = c]
    BY Zenon DEF Raised
  <1> HIDE DEF a, s, c
  <1>4. e = [half |-> d.half, Pml4 |-> d.Pml4, Address |-> a, PageSize |-> s, AllocRecordNum |-> c]
    BY <1>3 DEF Manager
  <1> QED
    BY <1>1, <1>2, <1>4 DEF Manager, a, c

LEMMA ManagerFacts ==
    ASSUME NEW d \in Manager
    PROVE  /\ d.half \in Half /\ d.Pml4 \in Frame /\ d.Address \in 1..HEAP /\ d.Address \in Nat
           /\ d.PageSize \in Int /\ d.AllocRecordNum \in Int
  BY DEF Manager

\* The three rounds of KillThread's loop over the records.
LEMMA FreeRecordsRounds ==
    ASSUME NEW m, NEW rec, NEW d
    PROVE  \E g : /\ FreeRecords(m, rec, d) = g[3]
                  /\ g[0] = [m |-> m, d |-> d]
                  /\ \A i \in 1..3 : g[i] = IF i - 1 < g[i-1].d.AllocRecordNum
                       THEN Vmm_Free(g[i-1].m, g[i-1].d, rec[i-1].half, rec[i-1].page, rec[i-1].size)
                       ELSE g[i-1]
  <1> DEFINE First == [m |-> m, d |-> d]
             Then(i, s) == IF i - 1 < s.d.AllocRecordNum
                           THEN Vmm_Free(s.m, s.d, rec[i-1].half, rec[i-1].page, rec[i-1].size) ELSE s
             Is3(g) == g = [i \in 0..3 |-> IF i = 0 THEN First ELSE Then(i, g[i-1])]
             a1 == Then(1, First)
             a2 == Then(2, a1)
             a3 == Then(3, a2)
             h == [i \in 0..3 |-> IF i = 0 THEN First ELSE IF i = 1 THEN a1 ELSE IF i = 2 THEN a2 ELSE a3]
  <1>1. \E g : Is3(g)
    <2> HIDE DEF First, Then
    <2>1. h[0] = First /\ h[1] = a1 /\ h[2] = a2 /\ h[3] = a3
      <3> HIDE DEF a1, a2, a3
      <3> QED
        OBVIOUS
    <2>2. \A i \in 0..3 : h[i] = IF i = 0 THEN First ELSE Then(i, h[i-1])
      <3>1. \A i \in 0..3 : i = 0 \/ i = 1 \/ i = 2 \/ i = 3
        OBVIOUS
      <3>2. 1 - 1 = 0 /\ 2 - 1 = 1 /\ 3 - 1 = 2
        OBVIOUS
      <3> HIDE DEF h
      <3>3. h[1] = Then(1, h[1-1]) /\ h[2] = Then(2, h[2-1]) /\ h[3] = Then(3, h[3-1])
        BY <2>1, <3>2
      <3> HIDE DEF a1, a2, a3
      <3> QED
        BY <2>1, <3>1, <3>3
    <2>3. h = [i \in 0..3 |-> h[i]]
      BY Zenon
    <2> HIDE DEF h
    <2>4. Is3(h)
      BY <2>2, <2>3, Zenon
    <2> QED
      BY <2>4
  <1>2. PICK g : Is3(g) /\ FreeRecords(m, rec, d) = g[3]
    BY <1>1, Zenon DEF FreeRecords
  <1>3. g[0] = First /\ \A i \in 1..3 : g[i] = Then(i, g[i-1])
    <2> DEFINE f == [i \in 0..3 |-> IF i = 0 THEN First ELSE Then(i, g[i-1])]
    <2>1. f[0] = First /\ \A i \in 1..3 : f[i] = Then(i, g[i-1])
      <3> HIDE DEF First, Then
      <3> QED
        OBVIOUS
    <2>2. g = f
      BY <1>2, Zenon
    <2> HIDE DEF f, First, Then
    <2> QED
      BY <2>1, <2>2
  <1> QED
    BY <1>2, <1>3, Zenon

LEMMA FreeRecordsShrinks ==
    ASSUME NEW m, NEW kind, NEW up, Tree(m, kind, up), Frees(m, kind),
           NEW rec \in [RECORDS -> Record], NEW d \in Manager, kind[d.Pml4] = Pml4Kind(d.half)
    PROVE  LET r == FreeRecords(m, rec, d)
           IN  /\ r.d \in Manager /\ r.d.half = d.half /\ r.d.Pml4 = d.Pml4
               /\ \E k2 : Tree(r.m, k2, up) /\ Frees(r.m, k2) /\ Shrinks(d.Pml4, m, kind, up, r.m, k2)
  <1> DEFINE P(r) == /\ r.d \in Manager /\ r.d.half = d.half /\ r.d.Pml4 = d.Pml4
                     /\ \E k2 : Tree(r.m, k2, up) /\ Frees(r.m, k2) /\ Shrinks(d.Pml4, m, kind, up, r.m, k2)
  <1>1. PICK g : /\ FreeRecords(m, rec, d) = g[3]
                 /\ g[0] = [m |-> m, d |-> d]
                 /\ \A i \in 1..3 : g[i] = IF i - 1 < g[i-1].d.AllocRecordNum
                      THEN Vmm_Free(g[i-1].m, g[i-1].d, rec[i-1].half, rec[i-1].page, rec[i-1].size)
                      ELSE g[i-1]
    BY FreeRecordsRounds
  <1>2. P(g[0])
    <2>1. g[0].m = m /\ g[0].d = d
      BY <1>1
    <2> QED
      BY <2>1, ShrinksStays
  <1>3. ASSUME NEW i \in 1..3, P(g[i-1]) PROVE P(g[i])
    <2> DEFINE s == g[i-1]
               e == rec[i-1]
               x == Vmm_Free(s.m, s.d, e.half, e.page, e.size)
    <2>1. e.page \in Nat /\ e.size \in Nat
      <3>1. i - 1 \in RECORDS
        BY DEF RECORDS
      <3> QED
        BY <3>1 DEF Record
    <2>2. g[i] = IF i - 1 < s.d.AllocRecordNum THEN x ELSE s
      BY <1>1, Zenon
    <2>3. P(s)
      BY <1>3
    <2>4. PICK k1 : Tree(s.m, k1, up) /\ Frees(s.m, k1) /\ Shrinks(d.Pml4, m, kind, up, s.m, k1)
      BY <2>3
    <2>5. s.d \in Manager /\ s.d.half = d.half /\ s.d.Pml4 = d.Pml4
      BY <2>3
    <2> HIDE DEF s, e
    <2>6. s.d.half \in Half /\ s.d.Pml4 \in Frame /\ k1[s.d.Pml4] = Pml4Kind(s.d.half)
      BY <2>4, <2>5, ManagerFacts, LoweredFacts DEF Shrinks, Pml4Kind
    <2>7. /\ x.d = s.d \/ x.d = Lowered(s.d, e.size)
          /\ \E k2 : Tree(x.m, k2, up) /\ Frees(x.m, k2) /\ Shrinks(s.d.Pml4, s.m, k1, up, x.m, k2)
      BY <2>1, <2>4, <2>6, FreeShrinks
    <2> HIDE DEF x
    <2>8. x.d \in Manager /\ x.d.half = d.half /\ x.d.Pml4 = d.Pml4
      BY SMTT(30), <2>1, <2>5, <2>7, ManagerFacts, LoweredFacts
    <2>9. PICK k2 : Tree(x.m, k2, up) /\ Frees(x.m, k2) /\ Shrinks(d.Pml4, s.m, k1, up, x.m, k2)
      BY <2>5, <2>7
    <2>10. Shrinks(d.Pml4, m, kind, up, x.m, k2)
      BY <2>4, <2>9, ShrinksFurther
    <2>11. P(x)
      BY <2>8, <2>9, <2>10
    <2> HIDE DEF P
    <2> QED
      BY <2>2, <2>3, <2>11
  <1>4. P(g[3])
    <2> HIDE DEF P
    <2>1. P(g[1])
      BY <1>2, <1>3
    <2>2. P(g[2])
      BY <1>3, <2>1
    <2> QED
      BY <1>3, <2>2
  <1> HIDE DEF P
  <1>5. P(FreeRecords(m, rec, d))
    BY <1>1, <1>4
  <1> QED
    BY <1>5 DEF P

-----------------------------------------------------------------------------
(***************************************************************************)
(* A new manager.                                                          *)
(***************************************************************************)

\* Writing a whole table.
SetRow(m, t, row) == [m EXCEPT !.table[t] = row]

LEMMA RowSet ==
    ASSUME NEW m \in Memory, NEW t \in Table, NEW row \in [Index -> Entry]
    PROVE  /\ SetRow(m, t, row) \in Memory
           /\ SetRow(m, t, row).free = m.free
           /\ \A f \in Table : SetRow(m, t, row).table[f] = IF f = t THEN row ELSE m.table[f]
  BY DEF Memory, SetRow

\* What UEFI left and nobody writes.
Uefi(m) ==
    /\ m.table[UEFI_PML4] = [i \in Index |-> IF i = 0 THEN [to |-> UefiPdpt, flags |-> {"P", "W"}] ELSE Absent]
    /\ Present(m.table[UefiPdpt][0])

\* RAM is mapped to itself, writable, through a table of the manager's own.
Low(m, p) ==
    /\ Link(m.table[p][0]) /\ m.table[p][0].to \in Frame
    /\ "W" \in m.table[p][0].flags
    /\ {"P", "W", "H"} \subseteq m.table[m.table[p][0].to][0].flags

\* Pages were taken and nothing that was not free was touched.
Spent(m, n) ==
    /\ n \in Memory /\ n.free \subseteq m.free
    /\ \A f \in Table : f \in m.free \/ n.table[f] = m.table[f]

LEMMA NoPage ==
    ASSUME NEW m \in Memory
    PROVE  /\ Pmm_Malloc(m) = NULL <=> m.free = {}
  <1>1. m.free = {} => Pmm_Malloc(m) = NULL
    BY DEF Pmm_Malloc
  <1>2. m.free # {} => Pmm_Malloc(m) # NULL
    BY TakeFacts, Sizes
  <1> QED
    BY <1>1, <1>2

\* The PML4 row of a new manager, before its PDPT of its own.
Pml4Row(m, half, src) ==
    IF half = "user"
    THEN [i \in Index |-> IF i = 0 THEN [m.table[src][0] EXCEPT !.flags = @ \cup {"U", "W"}] ELSE m.table[src][i]]
    ELSE m.table[UEFI_PML4]

PdptRow(old) ==
    [i \in Index |-> CASE ~Present(old[i]) -> Absent
                       [] Present(old[i]) /\ Huge(old[i]) -> [old[i] EXCEPT !.flags = @ \cup {"W"}]
                       [] OTHER -> [to |-> NULL, flags |-> {"P", "W", "H"}]]

LEMMA PdptRowFacts ==
    ASSUME NEW old \in [Index -> Entry]
    PROVE  /\ PdptRow(old) \in [Index -> Entry]
           /\ \A i \in Index : ~Link(PdptRow(old)[i])
           /\ Present(old[0]) => {"P", "W", "H"} \subseteq PdptRow(old)[0].flags
  <1> DEFINE row == PdptRow(old)
  <1>1. ASSUME NEW i \in Index
        PROVE  /\ row[i] \in Entry /\ ~Link(row[i])
               /\ Present(old[i]) => {"P", "W", "H"} \subseteq row[i].flags
    <2>1. row[i] = CASE ~Present(old[i]) -> Absent
                     [] Present(old[i]) /\ Huge(old[i]) -> [old[i] EXCEPT !.flags = @ \cup {"W"}]
                     [] OTHER -> [to |-> NULL, flags |-> {"P", "W", "H"}]
      BY DEF PdptRow
    <2>2. old[i] \in Entry
      OBVIOUS
    <2>3. CASE ~Present(old[i])
      <3>1. row[i] = Absent
        BY <2>1, <2>3
      <3> QED
        BY <2>3, <3>1, EntryTypes
    <2>4. CASE Present(old[i]) /\ Huge(old[i])
      <3> DEFINE e == [old[i] EXCEPT !.flags = @ \cup {"W"}]
      <3>1. row[i] = e
        BY <2>1, <2>4
      <3>2. e \in Entry /\ e.flags = old[i].flags \cup {"W"}
        BY <2>2, EntryTypes
      <3> HIDE DEF e, row
      <3> QED
        BY <2>4, <3>1, <3>2 DEF Present, Huge, Link
    <2>5. CASE Present(old[i]) /\ ~Huge(old[i])
      <3> DEFINE e == [to |-> NULL, flags |-> {"P", "W", "H"}]
      <3>1. row[i] = e
        BY <2>1, <2>5
      <3>2. e \in Entry /\ e.flags = {"P", "W", "H"}
        BY EntryTypes, Sizes DEF NULL
      <3> HIDE DEF e, row
      <3> QED
        BY <3>1, <3>2 DEF Present, Huge, Link
    <2> QED
      BY <2>3, <2>4, <2>5
  <1>2. row \in [Index -> Entry]
    BY <1>1 DEF PdptRow
  <1> QED
    BY <1>1, <1>2, Sizes

\* replace_identity_pdpt on a PML4 that has an entry 0.
LEMMA ReplaceFacts ==
    ASSUME NEW m \in Memory, NEW p \in Table, m.free # {}, p \notin m.free,
           Link(m.table[p][0]), m.table[p][0].to \in Table,
           Present(m.table[m.table[p][0].to][0])
    PROVE  LET n == replace_identity_pdpt(m, p)
               q == Pmm_Malloc(m)
           IN  /\ n \in Memory /\ n.free = m.free \ {q}
               /\ n.table[p][0].to = q /\ Link(n.table[p][0]) /\ "W" \in n.table[p][0].flags
               /\ \A i \in Index \ {0} : n.table[p][i] = m.table[p][i]
               /\ \A i \in Index : ~Link(n.table[q][i])
               /\ {"P", "W", "H"} \subseteq n.table[q][0].flags
               /\ \A f \in Table : f \in {p, q} \/ n.table[f] = m.table[f]
  <1> DEFINE n == replace_identity_pdpt(m, p)
             q == Pmm_Malloc(m)
             old == m.table[m.table[p][0].to]
             row == PdptRow(old)
             e == [to |-> q, flags |-> m.table[p][0].flags \cup {"W"}]
             a == Take(m)
             b == SetRow(a, q, row)
  <1>1. /\ q \in m.free /\ q \in Frame /\ q \in Table /\ q # NULL /\ q # p
        /\ a \in Memory /\ a.free = m.free \ {q}
        /\ \A f \in Table : a.table[f] = IF f = q THEN EmptyTable ELSE m.table[f]
    BY TakeFacts, Sizes
  <1>2. n = SetEntry(b, p, 0, e)
    <2>1. n = [Take(m) EXCEPT !.table[q] = row, !.table[p][0] = e]
      <3> HIDE DEF q
      <3>1. q # NULL
        BY <1>1
      <3> QED
        BY <3>1, Zenon DEF replace_identity_pdpt, PdptRow, q
    <2> HIDE DEF row, e, q, a
    <2>2. [a EXCEPT !.table[q] = row, !.table[p][0] = e] = SetEntry(b, p, 0, e)
      BY Zenon DEF SetEntry, SetRow
    <2> QED
      BY <2>1, <2>2 DEF a
  <1>3. old \in [Index -> Entry]
    BY DEF Memory
  <1>4. /\ row \in [Index -> Entry] /\ \A i \in Index : ~Link(row[i])
        /\ {"P", "W", "H"} \subseteq row[0].flags
    <2> HIDE DEF old
    <2> QED
      BY <1>3, PdptRowFacts DEF old
  <1>5. e \in Entry /\ e.to = q /\ e.flags = m.table[p][0].flags \cup {"W"}
    <2>1. m.table[p][0] \in Entry
      BY Sizes DEF Memory
    <2>2. m.table[p][0].flags \cup {"W"} \in SUBSET {"P", "W", "U", "H"}
      BY <2>1 DEF Entry
    <2> QED
      BY <1>1, <2>2 DEF Entry, Frame
  <1>6. Link(e) /\ "W" \in e.flags
    BY <1>5 DEF Link, Present, Huge
  <1> HIDE DEF q, row, e, a, n, old
  <1>7. /\ b \in Memory /\ b.free = a.free
        /\ \A f \in Table : b.table[f] = IF f = q THEN row ELSE a.table[f]
    BY <1>1, <1>4, RowSet
  <1> HIDE DEF b
  <1>8. /\ n \in Memory /\ n.free = b.free
        /\ \A f \in Table, j \in Index : n.table[f][j] = IF f = p /\ j = 0 THEN e ELSE b.table[f][j]
    <2>1. 0 \in Index
      BY Sizes
    <2> DEFINE x == SetEntry(b, p, 0, e)
    <2>2. /\ x \in Memory /\ x.free = b.free
          /\ \A f \in Table, j \in Index : x.table[f][j] = IF f = p /\ j = 0 THEN e ELSE b.table[f][j]
      BY <1>5, <1>7, <2>1, EntrySet
    <2> HIDE DEF x
    <2> QED
      BY <1>2, <2>2 DEF x
  <1>9. \A f \in Table : f # p => n.table[f] = b.table[f]
    <2>1. \A f \in Table : n.table[f] \in [Index -> Entry] /\ b.table[f] \in [Index -> Entry]
      BY <1>7, <1>8 DEF Memory
    <2> QED
      BY <1>8, <2>1
  <1>10. n.table[p][0] = e
    BY <1>8, Sizes
  <1>11. \A i \in Index \ {0} : n.table[p][i] = m.table[p][i]
    BY <1>1, <1>7, <1>8
  <1>12. n.table[q] = row
    BY <1>1, <1>7, <1>9
  <1>13. \A f \in Table : f \in {p, q} \/ n.table[f] = m.table[f]
    BY <1>1, <1>7, <1>9
  <1>14. n.free = m.free \ {q}
    BY <1>1, <1>7, <1>8
  <1> QED
    BY <1>4, <1>5, <1>6, <1>8, <1>10, <1>11, <1>12, <1>13, <1>14 DEF n, q

LEMMA Pml4RowFacts ==
    ASSUME NEW m \in Memory, NEW half \in Half, NEW src, half = "user" => src \in Frame /\ Low(m, src),
           half = "kernel" => Uefi(m)
    PROVE  LET row == Pml4Row(m, half, src)
           IN  /\ row \in [Index -> Entry]
               /\ Link(row[0]) /\ row[0].to \in Table
               /\ row[0].to = IF half = "user" THEN m.table[src][0].to ELSE UefiPdpt
               /\ Present(m.table[row[0].to][0])
               /\ half = "user" => row[1] = m.table[src][1]
               /\ half = "kernel" => ~Link(row[1])
  <1> DEFINE row == Pml4Row(m, half, src)
  <1>1. CASE half = "user"
    <2> DEFINE s == m.table[src]
               e == [s[0] EXCEPT !.flags = @ \cup {"U", "W"}]
    <2>1. s \in [Index -> Entry] /\ s[0] \in Entry /\ src \in Frame
      BY <1>1, Sizes DEF Memory
    <2>2. Link(s[0]) /\ s[0].to \in Frame /\ Present(m.table[s[0].to][0])
      BY <1>1 DEF Low, Present
    <2>3. e \in Entry /\ e.to = s[0].to /\ e.flags = s[0].flags \cup {"U", "W"}
      BY <2>1, EntryTypes
    <2> HIDE DEF e, s
    <2>4. row = [i \in Index |-> IF i = 0 THEN e ELSE s[i]]
      BY <1>1 DEF Pml4Row, e, s
    <2>5. row \in [Index -> Entry] /\ row[0] = e /\ row[1] = s[1]
      BY <2>1, <2>3, <2>4, Sizes
    <2>6. Link(e)
      BY <2>2, <2>3 DEF Link, Present, Huge
    <2> HIDE DEF row
    <2> QED
      BY <1>1, <2>1, <2>2, <2>3, <2>5, <2>6, Sizes DEF row, s, Half
  <1>2. CASE half = "kernel"
    <2> DEFINE e == [to |-> UefiPdpt, flags |-> {"P", "W"}]
    <2>1. row = [i \in Index |-> IF i = 0 THEN e ELSE Absent] /\ Present(m.table[UefiPdpt][0])
      BY <1>2 DEF Pml4Row, Uefi
    <2>2. e \in Entry /\ e.to = UefiPdpt /\ Link(e)
      <3>1. UefiPdpt \in 0..(FRAMES + 3)
        BY DEF UefiPdpt
      <3>2. e \in Entry
        BY <3>1 DEF Entry
      <3> QED
        BY <3>2 DEF Link, Present, Huge
    <2> HIDE DEF e
    <2>3. row \in [Index -> Entry] /\ row[0] = e /\ row[1] = Absent
      BY <2>1, <2>2, Sizes, EntryTypes
    <2> HIDE DEF row
    <2> QED
      BY <1>2, <2>1, <2>2, <2>3, Sizes, EntryTypes DEF row
  <1> QED
    BY <1>1, <1>2 DEF Half

\* The stages of a new manager's memory: its block, its PML4, its PDPT, the descriptor's page.
S1(m) == Take(m)
S2(m, half, src) ==
    IF half = "user" THEN copy_kernel_pml4_entries(Take(S1(m)), Pmm_Malloc(S1(m)), src)
                     ELSE copy_pml4_entries(Take(S1(m)), Pmm_Malloc(S1(m)))
S3(m, half, src) == replace_identity_pdpt(S2(m, half, src), Pmm_Malloc(S1(m)))
S4(m, half, src) == Take(S3(m, half, src))

LEMMA Stage2 ==
    ASSUME NEW m \in Memory, NEW half \in Half, NEW src,
           half = "user" => src \in Frame /\ src \notin m.free /\ Low(m, src) /\ m.table[src][0].to \notin m.free,
           half = "kernel" => Uefi(m), m.free # {}, S1(m).free # {}
    PROVE  LET v == Pmm_Malloc(m)
               p == Pmm_Malloc(S1(m))
               n == S2(m, half, src)
           IN  /\ v \in m.free /\ p \in m.free /\ v # p
               /\ n \in Memory /\ n.free = m.free \ {v, p}
               /\ \A f \in Table : f \in {v, p} \/ n.table[f] = m.table[f]
               /\ n.table[v] = EmptyTable
               /\ Link(n.table[p][0]) /\ n.table[p][0].to \in Table /\ n.table[p][0].to \notin m.free
               /\ Present(n.table[n.table[p][0].to][0])
               /\ half = "user" => n.table[p][1] = m.table[src][1]
               /\ half = "kernel" => ~Link(n.table[p][1])
  <1> DEFINE v == Pmm_Malloc(m)
             m1 == S1(m)
             p == Pmm_Malloc(m1)
             n == S2(m, half, src)
             a == Take(m1)
  <1>1. /\ v \in m.free /\ v \in Table /\ m1 \in Memory /\ m1.free = m.free \ {v} /\ v \in Frame
        /\ \A f \in Table : m1.table[f] = IF f = v THEN EmptyTable ELSE m.table[f]
    BY TakeFacts DEF S1
  <1> HIDE DEF v, m1
  <1>2. /\ p \in m1.free /\ p \in Table /\ a \in Memory /\ a.free = m1.free \ {p} /\ p \in Frame
        /\ \A f \in Table : a.table[f] = IF f = p THEN EmptyTable ELSE m1.table[f]
    BY <1>1, TakeFacts DEF m1
  <1> HIDE DEF p, a
  <1>3. m.free \subseteq Frame
    BY DEF Memory
  <1> DEFINE row == Pml4Row(a, half, src)
  <1>4. /\ half = "user" => src \in Frame /\ src \notin {v, p} /\ Low(a, src) /\ a.table[src] = m.table[src]
                             /\ m.table[src][0].to \notin m.free
        /\ half = "kernel" => Uefi(a)
    <2>1. ASSUME half = "user"
          PROVE  src \in Frame /\ src \notin {v, p} /\ Low(a, src) /\ a.table[src] = m.table[src]
      <3> DEFINE l == m.table[src][0].to
      <3>1. /\ src \in Frame /\ src \notin m.free /\ Link(m.table[src][0]) /\ l \in Frame
            /\ "W" \in m.table[src][0].flags /\ {"P", "W", "H"} \subseteq m.table[l][0].flags
            /\ l \notin m.free
        BY <2>1 DEF Low
      <3>2. src \in Table /\ l \in Table
        BY <3>1, Sizes
      <3> HIDE DEF l
      <3>3. a.table[src] = m.table[src] /\ a.table[l] = m.table[l] /\ src \notin {v, p}
        BY <1>1, <1>2, <3>1, <3>2
      <3>4. a.table[src][0].to = l
        BY <3>3 DEF l
      <3>5. Low(a, src)
        BY <3>1, <3>3, <3>4 DEF Low
      <3> QED
        BY SMTT(30), <3>1, <3>3, <3>5
    <2>2. ASSUME half = "kernel" PROVE Uefi(a)
      BY <1>1, <1>2, <1>3, <2>2, Sizes DEF Uefi
    <2> QED
      BY <2>1, <2>2
  <1>5. /\ row \in [Index -> Entry]
        /\ Link(row[0]) /\ row[0].to \in Table
        /\ row[0].to = IF half = "user" THEN a.table[src][0].to ELSE UefiPdpt
        /\ Present(a.table[row[0].to][0])
        /\ half = "user" => row[1] = a.table[src][1]
        /\ half = "kernel" => ~Link(row[1])
    BY <1>2, <1>4, Pml4RowFacts
  <1>6. n = SetRow(a, p, row)
    BY Zenon DEF S2, copy_kernel_pml4_entries, copy_pml4_entries, SetRow, Pml4Row, a, p, m1, S1
  <1> HIDE DEF row, n
  <1>7. /\ n \in Memory /\ n.free = a.free /\ \A f \in Table : n.table[f] = IF f = p THEN row ELSE a.table[f]
    BY <1>2, <1>5, <1>6, RowSet
  <1>8. v \in m.free /\ p \in m.free /\ v # p /\ n.free = m.free \ {v, p}
    BY <1>1, <1>2, <1>7
  <1>9. \A f \in Table : f \in {v, p} \/ n.table[f] = m.table[f]
    BY <1>1, <1>2, <1>7
  <1>10. n.table[v] = EmptyTable /\ n.table[p] = row
    BY <1>1, <1>2, <1>7
  <1>11. row[0].to \notin m.free
    BY <1>3, <1>4, <1>5, Sizes DEF Half
  <1>12. Present(n.table[row[0].to][0])
    <2>1. row[0].to # p
      BY <1>8, <1>11
    <2>2. n.table[row[0].to] = a.table[row[0].to]
      BY <1>5, <1>7, <2>1
    <2> QED
      BY <1>5, <2>2
  <1>13. half = "user" => n.table[p][1] = m.table[src][1]
    BY <1>4, <1>5, <1>10
  <1>14. Link(n.table[p][0]) /\ n.table[p][0].to \in Table /\ n.table[p][0].to \notin m.free
          /\ Present(n.table[n.table[p][0].to][0]) /\ (half = "kernel" => ~Link(n.table[p][1]))
    BY ZenonT(60), <1>5, <1>10, <1>11, <1>12
  <1> QED
    BY <1>7, <1>8, <1>9, <1>10, <1>13, <1>14 DEF v, p, m1, n

\* The tables of a new manager, when there was a page for each of them.
LEMMA Stage4 ==
    ASSUME NEW m \in Memory, NEW half \in Half, NEW src,
           half = "user" => src \in Frame /\ src \notin m.free /\ Low(m, src) /\ m.table[src][0].to \notin m.free,
           half = "kernel" => Uefi(m), m.free # {}, S1(m).free # {},
           S2(m, half, src).free # {}, S3(m, half, src).free # {}
    PROVE  LET v == Pmm_Malloc(m)
               p == Pmm_Malloc(S1(m))
               q == Pmm_Malloc(S2(m, half, src))
               d == Pmm_Malloc(S3(m, half, src))
               n == S4(m, half, src)
           IN  /\ {v, p, q, d} \subseteq m.free
               /\ v # p /\ v # q /\ v # d /\ p # q /\ p # d /\ q # d
               /\ n \in Memory /\ n.free = m.free \ {v, p, q, d}
               /\ \A f \in Table : f \in {v, p, q, d} \/ n.table[f] = m.table[f]
               /\ Link(n.table[p][0]) /\ n.table[p][0].to = q /\ "W" \in n.table[p][0].flags
               /\ \A i \in Index : ~Link(n.table[q][i])
               /\ {"P", "W", "H"} \subseteq n.table[q][0].flags
               /\ half = "user" => n.table[p][1] = m.table[src][1]
               /\ half = "kernel" => ~Link(n.table[p][1])
  <1> DEFINE v == Pmm_Malloc(m)
             p == Pmm_Malloc(S1(m))
             m2 == S2(m, half, src)
             q == Pmm_Malloc(m2)
             m3 == S3(m, half, src)
             d == Pmm_Malloc(m3)
             n == S4(m, half, src)
  <1>1. /\ v \in m.free /\ p \in m.free /\ v # p
        /\ m2 \in Memory /\ m2.free = m.free \ {v, p}
        /\ \A f \in Table : f \in {v, p} \/ m2.table[f] = m.table[f]
        /\ Link(m2.table[p][0]) /\ m2.table[p][0].to \in Table
        /\ Present(m2.table[m2.table[p][0].to][0])
        /\ half = "user" => m2.table[p][1] = m.table[src][1]
        /\ half = "kernel" => ~Link(m2.table[p][1])
    BY Stage2
  <1> HIDE DEF v
  <1>2. /\ p \in Table /\ p \notin m2.free /\ m2.free # {} /\ m.free \subseteq Table
    <2>1. m.free \subseteq Table
      BY Sizes DEF Memory
    <2> QED
      BY <1>1, <2>1
  <1>3. m3 = replace_identity_pdpt(m2, p)
    BY DEF S3
  <1> HIDE DEF p, m2
  <1>4. /\ m3 \in Memory /\ m3.free = m2.free \ {q}
        /\ m3.table[p][0].to = q /\ Link(m3.table[p][0]) /\ "W" \in m3.table[p][0].flags
        /\ \A i \in Index \ {0} : m3.table[p][i] = m2.table[p][i]
        /\ \A i \in Index : ~Link(m3.table[q][i])
        /\ {"P", "W", "H"} \subseteq m3.table[q][0].flags
        /\ \A f \in Table : f \in {p, q} \/ m3.table[f] = m2.table[f]
    <2> DEFINE x == replace_identity_pdpt(m2, p)
    <2>1. /\ x \in Memory /\ x.free = m2.free \ {q}
          /\ x.table[p][0].to = q /\ Link(x.table[p][0]) /\ "W" \in x.table[p][0].flags
          /\ \A i \in Index \ {0} : x.table[p][i] = m2.table[p][i]
          /\ \A i \in Index : ~Link(x.table[q][i])
          /\ {"P", "W", "H"} \subseteq x.table[q][0].flags
          /\ \A f \in Table : f \in {p, q} \/ x.table[f] = m2.table[f]
      BY <1>1, <1>2, ReplaceFacts
    <2> HIDE DEF m3, x, q
    <2> QED
      BY SMTT(30), <1>3, <2>1 DEF x
  <1>5. q \in m2.free
    BY <1>1, <1>2, TakeFacts
  <1> HIDE DEF q
  <1>6. n = Take(m3) /\ m3.free # {}
    BY DEF S4
  <1> HIDE DEF m3
  <1>7. /\ d \in m3.free /\ n \in Memory /\ n.free = m3.free \ {d}
        /\ \A f \in Table : n.table[f] = IF f = d THEN EmptyTable ELSE m3.table[f]
    BY <1>4, <1>6, TakeFacts
  <1> HIDE DEF d, n
  <1>8. /\ {v, p, q, d} \subseteq m.free
        /\ v # p /\ v # q /\ v # d /\ p # q /\ p # d /\ q # d
        /\ n.free = m.free \ {v, p, q, d}
    BY <1>1, <1>4, <1>5, <1>7
  <1>9. \A f \in Table : f \in {v, p, q, d} \/ n.table[f] = m.table[f]
    BY <1>1, <1>4, <1>7
  <1>10. n.table[p] = m3.table[p] /\ n.table[q] = m3.table[q] /\ 1 \in Index \ {0}
    BY <1>2, <1>7, <1>8, Sizes
  <1>11. n.table[p][1] = m2.table[p][1]
    BY <1>4, <1>10
  <1> QED
    BY <1>1, <1>4, <1>7, <1>8, <1>9, <1>10, <1>11 DEF v, p, q, d, n, m2, m3

\* The descriptor of a new manager.
Descriptor(half, p) == [half |-> half, Pml4 |-> p, Address |-> 1, PageSize |-> 0, AllocRecordNum |-> 0]

LEMMA InitUnfolded ==
    ASSUME NEW m, NEW half, NEW src
    PROVE  LET v == Pmm_Malloc(m)
               p == Pmm_Malloc(S1(m))
               d == Pmm_Malloc(S3(m, half, src))
               m4 == map_page(S4(m, half, src), p, Path(half, 0), d, IF half = "user" THEN {"W", "U"} ELSE {"W"})
               failed(mem) == [m |-> mem, v |-> NULL, desc |-> Absent, fault |-> FALSE]
               r == Init_Manager(m, half, src)
           IN  /\ v = NULL => r = failed(m)
               /\ v # NULL /\ p = NULL => r = failed(m)
               /\ v # NULL /\ p # NULL /\ d = NULL => r = failed(Pmm_Free(S3(m, half, src), {v, p}))
               /\ v # NULL /\ p # NULL /\ d # NULL =>
                    r = [m |-> m4, v |-> v, desc |-> Descriptor(half, p),
                         fault |-> virt_to_phys_on(m4, p, half, 0) = NULL]
  <1> DEFINE v == Pmm_Malloc(m)
             p == Pmm_Malloc(S1(m))
             m3 == S3(m, half, src)
             d == Pmm_Malloc(m3)
             m4 == map_page(S4(m, half, src), p, Path(half, 0), d, IF half = "user" THEN {"W", "U"} ELSE {"W"})
             failed(mem) == [m |-> mem, v |-> NULL, desc |-> Absent, fault |-> FALSE]
             r == Init_Manager(m, half, src)
  <1>1. r = CASE v = NULL -> failed(m)
              [] v # NULL /\ p = NULL -> failed(m)
              [] v # NULL /\ p # NULL /\ d = NULL -> failed(Pmm_Free(m3, {v, p}))
              [] OTHER -> [m |-> m4, v |-> v, desc |-> Descriptor(half, p),
                           fault |-> virt_to_phys_on(m4, p, half, 0) = NULL]
    BY Zenon DEF Init_Manager, S1, S2, S3, S4, Descriptor
  <1> HIDE DEF v, p, m3, d, m4, r, failed
  <1>2. /\ v = NULL => r = failed(m)
        /\ v # NULL /\ p = NULL => r = failed(m)
        /\ v # NULL /\ p # NULL /\ d = NULL => r = failed(Pmm_Free(m3, {v, p}))
        /\ v # NULL /\ p # NULL /\ d # NULL =>
             r = [m |-> m4, v |-> v, desc |-> Descriptor(half, p),
                  fault |-> virt_to_phys_on(m4, p, half, 0) = NULL]
    BY <1>1
  <1> QED
    BY <1>2, Zenon DEF v, p, m3, d, m4, r, failed

\* Of the free pages v, p, q and d of m, n has cleared or written all, and uses them.
Laid(m, half, n, v, p, q, d) ==
    /\ n \in Memory /\ {v, p, q, d} \subseteq m.free
    /\ v # p /\ v # q /\ v # d /\ p # q /\ p # d /\ q # d
    /\ n.free = m.free \ {v, p, q, d}
    /\ \A f \in Table : f \in {v, p, q, d} \/ n.table[f] = m.table[f]
    /\ n.table[p][0].to = q
    /\ \A i \in Index : ~Link(n.table[q][i])
    /\ half = "kernel" => ~Link(n.table[p][1])

\* The uses of the pages of a new manager.
LEMMA BuildTree ==
    ASSUME NEW m, NEW kind, NEW up, Tree(m, kind, up), Frees(m, kind), NEW half \in Half,
           NEW n, NEW v, NEW p, NEW q, NEW d, Laid(m, half, n, v, p, q, d)
    PROVE  \E k2, u2 :
              /\ Tree(n, k2, u2) /\ Frees(n, k2)
              /\ k2[v] = "block" /\ k2[p] = Pml4Kind(half) /\ k2[q] = "low" /\ k2[d] = "none"
              /\ u2[p] = <<v, 0>> /\ u2[q] = <<p, 0>>
              /\ \A f \in Frame : f \in m.free \/ (k2[f] = kind[f] /\ u2[f] = up[f])
  <1> DEFINE k2 == [kind EXCEPT ![v] = "block", ![p] = Pml4Kind(half), ![q] = "low"]
             u2 == [up EXCEPT ![p] = <<v, 0>>, ![q] = <<p, 0>>]
  <1>0. /\ n \in Memory /\ v \in m.free /\ p \in m.free /\ q \in m.free /\ d \in m.free
        /\ v # p /\ v # q /\ v # d /\ p # q /\ p # d /\ q # d
        /\ n.free = m.free \ {v, p, q, d}
        /\ \A f \in Table : f \in {v, p, q, d} \/ n.table[f] = m.table[f]
        /\ n.table[p][0].to = q
        /\ \A i \in Index : ~Link(n.table[q][i])
        /\ half = "kernel" => ~Link(n.table[p][1])
    BY Zenon DEF Laid
  <1>1. /\ m.free \subseteq Frame /\ kind \in [Frame -> Kinds] /\ up \in [Frame -> Frame \X Nat]
        /\ \A f \in m.free : kind[f] = "none"
    BY DEF Tree, Memory, Frees
  <1>2. /\ k2 \in [Frame -> Kinds] /\ u2 \in [Frame -> Frame \X Nat]
    BY <1>0, <1>1 DEF Kinds, Pml4Kind
  <1>3. /\ k2[v] = "block" /\ k2[p] = Pml4Kind(half) /\ k2[q] = "low"
        /\ u2[p] = <<v, 0>> /\ u2[q] = <<p, 0>>
        /\ \A f \in Frame : f \notin {v, p, q} => k2[f] = kind[f] /\ u2[f] = up[f]
    BY <1>0, <1>1
  <1> HIDE DEF k2, u2
  <1>4. ASSUME NEW f \in Frame, NEW i \in Index, Leads(k2[f], i), Link(n.table[f][i])
        PROVE  n.table[f][i].to \in Frame /\ k2[n.table[f][i].to] = Below(k2[f], i) /\ u2[n.table[f][i].to] = <<f, i>>
    <2>1. CASE f = p
      <3>1. i = 0
        BY <1>0, <1>3, <1>4, <2>1 DEF Leads, Pml4Kind, Half
      <3> QED
        BY <1>0, <1>1, <1>3, <2>1, <3>1 DEF Below, Pml4Kind
    <2>2. CASE f # p
      <3>1. f \notin {v, q, d}
        BY <1>0, <1>1, <1>3, <1>4 DEF Leads
      <3>2. k2[f] = kind[f] /\ n.table[f] = m.table[f]
        BY <1>0, <1>3, <2>2, <3>1, Sizes
      <3>3. /\ m.table[f][i].to \in Frame /\ kind[m.table[f][i].to] = Below(kind[f], i)
            /\ up[m.table[f][i].to] = <<f, i>>
        BY <1>0, <1>4, <3>2, ChildOf
      <3>4. m.table[f][i].to \notin {v, p, q}
        BY <1>0, <1>1, <3>3, BelowKinds
      <3> QED
        BY <1>0, <1>3, <3>2, <3>3, <3>4
    <2> QED
      BY <2>1, <2>2
  <1>5. Tree(n, k2, u2)
    BY <1>0, <1>2, <1>4 DEF Tree
  <1>6. Frees(n, k2)
    BY <1>0, <1>1, <1>3 DEF Frees
  <1>7. k2[d] = "none"
    BY <1>0, <1>1, <1>3
  <1>8. \A f \in Frame : f \in m.free \/ (k2[f] = kind[f] /\ u2[f] = up[f])
    BY <1>0, <1>3
  <1>9. /\ Tree(n, k2, u2) /\ Frees(n, k2)
        /\ k2[v] = "block" /\ k2[p] = Pml4Kind(half) /\ k2[q] = "low" /\ k2[d] = "none"
        /\ u2[p] = <<v, 0>> /\ u2[q] = <<p, 0>>
        /\ \A f \in Frame : f \in m.free \/ (k2[f] = kind[f] /\ u2[f] = up[f])
    BY <1>3, <1>5, <1>6, <1>7, <1>8, Zenon
  <1> QED
    BY <1>9

\* A failed manager gives nothing a use.
InitFailed(m, r) == /\ r.v = NULL /\ r.fault = FALSE /\ Spent(m, r.m)
                    /\ \E a, b, c : m.free \subseteq {a, b, c}

\* A new manager: its pages were free, and its tables lead where they should.
InitMade(m, kind, up, half, src, r) ==
    LET p == r.desc.Pml4
    IN  /\ r.v \in m.free /\ p \in m.free /\ r.desc = Descriptor(half, p) /\ r.fault \in BOOLEAN
        /\ \E k2, u2 :
             /\ Tree(r.m, k2, u2) /\ Frees(r.m, k2)
             /\ Grows(p, half, m.free, {}, m, kind, up, r.m, k2, u2)
             /\ k2[r.v] = "block" /\ k2[p] = Pml4Kind(half) /\ u2[p] = <<r.v, 0>>
        /\ Low(r.m, p)
        /\ half = "user" => r.m.table[p][1] = m.table[src][1]
        /\ half = "kernel" /\ ~r.fault => Link(r.m.table[p][1])

LEMMA InitManager ==
    ASSUME NEW m, NEW kind, NEW up, Tree(m, kind, up), Frees(m, kind), NEW half \in Half, NEW src,
           half = "user" => src \in Frame /\ src \notin m.free /\ Low(m, src) /\ m.table[src][0].to \notin m.free,
           half = "kernel" => Uefi(m)
    PROVE  LET r == Init_Manager(m, half, src)
           IN  InitFailed(m, r) \/ InitMade(m, kind, up, half, src, r)
  <1> DEFINE r == Init_Manager(m, half, src)
             v == Pmm_Malloc(m)
             m1 == S1(m)
             p == Pmm_Malloc(m1)
             m2 == S2(m, half, src)
             q == Pmm_Malloc(m2)
             m3 == S3(m, half, src)
             d == Pmm_Malloc(m3)
             n == S4(m, half, src)
             flags == IF half = "user" THEN {"W", "U"} ELSE {"W"}
             m4 == map_page(n, p, Path(half, 0), d, flags)
             failed(mem) == [m |-> mem, v |-> NULL, desc |-> Absent, fault |-> FALSE]
  <1>1. /\ v = NULL => r = failed(m)
        /\ v # NULL /\ p = NULL => r = failed(m)
        /\ v # NULL /\ p # NULL /\ d = NULL => r = failed(Pmm_Free(m3, {v, p}))
        /\ v # NULL /\ p # NULL /\ d # NULL =>
             r = [m |-> m4, v |-> v, desc |-> Descriptor(half, p),
                  fault |-> virt_to_phys_on(m4, p, half, 0) = NULL]
    BY InitUnfolded, ZenonT(60)
  <1>2. /\ m \in Memory /\ m.free \subseteq Frame
        /\ v = NULL <=> m.free = {}
    BY NoPage DEF Tree, Memory
  <1>3. Spent(m, m)
    BY <1>2 DEF Spent
  <1> HIDE DEF r
  <1>4. CASE v = NULL
    <2>1. r.v = NULL /\ r.fault = FALSE /\ r.m = m
      BY <1>1, <1>4
    <2>2. m.free \subseteq {1, 1, 1}
      BY <1>2, <1>4
    <2>3. InitFailed(m, r)
      BY <1>3, <2>1, <2>2, Zenon DEF InitFailed
    <2> QED
      BY <2>3 DEF r
  <1>5. ASSUME v # NULL
        PROVE  /\ v \in m.free /\ m1 \in Memory /\ m1.free = m.free \ {v}
               /\ p = NULL <=> m1.free = {}
    <2>1. v \in m.free /\ m1 \in Memory /\ m1.free = m.free \ {v}
      BY <1>2, <1>5, TakeFacts DEF S1
    <2> HIDE DEF m1, v
    <2> QED
      BY <2>1, NoPage
  <1>6. CASE v # NULL /\ p = NULL
    <2>1. r.v = NULL /\ r.fault = FALSE /\ r.m = m
      BY <1>1, <1>6
    <2>2. m.free \subseteq {v, v, v}
      BY <1>5, <1>6
    <2>3. InitFailed(m, r)
      BY <1>3, <2>1, <2>2, Zenon DEF InitFailed
    <2> QED
      BY <2>3 DEF r
  <1>7. CASE v # NULL /\ p # NULL
    <2>0. m.free # {} /\ m1.free # {}
      BY <1>2, <1>5, <1>7
    <2>1. /\ v \in m.free /\ p \in m.free /\ v # p
          /\ m2 \in Memory /\ m2.free = m.free \ {v, p}
          /\ \A f \in Table : f \in {v, p} \/ m2.table[f] = m.table[f]
          /\ Link(m2.table[p][0]) /\ m2.table[p][0].to \in Table
          /\ Present(m2.table[m2.table[p][0].to][0])
      BY <1>2, <2>0, Stage2
    <2>2. CASE m2.free = {}
      <3>1. m3 = m2
        <4>1. q = NULL
          BY <2>1, <2>2, NoPage
        <4> QED
          BY <4>1, Zenon DEF S3, replace_identity_pdpt
      <3>2. d = NULL
        BY <2>1, <2>2, <3>1, NoPage
      <3>3. r = failed(Pmm_Free(m3, {v, p}))
        BY <1>1, <1>7, <3>2
      <3> HIDE DEF m2, m3, v, p
      <3>4. r.v = NULL /\ r.fault = FALSE /\ r.m = Pmm_Free(m2, {v, p})
        BY <3>1, <3>3
      <3>5. /\ r.m \in Memory /\ r.m.free = m2.free \cup {v, p} /\ r.m.table = m2.table
        BY <1>2, <2>1, <3>4 DEF Pmm_Free, Memory
      <3>6. Spent(m, r.m)
        BY <2>1, <3>5 DEF Spent
      <3>7. m.free \subseteq {v, p, p}
        BY <2>1, <2>2
      <3>8. InitFailed(m, r)
        BY <3>4, <3>6, <3>7, Zenon DEF InitFailed
      <3> QED
        BY <3>8 DEF r
    <2>3. CASE m2.free # {} /\ m3.free = {}
      <3>1. /\ m3 \in Memory /\ m3.free = m2.free \ {q} /\ q \in m2.free
            /\ \A f \in Table : f \in {p, q} \/ m3.table[f] = m2.table[f]
        <4>1. p \in Table /\ p \notin m2.free
          BY <1>2, <2>1, Sizes
        <4>2. q \in m2.free
          BY <2>1, <2>3, TakeFacts
        <4> DEFINE x == replace_identity_pdpt(m2, p)
        <4>3. m3 = x
          BY SMTT(30) DEF S3
        <4>4. /\ x \in Memory /\ x.free = m2.free \ {q}
              /\ \A f \in Table : f \in {p, q} \/ x.table[f] = m2.table[f]
          <5> HIDE DEF m2, p
          <5> QED
            BY <2>1, <2>3, <4>1, ReplaceFacts
        <4> HIDE DEF x, m3
        <4> QED
          BY <4>2, <4>3, <4>4
      <3>2. d = NULL
        BY <2>3, <3>1, NoPage
      <3>3. r = failed(Pmm_Free(m3, {v, p}))
        BY <1>1, <1>7, <3>2
      <3> HIDE DEF m2, m3, v, p, q
      <3>4. r.v = NULL /\ r.fault = FALSE /\ r.m = Pmm_Free(m3, {v, p})
        BY <3>3
      <3>5. /\ r.m \in Memory /\ r.m.free = m3.free \cup {v, p} /\ r.m.table = m3.table
        <4>1. m3 \in Memory /\ {v, p} \in SUBSET Frame
          BY <1>2, <2>1, <3>1
        <4> QED
          BY <3>4, <4>1 DEF Pmm_Free, Memory
      <3>6. Spent(m, r.m)
        BY <2>1, <3>1, <3>5 DEF Spent
      <3>7. m.free \subseteq {v, p, q}
        BY <2>1, <2>3, <3>1
      <3>8. InitFailed(m, r)
        BY <3>4, <3>6, <3>7, Zenon DEF InitFailed
      <3> QED
        BY <3>8 DEF r
    <2>4. CASE m2.free # {} /\ m3.free # {}
      <3>1. /\ {v, p, q, d} \subseteq m.free
            /\ v # p /\ v # q /\ v # d /\ p # q /\ p # d /\ q # d
            /\ n \in Memory /\ n.free = m.free \ {v, p, q, d}
            /\ \A f \in Table : f \in {v, p, q, d} \/ n.table[f] = m.table[f]
            /\ Link(n.table[p][0]) /\ n.table[p][0].to = q /\ "W" \in n.table[p][0].flags
            /\ \A i \in Index : ~Link(n.table[q][i])
            /\ {"P", "W", "H"} \subseteq n.table[q][0].flags
            /\ half = "user" => n.table[p][1] = m.table[src][1]
            /\ half = "kernel" => ~Link(n.table[p][1])
        BY <1>2, <2>0, <2>4, Stage4
      <3>2. d # NULL
        BY <1>2, <3>1, Sizes
      <3>3. r = [m |-> m4, v |-> v, desc |-> Descriptor(half, p),
                 fault |-> virt_to_phys_on(m4, p, half, 0) = NULL]
        BY <1>1, <1>7, <3>2
      <3> HIDE DEF v, m1, p, m2, q, m3, d, n, m4
      <3>4. PICK k1, u1 :
            /\ Tree(n, k1, u1) /\ Frees(n, k1)
            /\ k1[v] = "block" /\ k1[p] = Pml4Kind(half) /\ k1[q] = "low" /\ k1[d] = "none"
            /\ u1[p] = <<v, 0>> /\ u1[q] = <<p, 0>>
            /\ \A f \in Frame : f \in m.free \/ (k1[f] = kind[f] /\ u1[f] = up[f])
        <4>1. Laid(m, half, n, v, p, q, d)
          BY <3>1, Zenon DEF Laid
        <4> QED
          BY SMTT(30), <4>1, BuildTree
      <3> DEFINE U == n.free \cup {d}
      <3>5. /\ d \in Frame /\ d \notin n.free /\ p \in Frame /\ v \in Frame /\ q \in Frame
            /\ flags \in SUBSET {"W", "U"} /\ 0 \in 0..(HEAP - 1) /\ p \notin U /\ v \notin U /\ q \notin U
            /\ U \subseteq m.free
        BY <1>2, <3>1, Sizes
      <3> HIDE DEF flags
      <3>6. PICK k2, u2 : /\ Tree(m4, k2, u2) /\ Frees(m4, k2)
                          /\ Grows(p, half, U, {d}, n, k1, u1, m4, k2, u2)
        BY <3>4, <3>5, MapGrows DEF m4
      <3>7. \A f \in Frame : f \in U \/ (k2[f] = k1[f] /\ u2[f] = u1[f])
        BY <3>6 DEF Grows
      <3>8. \A f \in Table, i \in Index :
              f \in U \/ m4.table[f][i] = n.table[f][i] \/ (f \in Frame /\ OnTheWay(p, half, n, k1, u1, f, i))
        BY <3>6 DEF Grows
      <3>9. Grows(p, half, m.free, {}, m, kind, up, m4, k2, u2)
        <4>1. m4.free \subseteq m.free
          BY <3>1, <3>6 DEF Grows
        <4>2. \A f \in Frame : f \in m.free \/ (k2[f] = kind[f] /\ u2[f] = up[f])
          BY <3>4, <3>5, <3>7
        <4>3. ASSUME NEW f \in Table, NEW i \in Index, f \notin m.free, m4.table[f][i] # m.table[f][i]
              PROVE  f \in Frame /\ OnTheWay(p, half, m, kind, up, f, i)
          <5>1. n.table[f] = m.table[f] /\ f \notin U
            BY <3>1, <3>5, <4>3
          <5>2. f \in Frame /\ OnTheWay(p, half, n, k1, u1, f, i)
            BY <3>8, <4>3, <5>1
          <5>3. k1[f] = kind[f] /\ u1[f] = up[f]
            BY <3>4, <4>3, <5>2
          <5> QED
            BY <5>1, <5>2, <5>3 DEF OnTheWay
        <4> QED
          BY <4>1, <4>2, <4>3 DEF Grows
      <3>10. k2[v] = "block" /\ k2[p] = Pml4Kind(half) /\ u2[p] = <<v, 0>>
        BY <3>4, <3>5, <3>7
      <3>11. m4.table[p][0] = n.table[p][0]
        <4>1. ~OnTheWay(p, half, n, k1, u1, p, 0)
          BY <3>1, <3>4 DEF OnTheWay, Pml4Kind
        <4> QED
          BY <3>5, <3>8, <4>1, Sizes
      <3>12. m4.table[q][0] = n.table[q][0]
        <4>1. ~OnTheWay(p, half, n, k1, u1, q, 0)
          BY SMTT(30), <3>1, <3>4 DEF OnTheWay, Top, Next2
        <4> QED
          BY <3>5, <3>8, <4>1, Sizes
      <3>13. Low(m4, p)
        BY <3>1, <3>5, <3>11, <3>12 DEF Low
      <3>14. half = "user" => m4.table[p][1] = m.table[src][1]
        <4>1. half = "user" => ~OnTheWay(p, half, n, k1, u1, p, 1)
          BY <3>4 DEF OnTheWay, Top, Pml4Kind
        <4> QED
          BY <3>1, <3>5, <3>8, <4>1, Sizes
      <3>15. half = "kernel" /\ virt_to_phys_on(m4, p, half, 0) # NULL => Link(m4.table[p][1])
        <4>1. ASSUME half = "kernel", virt_to_phys_on(m4, p, half, 0) # NULL PROVE Link(m4.table[p][1])
          <5>1. At(m4, p, half, 0) # NULL
            BY <3>5, <4>1, VirtIsAt
          <5>2. T1(m4, p, half) # NULL
            BY <5>1, FollowFacts DEF At, T3, T2
          <5> QED
            BY <4>1, <5>2, FollowFacts DEF T1, Top
        <4> QED
          BY <4>1
      <3> DEFINE fault == virt_to_phys_on(m4, p, half, 0) = NULL
      <3>16. fault \in BOOLEAN
        OBVIOUS
      <3> HIDE DEF fault
      <3>17. r.m = m4 /\ r.v = v /\ r.desc = Descriptor(half, p) /\ r.fault = fault
        BY <3>3 DEF fault
      <3>18. r.desc.Pml4 = p
        BY <3>17 DEF Descriptor
      <3>19. half = "kernel" /\ ~fault => Link(m4.table[p][1])
        BY <3>15 DEF fault
      <3>20. v \in m.free /\ p \in m.free
        BY <3>1
      <3>21. InitMade(m, kind, up, half, src, r)
        BY <3>6, <3>9, <3>10, <3>13, <3>14, <3>16, <3>17, <3>18, <3>19, <3>20, Zenon DEF InitMade
      <3> QED
        BY <3>21 DEF r
    <2> QED
      BY <2>2, <2>3, <2>4
  <1> QED
    BY <1>4, <1>6, <1>7

-----------------------------------------------------------------------------
(***************************************************************************)
(* The invariant.  m stands for memory, D for vmm, S for kernel_stack and  *)
(* K for KernelVMM.                                                        *)
(***************************************************************************)
\* Every manager has its block, its page table and its kernel stack.
Owns(D, S, kind, up) ==
    /\ \A v \in DOMAIN D : /\ kind[v] = "block" /\ kind[D[v].Pml4] = Pml4Kind(D[v].half)
                           /\ up[D[v].Pml4] = <<v, 0>>
    /\ \A v \in DOMAIN S : S[v] # NULL => S[v] \in Frame /\ kind[S[v]] = "stack"

Sound(m, D, S, kind, up) == Tree(m, kind, up) /\ Frees(m, kind) /\ Owns(D, S, kind, up)

\* In every address space RAM is mapped to itself; the kernel half of a user's is the kernel's.
Reaching(m, D, K) ==
    /\ m \in Memory /\ Uefi(m)
    /\ \A v \in DOMAIN D : v \in Frame /\ D[v] \in Manager /\ Low(m, D[v].Pml4)
    /\ \A u \in DOMAIN D : D[u].half = "user" => m.table[D[u].Pml4][1] = m.table[D[K].Pml4][1]

LEMMA WithFacts ==
    ASSUME NEW f, NEW x, NEW y
    PROVE  /\ DOMAIN With(f, x, y) = DOMAIN f \cup {x}
           /\ With(f, x, y)[x] = y
           /\ \A z \in DOMAIN f : z # x => With(f, x, y)[z] = f[z]
  BY DEF With

LEMMA WithoutFacts ==
    ASSUME NEW f, NEW x
    PROVE  /\ DOMAIN Without(f, x) = DOMAIN f \ {x}
           /\ \A z \in DOMAIN f : z # x => Without(f, x)[z] = f[z]
  BY SMTT(30) DEF Without

\* What the tables of a live manager are known by.
LEMMA OwnedKinds ==
    ASSUME NEW m, NEW D, NEW S, NEW K, NEW kind, NEW up, Tree(m, kind, up), Owns(D, S, kind, up),
           Reaching(m, D, K), NEW v \in DOMAIN D
    PROVE  /\ v \in Frame /\ kind[v] = "block"
           /\ D[v].half \in Half /\ D[v].Pml4 \in Frame
           /\ kind[D[v].Pml4] = Pml4Kind(D[v].half) /\ kind[D[v].Pml4] \in {"userPml4", "kernelPml4"}
           /\ up[D[v].Pml4] = <<v, 0>>
           /\ Link(m.table[D[v].Pml4][0])
           /\ m.table[D[v].Pml4][0].to \in Frame
           /\ kind[m.table[D[v].Pml4][0].to] = "low"
           /\ up[m.table[D[v].Pml4][0].to] = <<D[v].Pml4, 0>>
  <1>1. /\ v \in Frame /\ D[v] \in Manager /\ Low(m, D[v].Pml4) /\ kind[v] = "block"
        /\ kind[D[v].Pml4] = Pml4Kind(D[v].half) /\ up[D[v].Pml4] = <<v, 0>>
    BY SMTT(30) DEF Reaching, Owns
  <1>2. D[v].half \in Half /\ D[v].Pml4 \in Frame /\ Link(m.table[D[v].Pml4][0])
    BY <1>1, ManagerFacts DEF Low
  <1>3. kind[D[v].Pml4] \in {"userPml4", "kernelPml4"}
    BY <1>1 DEF Pml4Kind
  <1>4. Leads(kind[D[v].Pml4], 0) /\ Below(kind[D[v].Pml4], 0) = "low" /\ 0 \in Index
    BY <1>3, Sizes DEF Leads, Below
  <1>5. /\ m.table[D[v].Pml4][0].to \in Frame /\ kind[m.table[D[v].Pml4][0].to] = "low"
        /\ up[m.table[D[v].Pml4][0].to] = <<D[v].Pml4, 0>>
    BY SMTT(30), <1>2, <1>4, ChildOf
  <1> QED
    BY <1>1, <1>2, <1>3, <1>5

LEMMA OwnedFacts ==
    ASSUME NEW m, NEW D, NEW S, NEW K, NEW kind, NEW up, Sound(m, D, S, kind, up), Reaching(m, D, K),
           NEW v \in DOMAIN D
    PROVE  /\ v \in Frame /\ v \notin m.free /\ kind[v] = "block"
           /\ D[v].half \in Half /\ D[v].Pml4 \in Frame /\ D[v].Pml4 \notin m.free
           /\ kind[D[v].Pml4] = Pml4Kind(D[v].half) /\ kind[D[v].Pml4] \in {"userPml4", "kernelPml4"}
           /\ up[D[v].Pml4] = <<v, 0>>
           /\ m.table[D[v].Pml4][0].to \in Frame /\ m.table[D[v].Pml4][0].to \notin m.free
           /\ kind[m.table[D[v].Pml4][0].to] = "low"
           /\ up[m.table[D[v].Pml4][0].to] = <<D[v].Pml4, 0>>
  <1>1. Tree(m, kind, up) /\ Owns(D, S, kind, up) /\ \A f \in m.free : kind[f] = "none"
    BY DEF Sound, Frees
  <1> QED
    BY <1>1, OwnedKinds

\* Mapping pages in a new page table, or in the kernel's, leaves every manager what it has.
LEMMA GrowsSound ==
    ASSUME NEW m, NEW D, NEW S, NEW K, NEW kind, NEW up, Sound(m, D, S, kind, up), Reaching(m, D, K),
           K \in DOMAIN D \/ DOMAIN D = {},
           NEW p, NEW half \in Half,
           \A v \in DOMAIN D : D[v].Pml4 = p => half = "kernel" /\ Link(m.table[p][1]),
           p \in Frame => kind[p] # "low",
           NEW n, NEW k2, NEW u2, Tree(n, k2, u2), Frees(n, k2), Grows(p, half, m.free, {}, m, kind, up, n, k2, u2)
    PROVE  /\ Sound(n, D, S, k2, u2) /\ Reaching(n, D, K)
           /\ \A v \in DOMAIN D : n.table[D[v].Pml4][1] = m.table[D[v].Pml4][1]
  <1>1. /\ m.free \subseteq Frame /\ n.free \subseteq m.free /\ n \in Memory /\ m \in Memory
        /\ \A f \in Frame : f \in m.free \/ (k2[f] = kind[f] /\ u2[f] = up[f])
        /\ \A f \in Table, i \in Index :
             f \in m.free \/ n.table[f][i] = m.table[f][i] \/ (f \in Frame /\ OnTheWay(p, half, m, kind, up, f, i))
    BY DEF Grows, Tree, Memory, Sound
  <1>2. ASSUME NEW v \in DOMAIN D
        PROVE  /\ k2[v] = "block" /\ k2[D[v].Pml4] = Pml4Kind(D[v].half) /\ u2[D[v].Pml4] = <<v, 0>>
               /\ n.table[D[v].Pml4][0] = m.table[D[v].Pml4][0]
               /\ n.table[D[v].Pml4][1] = m.table[D[v].Pml4][1]
               /\ n.table[m.table[D[v].Pml4][0].to][0] = m.table[m.table[D[v].Pml4][0].to][0]
    <2> DEFINE q == D[v].Pml4
               t == m.table[q][0].to
    <2>1. /\ v \in Frame /\ v \notin m.free /\ kind[v] = "block"
          /\ q \in Frame /\ q \notin m.free
          /\ kind[q] = Pml4Kind(D[v].half) /\ kind[q] \in {"userPml4", "kernelPml4"}
          /\ up[q] = <<v, 0>>
          /\ t \in Frame /\ t \notin m.free /\ kind[t] = "low" /\ up[t] = <<q, 0>>
      BY SMTT(30), OwnedFacts
    <2>2. q = p => half = "kernel" /\ Link(m.table[q][1])
      OBVIOUS
    <2>3. Link(m.table[q][0])
      BY DEF Reaching, Low
    <2> HIDE DEF t, q
    <2>4. ~OnTheWay(p, half, m, kind, up, q, 0) /\ ~OnTheWay(p, half, m, kind, up, q, 1)
      BY <2>1, <2>2, <2>3 DEF OnTheWay, Top
    <2>5. ~OnTheWay(p, half, m, kind, up, t, 0)
      <3>1. up[t] # <<p, 1>> /\ t # p
        BY <2>1
      <3> QED
        BY <2>1, <3>1 DEF OnTheWay, Top, Next2, Half
    <2>6. k2[v] = "block" /\ k2[q] = Pml4Kind(D[v].half) /\ u2[q] = <<v, 0>>
      BY <1>1, <2>1
    <2>7. n.table[q][0] = m.table[q][0] /\ n.table[q][1] = m.table[q][1] /\ n.table[t][0] = m.table[t][0]
      BY <1>1, <2>1, <2>4, <2>5, Sizes
    <2> QED
      BY <2>6, <2>7 DEF t, q
  <1>3. ASSUME NEW v \in DOMAIN S, S[v] # NULL PROVE S[v] \in Frame /\ k2[S[v]] = "stack"
    BY <1>1, <1>3 DEF Sound, Owns, Frees
  <1>4. Sound(n, D, S, k2, u2)
    BY <1>2, <1>3 DEF Sound, Owns
  <1>5. Uefi(n)
    <2>1. UEFI_PML4 \in Table \ Frame /\ UefiPdpt \in Table \ Frame /\ 0 \in Index
      BY Sizes
    <2>2. \A f \in Table \ Frame, i \in Index : n.table[f][i] = m.table[f][i]
      BY <1>1
    <2>3. \A f \in Table : n.table[f] \in [Index -> Entry] /\ m.table[f] \in [Index -> Entry]
      BY <1>1 DEF Memory
    <2>4. n.table[UEFI_PML4] = m.table[UEFI_PML4]
      BY <2>1, <2>2, <2>3
    <2> QED
      BY <2>1, <2>2, <2>4 DEF Reaching, Uefi
  <1>6. \A v \in DOMAIN D : v \in Frame /\ D[v] \in Manager /\ Low(n, D[v].Pml4)
    <2>1. TAKE v \in DOMAIN D
    <2>2. v \in Frame /\ D[v] \in Manager /\ Low(m, D[v].Pml4)
      BY SMTT(30) DEF Reaching
    <2>3. /\ n.table[D[v].Pml4][0] = m.table[D[v].Pml4][0]
          /\ n.table[m.table[D[v].Pml4][0].to][0] = m.table[m.table[D[v].Pml4][0].to][0]
      BY <1>2
    <2>4. Low(n, D[v].Pml4)
      BY <2>2, <2>3 DEF Low
    <2> QED
      BY <2>2, <2>4
  <1>7. \A u \in DOMAIN D : D[u].half = "user" => n.table[D[u].Pml4][1] = n.table[D[K].Pml4][1]
    BY <1>2 DEF Reaching
  <1>8. Reaching(n, D, K)
    BY <1>1, <1>5, <1>6, <1>7 DEF Reaching
  <1> QED
    BY <1>2, <1>4, <1>8

\* Pages that were taken for nothing are lost and nothing else changes.
LEMMA SpentGrows ==
    ASSUME NEW m, NEW kind, NEW up, Tree(m, kind, up), Frees(m, kind), NEW n, Spent(m, n), NEW p, NEW half
    PROVE  Tree(n, kind, up) /\ Frees(n, kind) /\ Grows(p, half, m.free, {}, m, kind, up, n, kind, up)
  <1>1. /\ n \in Memory /\ n.free \subseteq m.free
        /\ \A f \in Table : f \in m.free \/ n.table[f] = m.table[f]
    BY DEF Spent
  <1>2. Tree(n, kind, up) /\ Frees(n, kind)
    BY <1>1, Untouched
  <1>3. Grows(p, half, m.free, {}, m, kind, up, n, kind, up)
    BY <1>1 DEF Grows
  <1> QED
    BY <1>2, <1>3

LEMMA SpentSound ==
    ASSUME NEW m, NEW D, NEW S, NEW K, NEW kind, NEW up, Sound(m, D, S, kind, up), Reaching(m, D, K),
           K \in DOMAIN D \/ DOMAIN D = {}, NEW n, Spent(m, n)
    PROVE  /\ Sound(n, D, S, kind, up) /\ Reaching(n, D, K)
           /\ \A v \in DOMAIN D : n.table[D[v].Pml4][1] = m.table[D[v].Pml4][1]
  <1>1. \A v \in DOMAIN D : D[v].Pml4 # 0
    BY OwnedFacts, Sizes DEF Frame
  <1>2. Tree(n, kind, up) /\ Frees(n, kind) /\ Grows(0, "kernel", m.free, {}, m, kind, up, n, kind, up)
    BY SpentGrows DEF Sound
  <1>3. "kernel" \in Half /\ 0 \notin Frame
    BY DEF Half, Frame
  <1>4. \A v \in DOMAIN D : D[v].Pml4 = 0 => "kernel" = "kernel" /\ Link(m.table[0][1])
    BY <1>1
  <1> QED
    BY <1>2, <1>3, <1>4, GrowsSound

\* Unmapping pages leaves every manager its tables.
LEMMA ShrinksSound ==
    ASSUME NEW m, NEW D, NEW S, NEW K, NEW kind, NEW up, Sound(m, D, S, kind, up), Reaching(m, D, K),
           K \in DOMAIN D \/ DOMAIN D = {},
           NEW p, NEW n, NEW k2, Tree(n, k2, up), Frees(n, k2), Shrinks(p, m, kind, up, n, k2)
    PROVE  /\ Sound(n, D, S, k2, up) /\ Reaching(n, D, K)
           /\ \A v \in DOMAIN D : n.table[D[v].Pml4][1] = m.table[D[v].Pml4][1]
  <1>1. /\ n \in Memory /\ m \in Memory
        /\ \A f \in Frame : k2[f] = kind[f] \/ (kind[f] = "page" /\ k2[f] = "none")
        /\ \A f \in Table, i \in Index : n.table[f][i] = m.table[f][i] \/ (f \in Frame /\ kind[f] = "pagetable")
    BY DEF Shrinks, Tree, Sound
  <1>2. ASSUME NEW v \in DOMAIN D
        PROVE  /\ k2[v] = "block" /\ k2[D[v].Pml4] = Pml4Kind(D[v].half) /\ up[D[v].Pml4] = <<v, 0>>
               /\ n.table[D[v].Pml4][0] = m.table[D[v].Pml4][0]
               /\ n.table[D[v].Pml4][1] = m.table[D[v].Pml4][1]
               /\ n.table[m.table[D[v].Pml4][0].to][0] = m.table[m.table[D[v].Pml4][0].to][0]
    <2> DEFINE q == D[v].Pml4
               t == m.table[q][0].to
    <2>1. /\ v \in Frame /\ kind[v] = "block"
          /\ q \in Frame /\ kind[q] = Pml4Kind(D[v].half) /\ kind[q] \in {"userPml4", "kernelPml4"}
          /\ up[q] = <<v, 0>> /\ t \in Frame /\ kind[t] = "low"
      BY OwnedFacts
    <2> HIDE DEF t, q
    <2>2. k2[v] = "block" /\ k2[q] = Pml4Kind(D[v].half)
      BY <1>1, <2>1
    <2>3. n.table[q][0] = m.table[q][0] /\ n.table[q][1] = m.table[q][1] /\ n.table[t][0] = m.table[t][0]
      BY <1>1, <2>1, Sizes
    <2> QED
      BY <2>1, <2>2, <2>3 DEF t, q
  <1>3. ASSUME NEW v \in DOMAIN S, S[v] # NULL PROVE S[v] \in Frame /\ k2[S[v]] = "stack"
    BY <1>1, <1>3 DEF Sound, Owns
  <1>4. Sound(n, D, S, k2, up)
    BY <1>2, <1>3 DEF Sound, Owns
  <1>5. Uefi(n)
    <2>1. UEFI_PML4 \in Table \ Frame /\ UefiPdpt \in Table \ Frame /\ 0 \in Index
      BY Sizes
    <2>2. \A f \in Table \ Frame, i \in Index : n.table[f][i] = m.table[f][i]
      BY <1>1
    <2>3. \A f \in Table : n.table[f] \in [Index -> Entry] /\ m.table[f] \in [Index -> Entry]
      BY <1>1 DEF Memory
    <2>4. n.table[UEFI_PML4] = m.table[UEFI_PML4]
      BY <2>1, <2>2, <2>3
    <2> QED
      BY <2>1, <2>2, <2>4 DEF Reaching, Uefi
  <1>6. \A v \in DOMAIN D : v \in Frame /\ D[v] \in Manager /\ Low(n, D[v].Pml4)
    <2>1. TAKE v \in DOMAIN D
    <2>2. v \in Frame /\ D[v] \in Manager /\ Low(m, D[v].Pml4)
      BY DEF Reaching
    <2>3. /\ n.table[D[v].Pml4][0] = m.table[D[v].Pml4][0]
          /\ n.table[m.table[D[v].Pml4][0].to][0] = m.table[m.table[D[v].Pml4][0].to][0]
      BY <1>2
    <2>4. Low(n, D[v].Pml4)
      BY <2>2, <2>3 DEF Low
    <2> QED
      BY <2>2, <2>4
  <1>7. \A u \in DOMAIN D : D[u].half = "user" => n.table[D[u].Pml4][1] = n.table[D[K].Pml4][1]
    BY <1>2 DEF Reaching
  <1>8. Reaching(n, D, K)
    BY <1>1, <1>5, <1>6, <1>7 DEF Reaching
  <1> QED
    BY <1>2, <1>4, <1>8

-----------------------------------------------------------------------------
(***************************************************************************)
(* The pages in use, by their kinds.                                       *)
(***************************************************************************)
\* The kernel half of a user's address space is the kernel's.
LEMMA SharedHalf ==
    ASSUME NEW m, NEW D, NEW K, Reaching(m, D, K), NEW v \in DOMAIN D, D[v].half = "user", D[v].Pml4 # NULL,
           D[K].Pml4 # NULL
    PROVE  /\ T1(m, D[v].Pml4, "kernel") = T1(m, D[K].Pml4, "kernel")
           /\ T2(m, D[v].Pml4, "kernel") = T2(m, D[K].Pml4, "kernel")
           /\ \A n : /\ T3(m, D[v].Pml4, "kernel", n) = T3(m, D[K].Pml4, "kernel", n)
                     /\ At(m, D[v].Pml4, "kernel", n) = At(m, D[K].Pml4, "kernel", n)
  <1>1. m.table[D[v].Pml4][1] = m.table[D[K].Pml4][1]
    BY DEF Reaching
  <1>2. T1(m, D[v].Pml4, "kernel") = T1(m, D[K].Pml4, "kernel")
    BY <1>1 DEF T1, Top, Follow
  <1>3. T2(m, D[v].Pml4, "kernel") = T2(m, D[K].Pml4, "kernel")
    BY <1>2 DEF T2
  <1>4. \A n : T3(m, D[v].Pml4, "kernel", n) = T3(m, D[K].Pml4, "kernel", n)
    BY <1>3 DEF T3
  <1>5. \A n : At(m, D[v].Pml4, "kernel", n) = At(m, D[K].Pml4, "kernel", n)
    BY <1>4 DEF At
  <1> QED
    BY <1>2, <1>3, <1>4, <1>5

\* A half of the address space of p is that of q, to which it belongs.
SameHalf(m, kind, p, q, half) ==
    /\ Leads(kind[q], Top(half))
    /\ T1(m, p, half) = T1(m, q, half) /\ T2(m, p, half) = T2(m, q, half)
    /\ \A n : T3(m, p, half, n) = T3(m, q, half, n) /\ At(m, p, half, n) = At(m, q, half, n)

\* Every table that a live manager's page table reaches is reached from a manager's own entry.
LEMMA OwnWay ==
    ASSUME NEW m, NEW D, NEW S, NEW K, NEW kind, NEW up, Tree(m, kind, up), Owns(D, S, kind, up),
           Reaching(m, D, K), K \in DOMAIN D, D[K].half = "kernel",
           NEW v \in DOMAIN D, NEW half \in Half
    PROVE  \E w \in DOMAIN D : SameHalf(m, kind, D[v].Pml4, D[w].Pml4, half)
  <1>1. /\ D[v].Pml4 \in Frame /\ kind[D[v].Pml4] = Pml4Kind(D[v].half) /\ D[v].half \in Half
        /\ D[K].Pml4 \in Frame /\ kind[D[K].Pml4] = Pml4Kind(D[K].half)
    BY OwnedKinds
  <1>2. CASE half = "kernel" /\ D[v].half = "user"
    <2>1. Leads(kind[D[K].Pml4], Top(half))
      BY <1>1, <1>2 DEF Leads, Top, Pml4Kind
    <2>2. D[v].Pml4 # NULL /\ D[K].Pml4 # NULL
      BY <1>1, Sizes
    <2>3. SameHalf(m, kind, D[v].Pml4, D[K].Pml4, half)
      BY <1>2, <2>1, <2>2, SharedHalf DEF SameHalf
    <2> QED
      BY <2>3
  <1>3. CASE half = "user" \/ D[v].half = "kernel"
    <2>1. Leads(kind[D[v].Pml4], Top(half))
      BY <1>1, <1>3 DEF Leads, Top, Pml4Kind, Half
    <2>2. SameHalf(m, kind, D[v].Pml4, D[v].Pml4, half)
      BY <2>1 DEF SameHalf
    <2> QED
      BY <2>2
  <1> QED
    BY <1>1, <1>2, <1>3 DEF Half

\* A page of a kind, or nothing.
Kind(kind, f, k) == f = NULL \/ (f \in Frame /\ kind[f] = k)

LEMMA WayKinds ==
    ASSUME NEW m, NEW D, NEW S, NEW K, NEW kind, NEW up, Tree(m, kind, up), Owns(D, S, kind, up),
           Reaching(m, D, K), K \in DOMAIN D, D[K].half = "kernel",
           NEW v \in DOMAIN D, NEW half \in Half
    PROVE  /\ Kind(kind, T1(m, D[v].Pml4, half), IF half = "user" THEN "low" ELSE "high")
           /\ Kind(kind, T2(m, D[v].Pml4, half), "directory")
           /\ \A n \in 0..(HEAP - 1) : /\ Kind(kind, T3(m, D[v].Pml4, half, n), "pagetable")
                                       /\ Kind(kind, At(m, D[v].Pml4, half, n), "page")
  <1>1. PICK w \in DOMAIN D : SameHalf(m, kind, D[v].Pml4, D[w].Pml4, half)
    BY OwnWay
  <1>2. D[w].Pml4 \in Frame /\ kind[D[w].Pml4] \in {"userPml4", "kernelPml4"}
    BY OwnedKinds
  <1> DEFINE p == D[w].Pml4
  <1>3. /\ Is(kind, up, T1(m, p, half), IF half = "user" THEN "low" ELSE "high", <<p, Top(half)>>)
        /\ Is(kind, up, T2(m, p, half), "directory", <<T1(m, p, half), Next2(half)>>)
        /\ \A n \in 0..(HEAP - 1) :
             /\ Is(kind, up, T3(m, p, half, n), "pagetable", <<T2(m, p, half), n \div ENTRIES>>)
             /\ Is(kind, up, At(m, p, half, n), "page", <<T3(m, p, half, n), n % ENTRIES>>)
    <2> HIDE DEF p
    <2>1. p \in Frame /\ kind[p] \in {"userPml4", "kernelPml4"} /\ Leads(kind[p], Top(half))
      BY <1>1, <1>2 DEF p, SameHalf
    <2> QED
      BY <2>1, WayTree
  <1> QED
    BY <1>1, <1>3 DEF Is, Kind, SameHalf

\* Where the tables and the heaps' pages of a page table are.
LEMMA TablesAre ==
    ASSUME NEW m, NEW p, p # NULL, NEW f
    PROVE  f \in TablesOf(m, p) <=>
             \/ f = m.table[p][0].to
             \/ f = p
             \/ f # NULL /\ \E half \in Half, n \in 0..(HEAP - 1) :
                              f \in {T1(m, p, half), T2(m, p, half), T3(m, p, half, n)}
  <1> DEFINE X(half, n) == {p, T1(m, p, half), T2(m, p, half), T3(m, p, half, n)} \ {NULL}
             Y(half, n) == LET v == Path(half, n)
                               t1 == Follow(m, p, v[1])
                               t2 == Follow(m, t1, v[2])
                               t3 == Follow(m, t2, v[3])
                           IN  {p, t1, t2, t3} \ {NULL}
             Xs == {X(half, n) : half \in Half, n \in 0..(HEAP - 1)}
             Ys == {Y(half, n) : half \in Half, n \in 0..(HEAP - 1)}
  <1>1. \A half \in Half, n \in 0..(HEAP - 1) : Y(half, n) = X(half, n)
    BY PathParts DEF T1, T2, T3
  <1>2. TablesOf(m, p) = {m.table[p][0].to} \cup UNION Xs
    <2>1. TablesOf(m, p) = {m.table[p][0].to} \cup UNION Ys
      BY DEF TablesOf
    <2>2. Ys = Xs
      <3> HIDE DEF X, Y
      <3> QED
        BY <1>1
    <2> QED
      BY <2>1, <2>2
  <1>3. "user" \in Half /\ 0 \in 0..(HEAP - 1)
    BY Sizes DEF Half
  <1>4. f \in UNION {X(half, n) : half \in Half, n \in 0..(HEAP - 1)} <=>
          \E half \in Half, n \in 0..(HEAP - 1) : f \in X(half, n)
    <2> HIDE DEF X
    <2> QED
      OBVIOUS
  <1> QED
    BY <1>2, <1>3, <1>4

LEMMA HeapIs ==
    ASSUME NEW m, NEW p, NEW half \in Half, NEW f
    PROVE  f \in HeapOf(m, p, half) <=> f # NULL /\ \E n \in 0..(HEAP - 1) : f = At(m, p, half, n)
  BY VirtIsAt DEF HeapOf

LEMMA UsedPages ==
    ASSUME NEW m, NEW D, NEW S, NEW f
    PROVE  f \in InUse(m, D, S) <=>
             \/ f \in DOMAIN D
             \/ \E v \in DOMAIN D : \/ f \in TablesOf(m, D[v].Pml4)
                                    \/ f \in HeapOf(m, D[v].Pml4, "user")
                                    \/ f \in HeapOf(m, D[v].Pml4, "kernel")
             \/ f # NULL /\ \E v \in DOMAIN S : f = S[v]
  <1> DEFINE X(v) == TablesOf(m, D[v].Pml4) \cup HeapOf(m, D[v].Pml4, "user") \cup HeapOf(m, D[v].Pml4, "kernel")
             R == {S[v] : v \in DOMAIN S} \ {NULL}
  <1>1. InUse(m, D, S) = DOMAIN D \cup (UNION {X(v) : v \in DOMAIN D}) \cup R
    BY Zenon DEF InUse
  <1>2. f \in UNION {X(v) : v \in DOMAIN D} <=> \E v \in DOMAIN D : f \in X(v)
    <2> HIDE DEF X
    <2> QED
      OBVIOUS
  <1>3. f \in R <=> f # NULL /\ \E v \in DOMAIN S : f = S[v]
    OBVIOUS
  <1> HIDE DEF R
  <1> QED
    BY <1>1, <1>2, <1>3

\* The tables on the ways from a manager and the pages at their ends are in use.
LEMMA WayIsUsed ==
    ASSUME NEW m, NEW D, NEW S, NEW v \in DOMAIN D, D[v].Pml4 # NULL, NEW half \in Half,
           NEW n \in 0..(HEAP - 1)
    PROVE  /\ D[v].Pml4 \in InUse(m, D, S)
           /\ T1(m, D[v].Pml4, half) # NULL => T1(m, D[v].Pml4, half) \in InUse(m, D, S)
           /\ T2(m, D[v].Pml4, half) # NULL => T2(m, D[v].Pml4, half) \in InUse(m, D, S)
           /\ T3(m, D[v].Pml4, half, n) # NULL => T3(m, D[v].Pml4, half, n) \in InUse(m, D, S)
           /\ At(m, D[v].Pml4, half, n) # NULL => At(m, D[v].Pml4, half, n) \in InUse(m, D, S)
  <1> DEFINE p == D[v].Pml4
  <1>1. \A f : f \in TablesOf(m, p) => f \in InUse(m, D, S)
    BY UsedPages
  <1>2. \A f : f \in HeapOf(m, p, half) => f \in InUse(m, D, S)
    BY UsedPages DEF Half
  <1> HIDE DEF p
  <1>3. p # NULL
    BY DEF p
  <1>4. p \in InUse(m, D, S)
    BY <1>1, <1>3, TablesAre
  <1>5. \A f : f # NULL /\ f \in {T1(m, p, half), T2(m, p, half), T3(m, p, half, n)} => f \in InUse(m, D, S)
    BY <1>1, <1>3, TablesAre
  <1>6. At(m, p, half, n) # NULL => At(m, p, half, n) \in InUse(m, D, S)
    BY <1>2, HeapIs
  <1> QED
    BY <1>4, <1>5, <1>6 DEF p

\* What a page in use is.
Use(m, D, kind, f) ==
    \/ f \in DOMAIN D /\ kind[f] = "block"
    \/ \E v \in DOMAIN D : f = D[v].Pml4
    \/ \E v \in DOMAIN D, half \in Half :
         f = T1(m, D[v].Pml4, half) /\ kind[f] = IF half = "user" THEN "low" ELSE "high"
    \/ \E v \in DOMAIN D, half \in Half : f = T2(m, D[v].Pml4, half) /\ kind[f] = "directory"
    \/ \E v \in DOMAIN D, half \in Half, n \in 0..(HEAP - 1) :
         f = T3(m, D[v].Pml4, half, n) /\ kind[f] = "pagetable"
    \/ kind[f] \in {"page", "stack"}

LEMMA TableUse ==
    ASSUME NEW m, NEW D, NEW S, NEW K, NEW kind, NEW up, Tree(m, kind, up), Owns(D, S, kind, up),
           Reaching(m, D, K), K \in DOMAIN D, D[K].half = "kernel",
           NEW v \in DOMAIN D, NEW f \in TablesOf(m, D[v].Pml4)
    PROVE  /\ f \in Frame /\ Use(m, D, kind, f)
           /\ kind[f] \in {"userPml4", "kernelPml4", "low", "high", "directory", "pagetable"}
  <1> DEFINE p == D[v].Pml4
  <1>1. /\ p \in Frame /\ kind[p] \in {"userPml4", "kernelPml4"} /\ Link(m.table[p][0])
        /\ m.table[p][0].to \in Frame /\ kind[m.table[p][0].to] = "low"
    BY OwnedKinds
  <1>2. p # NULL
    BY <1>1, Sizes
  <1>3. CASE f = m.table[p][0].to
    <2>1. f = T1(m, p, "user")
      BY <1>1, <1>2, <1>3, FollowFacts DEF T1, Top
    <2> QED
      BY <1>1, <1>3, <2>1 DEF Use, Half
  <1>4. CASE f = p
    BY <1>1, <1>4 DEF Use
  <1>5. ASSUME f # NULL, NEW half \in Half, NEW n \in 0..(HEAP - 1),
               f \in {T1(m, p, half), T2(m, p, half), T3(m, p, half, n)}
        PROVE  /\ f \in Frame /\ Use(m, D, kind, f)
               /\ kind[f] \in {"userPml4", "kernelPml4", "low", "high", "directory", "pagetable"}
    <2>1. /\ Kind(kind, T1(m, D[v].Pml4, half), IF half = "user" THEN "low" ELSE "high")
          /\ Kind(kind, T2(m, D[v].Pml4, half), "directory")
          /\ Kind(kind, T3(m, D[v].Pml4, half, n), "pagetable")
      BY WayKinds
    <2>2. CASE f = T1(m, p, half)
      BY <1>5, <2>1, <2>2 DEF Kind, Use
    <2>3. CASE f = T2(m, p, half)
      BY <1>5, <2>1, <2>3 DEF Kind, Use
    <2>4. CASE f = T3(m, p, half, n)
      BY <1>5, <2>1, <2>4 DEF Kind, Use
    <2> QED
      BY <1>5, <2>2, <2>3, <2>4
  <1> QED
    BY <1>2, <1>3, <1>4, <1>5, TablesAre

LEMMA HeapUse ==
    ASSUME NEW m, NEW D, NEW S, NEW K, NEW kind, NEW up, Tree(m, kind, up), Owns(D, S, kind, up),
           Reaching(m, D, K), K \in DOMAIN D, D[K].half = "kernel",
           NEW v \in DOMAIN D, NEW half \in Half, NEW f \in HeapOf(m, D[v].Pml4, half)
    PROVE  f \in Frame /\ kind[f] = "page"
  <1>1. f # NULL /\ \E n \in 0..(HEAP - 1) : f = At(m, D[v].Pml4, half, n)
    BY HeapIs
  <1>2. \A n \in 0..(HEAP - 1) : Kind(kind, At(m, D[v].Pml4, half, n), "page")
    BY WayKinds
  <1> QED
    BY <1>1, <1>2 DEF Kind

LEMMA UsedKinds ==
    ASSUME NEW m, NEW D, NEW S, NEW K, NEW kind, NEW up, Tree(m, kind, up), Owns(D, S, kind, up),
           Reaching(m, D, K), K \in DOMAIN D, D[K].half = "kernel", NEW f \in InUse(m, D, S)
    PROVE  f \in Frame /\ Use(m, D, kind, f)
  <1>1. CASE f \in DOMAIN D
    <2>1. f \in Frame /\ kind[f] = "block"
      BY <1>1, OwnedKinds
    <2> QED
      BY <1>1, <2>1 DEF Use
  <1>2. ASSUME NEW v \in DOMAIN D, f \in TablesOf(m, D[v].Pml4) PROVE f \in Frame /\ Use(m, D, kind, f)
    BY <1>2, TableUse
  <1>3. ASSUME NEW v \in DOMAIN D, NEW half \in Half, f \in HeapOf(m, D[v].Pml4, half)
        PROVE  f \in Frame /\ Use(m, D, kind, f)
    BY <1>3, HeapUse DEF Use
  <1>4. ASSUME f # NULL, NEW v \in DOMAIN S, f = S[v] PROVE f \in Frame /\ Use(m, D, kind, f)
    BY <1>4 DEF Owns, Use
  <1>5. "user" \in Half /\ "kernel" \in Half
    BY DEF Half
  <1> QED
    BY <1>1, <1>2, <1>3, <1>4, <1>5, UsedPages

\* What a table in use leads to is in use.
LEMMA UsedClosed ==
    ASSUME NEW m, NEW D, NEW S, NEW K, NEW kind, NEW up, Tree(m, kind, up), Owns(D, S, kind, up),
           Reaching(m, D, K), K \in DOMAIN D, D[K].half = "kernel", NEW f \in InUse(m, D, S),
           NEW i \in Index, Leads(kind[f], i), Link(m.table[f][i])
    PROVE  m.table[f][i].to \in InUse(m, D, S)
  <1> DEFINE c == m.table[f][i].to
             used == InUse(m, D, S)
  <1>1. f \in Frame /\ Use(m, D, kind, f)
    BY UsedKinds
  <1>2. c \in Frame /\ c # NULL /\ f # NULL
    BY <1>1, ChildOf, Sizes
  <1>3. Follow(m, f, i) = c
    BY <1>2, FollowFacts
  <1>4. \A v \in DOMAIN D : D[v].Pml4 # NULL
    BY OwnedKinds, Sizes
  <1>5. 0 \in 0..(HEAP - 1)
    BY Sizes
  <1>6. ASSUME NEW v \in DOMAIN D, f = D[v].Pml4 PROVE c \in used
    <2>1. kind[f] \in {"userPml4", "kernelPml4"}
      BY <1>6, OwnedKinds
    <2>2. i \in {0, 1}
      BY <2>1 DEF Leads
    <2>3. \E half \in Half : Top(half) = i
      BY <2>2 DEF Half, Top
    <2>4. PICK half \in Half : Top(half) = i
      BY <2>3
    <2>5. T1(m, D[v].Pml4, half) = c
      BY <1>3, <1>6, <2>4 DEF T1
    <2> HIDE DEF c
    <2> QED
      BY SMTT(30), <1>2, <1>4, <1>5, <2>5, WayIsUsed
  <1>7. ASSUME NEW v \in DOMAIN D, NEW half \in Half, f = T1(m, D[v].Pml4, half),
               kind[f] = IF half = "user" THEN "low" ELSE "high"
        PROVE  c \in used
    <2>1. i = Next2(half)
      BY <1>7 DEF Leads, Next2, Half
    <2>2. T2(m, D[v].Pml4, half) = c
      BY <1>3, <1>7, <2>1 DEF T2
    <2> HIDE DEF c
    <2> QED
      BY <1>2, <1>4, <1>5, <2>2, WayIsUsed
  <1>8. ASSUME NEW v \in DOMAIN D, NEW half \in Half, f = T2(m, D[v].Pml4, half)
        PROVE  c \in used
    <2>1. PICK n \in 0..(HEAP - 1) : n \div ENTRIES = i
      <3>1. i * ENTRIES + 0 \in 0..(HEAP - 1) /\ (i * ENTRIES + 0) \div ENTRIES = i
        BY Digits, Sizes
      <3> QED
        BY <3>1
    <2>2. T3(m, D[v].Pml4, half, n) = c
      BY <1>3, <1>8, <2>1 DEF T3
    <2> HIDE DEF c
    <2> QED
      BY <1>2, <1>4, <2>2, WayIsUsed
  <1>9. ASSUME NEW v \in DOMAIN D, NEW half \in Half, NEW n \in 0..(HEAP - 1), f = T3(m, D[v].Pml4, half, n)
        PROVE  c \in used
    <2>1. PICK k \in 0..(HEAP - 1) : k \div ENTRIES = n \div ENTRIES /\ k % ENTRIES = i
      <3> DEFINE j == n \div ENTRIES
      <3>1. j \in Index
        BY Digits
      <3> HIDE DEF j
      <3>2. j * ENTRIES + i \in 0..(HEAP - 1) /\ (j * ENTRIES + i) \div ENTRIES = j /\ (j * ENTRIES + i) % ENTRIES = i
        BY <3>1, Digits
      <3> QED
        BY <3>2 DEF j
    <2>2. T3(m, D[v].Pml4, half, k) = f
      BY <1>9, <2>1 DEF T3
    <2>3. At(m, D[v].Pml4, half, k) = c
      BY <1>3, <2>1, <2>2 DEF At
    <2> HIDE DEF c
    <2> QED
      BY <1>2, <1>4, <2>3, WayIsUsed
  <1>10. kind[f] \notin {"block", "page", "stack"}
    BY DEF Leads
  <1> QED
    BY <1>1, <1>6, <1>7, <1>8, <1>9, <1>10 DEF Use

\* After pages were given back by their numbers: if none of them is in use, every page in use
\* keeps its kind and no other page has one.
LEMMA Recolour ==
    ASSUME NEW m, NEW D, NEW S, NEW K, NEW kind, NEW up, Tree(m, kind, up), Owns(D, S, kind, up),
           Reaching(m, D, K), K \in DOMAIN D, D[K].half = "kernel", InUse(m, D, S) \cap m.free = {}
    PROVE  \E k2 : Sound(m, D, S, k2, up)
  <1> DEFINE k2 == [f \in Frame |-> IF f \in InUse(m, D, S) THEN kind[f] ELSE "none"]
  <1>1. m \in Memory /\ m.free \subseteq Frame /\ kind \in [Frame -> Kinds] /\ up \in [Frame -> Frame \X Nat]
    BY DEF Tree, Memory
  <1>2. k2 \in [Frame -> Kinds]
    BY <1>1 DEF Kinds
  <1>3. \A f \in Frame : k2[f] = IF f \in InUse(m, D, S) THEN kind[f] ELSE "none"
    OBVIOUS
  <1> HIDE DEF k2
  <1>4. ASSUME NEW f \in Frame, NEW i \in Index, Leads(k2[f], i), Link(m.table[f][i])
        PROVE  /\ m.table[f][i].to \in Frame
               /\ k2[m.table[f][i].to] = Below(k2[f], i)
               /\ up[m.table[f][i].to] = <<f, i>>
    <2>1. f \in InUse(m, D, S) /\ k2[f] = kind[f]
      BY <1>3, <1>4 DEF Leads
    <2>2. Leads(kind[f], i)
      BY <1>4, <2>1
    <2>3. /\ m.table[f][i].to \in Frame
          /\ kind[m.table[f][i].to] = Below(kind[f], i)
          /\ up[m.table[f][i].to] = <<f, i>>
      BY <1>4, <2>2, ChildOf
    <2>4. m.table[f][i].to \in InUse(m, D, S)
      BY <1>4, <2>1, <2>2, UsedClosed
    <2> QED
      BY <1>3, <2>1, <2>3, <2>4
  <1>5. Tree(m, k2, up)
    BY <1>1, <1>2, <1>4 DEF Tree
  <1>6. Frees(m, k2)
    BY <1>1, <1>3 DEF Frees
  <1>7. ASSUME NEW v \in DOMAIN D
        PROVE  k2[v] = "block" /\ k2[D[v].Pml4] = Pml4Kind(D[v].half) /\ up[D[v].Pml4] = <<v, 0>>
    <2>1. /\ v \in Frame /\ kind[v] = "block" /\ D[v].Pml4 \in Frame
          /\ kind[D[v].Pml4] = Pml4Kind(D[v].half) /\ up[D[v].Pml4] = <<v, 0>>
      BY OwnedKinds
    <2>2. v \in InUse(m, D, S)
      BY UsedPages
    <2>3. D[v].Pml4 \in InUse(m, D, S)
      <3>1. 0 \in 0..(HEAP - 1) /\ "user" \in Half /\ D[v].Pml4 # NULL
        BY <2>1, Sizes DEF Half
      <3> QED
        BY <3>1, WayIsUsed
    <2> QED
      BY <1>3, <2>1, <2>2, <2>3
  <1>8. ASSUME NEW v \in DOMAIN S, S[v] # NULL PROVE S[v] \in Frame /\ k2[S[v]] = "stack"
    <2>1. S[v] \in Frame /\ kind[S[v]] = "stack"
      BY <1>8 DEF Owns
    <2>2. S[v] \in InUse(m, D, S)
      BY <1>8, UsedPages
    <2> QED
      BY <1>3, <2>1, <2>2
  <1>9. Owns(D, S, k2, up)
    BY <1>7, <1>8 DEF Owns
  <1> QED
    BY <1>5, <1>6, <1>9 DEF Sound

-----------------------------------------------------------------------------
(***************************************************************************)
(* What the invariant gives.                                               *)
(***************************************************************************)
\* The way from the page table p to the page n of a half.
WayTo(m, kind, up, p, half, n) ==
    /\ Is(kind, up, T1(m, p, half), IF half = "user" THEN "low" ELSE "high", <<p, Top(half)>>)
    /\ Is(kind, up, T2(m, p, half), "directory", <<T1(m, p, half), Next2(half)>>)
    /\ T2(m, p, half) # NULL => T1(m, p, half) # NULL
    /\ Is(kind, up, T3(m, p, half, n), "pagetable", <<T2(m, p, half), n \div ENTRIES>>)
    /\ Is(kind, up, At(m, p, half, n), "page", <<T3(m, p, half, n), n % ENTRIES>>)
    /\ T3(m, p, half, n) # NULL => T2(m, p, half) # NULL
    /\ At(m, p, half, n) # NULL => T3(m, p, half, n) # NULL

LEMMA HeapWay ==
    ASSUME NEW m, NEW D, NEW S, NEW K, NEW kind, NEW up, Tree(m, kind, up), Owns(D, S, kind, up),
           Reaching(m, D, K), NEW v \in DOMAIN D, NEW n \in 0..(HEAP - 1),
           NEW p, p = D[v].Pml4, NEW half, half = D[v].half
    PROVE  /\ half \in Half /\ p \in Frame /\ kind[p] \in {"userPml4", "kernelPml4"} /\ up[p] = <<v, 0>>
           /\ WayTo(m, kind, up, p, half, n)
  <1>1. /\ half \in Half /\ p \in Frame /\ kind[p] = Pml4Kind(half) /\ kind[p] \in {"userPml4", "kernelPml4"}
        /\ up[p] = <<v, 0>>
    BY OwnedKinds
  <1>2. Leads(kind[p], Top(half))
    BY <1>1 DEF Leads, Pml4Kind, Top, Half
  <1> QED
    BY <1>1, <1>2, WayTree DEF WayTo

\* A page that names its place in the heap of v, where it is number n.
Placed(kind, up, a, v, n) ==
    /\ a \in Frame /\ kind[a] = "page"
    /\ up[a][2] = n % ENTRIES /\ up[up[a][1]][2] = n \div ENTRIES
    /\ up[up[up[up[up[a][1]][1]][1]][1]][1] = v

LEMMA HeapPlace ==
    ASSUME NEW m, NEW D, NEW S, NEW K, NEW kind, NEW up, Tree(m, kind, up), Owns(D, S, kind, up),
           Reaching(m, D, K), NEW v \in DOMAIN D, NEW n \in 0..(HEAP - 1),
           virt_to_phys_on(m, D[v].Pml4, D[v].half, n) # NULL
    PROVE  Placed(kind, up, virt_to_phys_on(m, D[v].Pml4, D[v].half, n), v, n)
  <1>1. PICK p, half : p = D[v].Pml4 /\ half = D[v].half
    OBVIOUS
  <1> DEFINE a == At(m, p, half, n)
             t1 == T1(m, p, half)
             t2 == T2(m, p, half)
             t3 == T3(m, p, half, n)
  <1>2. /\ half \in Half /\ up[p] = <<v, 0>>
        /\ Is(kind, up, t1, IF half = "user" THEN "low" ELSE "high", <<p, Top(half)>>)
        /\ Is(kind, up, t2, "directory", <<t1, Next2(half)>>)
        /\ t2 # NULL => t1 # NULL
        /\ Is(kind, up, t3, "pagetable", <<t2, n \div ENTRIES>>)
        /\ Is(kind, up, a, "page", <<t3, n % ENTRIES>>)
        /\ t3 # NULL => t2 # NULL
        /\ a # NULL => t3 # NULL
    BY <1>1, HeapWay DEF WayTo
  <1>3. a # NULL /\ virt_to_phys_on(m, D[v].Pml4, D[v].half, n) = a
    BY <1>1, <1>2, VirtIsAt
  <1> HIDE DEF a, t1, t2, t3
  <1>4. /\ a \in Frame /\ kind[a] = "page" /\ up[a] = <<t3, n % ENTRIES>>
        /\ up[t3] = <<t2, n \div ENTRIES>> /\ up[t2] = <<t1, Next2(half)>> /\ up[t1] = <<p, Top(half)>>
    BY <1>2, <1>3 DEF Is
  <1>5. Placed(kind, up, a, v, n)
    BY <1>2, <1>4 DEF Placed
  <1> QED
    BY <1>3, <1>5

LEMMA PlacedOnce ==
    ASSUME NEW kind, NEW up, NEW a, NEW v, NEW w, NEW n \in 0..(HEAP - 1), NEW k \in 0..(HEAP - 1),
           Placed(kind, up, a, v, n), Placed(kind, up, a, w, k)
    PROVE  v = w /\ n = k
  <1>1. n % ENTRIES = k % ENTRIES /\ n \div ENTRIES = k \div ENTRIES /\ v = w
    BY DEF Placed
  <1>2. /\ n = (n \div ENTRIES) * ENTRIES + (n % ENTRIES)
        /\ k = (k \div ENTRIES) * ENTRIES + (k % ENTRIES)
    BY Digits
  <1> QED
    BY <1>1, <1>2

LEMMA SoundOneUse ==
    ASSUME NEW kind, NEW up, Sound(memory, vmm, kernel_stack, kind, up),
           Reaching(memory, vmm, KernelVMM), DOMAIN vmm = {} \/ KernelVMM \in DOMAIN vmm,
           DOMAIN vmm # {} => vmm[KernelVMM].half = "kernel"
    PROVE  OneUse
  <1> DEFINE at(h) == virt_to_phys_on(memory, vmm[h[1]].Pml4, vmm[h[1]].half, h[2])
             heap == {h \in (DOMAIN vmm) \X (0..(HEAP-1)) : at(h) # NULL}
             tables == UNION {TablesOf(memory, vmm[v].Pml4) : v \in DOMAIN vmm}
             pages == {at(h) : h \in heap}
             stacks == {kernel_stack[v] : v \in DOMAIN kernel_stack} \ {NULL}
             uses == <<DOMAIN vmm, tables, pages, stacks, memory.free>>
  <1>1. Tree(memory, kind, up) /\ Owns(vmm, kernel_stack, kind, up) /\ \A f \in memory.free : kind[f] = "none"
    BY DEF Sound, Frees
  <1>2. \A f \in DOMAIN vmm : kind[f] = "block"
    BY <1>1 DEF Owns
  <1>3. ASSUME NEW f \in tables
        PROVE  kind[f] \in {"userPml4", "kernelPml4", "low", "high", "directory", "pagetable"}
    <2>1. PICK v \in DOMAIN vmm : f \in TablesOf(memory, vmm[v].Pml4)
      OBVIOUS
    <2> QED
      BY <1>1, <2>1, TableUse
  <1>4. ASSUME NEW h \in heap
        PROVE  h[1] \in DOMAIN vmm /\ h[2] \in 0..(HEAP - 1) /\ h = <<h[1], h[2]>>
               /\ Placed(kind, up, at(h), h[1], h[2])
    <2>1. h[1] \in DOMAIN vmm /\ h[2] \in 0..(HEAP - 1) /\ h = <<h[1], h[2]>> /\ at(h) # NULL
      OBVIOUS
    <2>2. PICK v, n : v = h[1] /\ n = h[2]
      OBVIOUS
    <2>3. v \in DOMAIN vmm /\ n \in 0..(HEAP - 1) /\ virt_to_phys_on(memory, vmm[v].Pml4, vmm[v].half, n) # NULL
      BY <2>1, <2>2
    <2>4. Placed(kind, up, virt_to_phys_on(memory, vmm[v].Pml4, vmm[v].half, n), v, n)
      BY <1>1, <2>3, HeapPlace
    <2>5. Placed(kind, up, at(h), h[1], h[2])
      BY <2>2, <2>4
    <2> QED
      BY <2>1, <2>5
  <1>5. ASSUME NEW g \in heap, NEW h \in heap, at(g) = at(h) PROVE g = h
    <2>1. g[2] \in 0..(HEAP - 1) /\ g = <<g[1], g[2]>> /\ Placed(kind, up, at(g), g[1], g[2])
      BY <1>4
    <2>2. h[2] \in 0..(HEAP - 1) /\ h = <<h[1], h[2]>> /\ Placed(kind, up, at(h), h[1], h[2])
      BY <1>4
    <2> HIDE DEF at
    <2>3. g[1] = h[1] /\ g[2] = h[2]
      BY <1>5, <2>1, <2>2, PlacedOnce
    <2> QED
      BY <2>1, <2>2, <2>3
  <1>6. \A f \in pages : kind[f] = "page"
    BY <1>4 DEF Placed
  <1>7. \A f \in stacks : kind[f] = "stack"
    BY <1>1 DEF Owns
  <1> HIDE DEF tables, pages, stacks
  <1>8. /\ (DOMAIN vmm) \cap tables = {} /\ (DOMAIN vmm) \cap pages = {} /\ (DOMAIN vmm) \cap stacks = {}
        /\ (DOMAIN vmm) \cap memory.free = {}
        /\ tables \cap pages = {} /\ tables \cap stacks = {} /\ tables \cap memory.free = {}
        /\ pages \cap stacks = {} /\ pages \cap memory.free = {} /\ stacks \cap memory.free = {}
    BY <1>1, <1>2, <1>3, <1>6, <1>7
  <1>9. \A i, j \in DOMAIN uses : i # j => uses[i] \cap uses[j] = {}
    <2>1. /\ DOMAIN uses = 1..5 /\ uses[1] = DOMAIN vmm /\ uses[2] = tables /\ uses[3] = pages
          /\ uses[4] = stacks /\ uses[5] = memory.free
      OBVIOUS
    <2> HIDE DEF uses
    <2>2. \A i \in 1..5 : i = 1 \/ i = 2 \/ i = 3 \/ i = 4 \/ i = 5
      OBVIOUS
    <2>3. \A A, B : A \cap B = B \cap A
      OBVIOUS
    <2> QED
      BY <1>8, <2>1, <2>2, <2>3
  <1>10. \A g, h \in heap : g # h => at(g) # at(h)
    BY <1>5
  <1> QED
    BY <1>9, <1>10, Zenon DEF OneUse, tables, pages, stacks

LEMMA ReachingKernel ==
    ASSUME Reaching(memory, vmm, KernelVMM), DOMAIN vmm = {} \/ KernelVMM \in DOMAIN vmm
    PROVE  KernelReachable
  <1>1. ASSUME NEW u \in Users, NEW n \in 0..(HEAP - 1)
        PROVE  virt_to_phys_on(memory, vmm[u].Pml4, "kernel", n)
                 = virt_to_phys_on(memory, vmm[KernelVMM].Pml4, "kernel", n)
    <2>1. u \in DOMAIN vmm /\ vmm[u].half = "user" /\ KernelVMM \in DOMAIN vmm
      BY DEF Users
    <2>2. vmm[u] \in Manager /\ vmm[KernelVMM] \in Manager
      BY <2>1 DEF Reaching
    <2>3. vmm[u].Pml4 # NULL /\ vmm[KernelVMM].Pml4 # NULL
      BY <2>2, ManagerFacts, Sizes
    <2>4. At(memory, vmm[u].Pml4, "kernel", n) = At(memory, vmm[KernelVMM].Pml4, "kernel", n)
      BY <2>1, <2>3, SharedHalf
    <2>5. "kernel" \in Half
      BY DEF Half
    <2> QED
      BY <2>4, <2>5, VirtIsAt
  <1>2. ASSUME NEW v \in DOMAIN vmm
        PROVE  LET e == memory.table[memory.table[vmm[v].Pml4][0].to][0]
               IN  /\ "W" \in memory.table[vmm[v].Pml4][0].flags
                   /\ {"P", "W", "H"} \subseteq e.flags
    BY DEF Reaching, Low
  <1> QED
    BY <1>1, <1>2 DEF KernelReachable

\* What a manager other than v has in its heap is the same in n.
KeepsOthers(m, D, v, n) ==
    \A w \in DOMAIN D : \A j \in 0..(HEAP - 1) :
       v # w /\ At(m, D[w].Pml4, D[w].half, j) # NULL =>
          At(n, D[w].Pml4, D[w].half, j) = At(m, D[w].Pml4, D[w].half, j)

\* The death of a manager takes nothing from the heap of another one.
LEMMA ShrinksKeeps ==
    ASSUME NEW m, NEW D, NEW S, NEW K, NEW kind, NEW up, Tree(m, kind, up), Owns(D, S, kind, up),
           Reaching(m, D, K), NEW v \in DOMAIN D, NEW n, NEW k2, Shrinks(D[v].Pml4, m, kind, up, n, k2)
    PROVE  KeepsOthers(m, D, v, n)
  <1> SUFFICES ASSUME NEW w \in DOMAIN D, NEW j \in 0..(HEAP - 1), v # w,
                      At(m, D[w].Pml4, D[w].half, j) # NULL
               PROVE  At(n, D[w].Pml4, D[w].half, j) = At(m, D[w].Pml4, D[w].half, j)
    BY Zenon DEF KeepsOthers
  <1>0. PICK p, half : p = D[w].Pml4 /\ half = D[w].half
    OBVIOUS
  <1> DEFINE t1 == T1(m, p, half)
             t2 == T2(m, p, half)
             t3 == T3(m, p, half, j)
  <1>1. /\ half \in Half /\ p \in Frame /\ kind[p] \in {"userPml4", "kernelPml4"} /\ up[p] = <<w, 0>>
        /\ up[D[v].Pml4] = <<v, 0>>
    <2>1. D[w].half \in Half /\ D[w].Pml4 \in Frame /\ kind[D[w].Pml4] \in {"userPml4", "kernelPml4"}
          /\ up[D[w].Pml4] = <<w, 0>>
      BY OwnedKinds
    <2>2. up[D[v].Pml4] = <<v, 0>>
      BY OwnedKinds
    <2> QED
      BY <1>0, <2>1, <2>2
  <1>3. p # D[v].Pml4
    BY <1>1
  <1>4. /\ Is(kind, up, t1, IF half = "user" THEN "low" ELSE "high", <<p, Top(half)>>)
        /\ Is(kind, up, t2, "directory", <<t1, Next2(half)>>)
        /\ t2 # NULL => t1 # NULL
        /\ Is(kind, up, t3, "pagetable", <<t2, j \div ENTRIES>>)
        /\ t3 # NULL => t2 # NULL
        /\ At(m, p, half, j) # NULL => t3 # NULL
    <2>1. Tree(m, kind, up) /\ Owns(D, S, kind, up) /\ Reaching(m, D, K) /\ w \in DOMAIN D /\ j \in 0..(HEAP - 1)
      OBVIOUS
    <2>2. WayTo(m, kind, up, p, half, j)
      BY <1>0, <2>1, HeapWay
    <2> QED
      BY <2>2 DEF WayTo
  <1>5. At(m, p, half, j) # NULL
    BY <1>0
  <1>6. /\ Top(half) \in Index /\ Next2(half) \in Index /\ j \div ENTRIES \in Index /\ j % ENTRIES \in Index
    BY <1>1, PathParts
  <1>7. \A f \in Table, i \in Index :
          n.table[f][i] = m.table[f][i] \/ (f \in Frame /\ kind[f] = "pagetable" /\ Root(up, f) = D[v].Pml4)
    BY DEF Shrinks
  <1>8. T1(n, p, half) = t1
    <2>1. n.table[p][Top(half)] = m.table[p][Top(half)]
      BY <1>1, <1>6, <1>7, Sizes
    <2> QED
      BY <2>1 DEF T1, Follow
  <1> HIDE DEF t1, t2, t3
  <1>9. /\ t1 \in Frame /\ kind[t1] \in {"low", "high"} /\ up[t1] = <<p, Top(half)>>
        /\ t2 \in Frame /\ kind[t2] = "directory" /\ up[t2] = <<t1, Next2(half)>>
        /\ t3 \in Frame /\ up[t3] = <<t2, j \div ENTRIES>>
    BY <1>4, <1>5 DEF Is
  <1>10. T2(n, p, half) = t2
    <2>1. n.table[t1][Next2(half)] = m.table[t1][Next2(half)]
      BY <1>6, <1>7, <1>9, Sizes
    <2>2. Follow(n, t1, Next2(half)) = Follow(m, t1, Next2(half))
      BY <2>1 DEF Follow
    <2> QED
      BY <1>8, <2>2 DEF T2, t1, t2
  <1>11. T3(n, p, half, j) = t3
    <2>1. n.table[t2][j \div ENTRIES] = m.table[t2][j \div ENTRIES]
      BY <1>6, <1>7, <1>9, Sizes
    <2>2. Follow(n, t2, j \div ENTRIES) = Follow(m, t2, j \div ENTRIES)
      BY <2>1 DEF Follow
    <2> QED
      BY <1>10, <2>2 DEF T3, t2, t3
  <1>12. At(n, p, half, j) = At(m, p, half, j)
    <2>1. Root(up, t3) = p
      BY <1>9 DEF Root
    <2>2. n.table[t3][j % ENTRIES] = m.table[t3][j % ENTRIES]
      BY <1>3, <1>6, <1>7, <1>9, <2>1, Sizes
    <2>3. Follow(n, t3, j % ENTRIES) = Follow(m, t3, j % ENTRIES)
      BY <2>2 DEF Follow
    <2> QED
      BY <1>11, <2>3 DEF At, t3
  <1> QED
    BY <1>0, <1>12

-----------------------------------------------------------------------------
(***************************************************************************)
(* New managers and old ones.                                              *)
(***************************************************************************)
\* Descriptors may change but for the half and the page table.
LEMMA SameManagers ==
    ASSUME NEW m, NEW D, NEW S, NEW K, NEW kind, NEW up, Reaching(m, D, K), K \in DOMAIN D \/ DOMAIN D = {},
           NEW E, DOMAIN E = DOMAIN D,
           \A v \in DOMAIN D : E[v] \in Manager /\ E[v].Pml4 = D[v].Pml4 /\ E[v].half = D[v].half
    PROVE  Reaching(m, E, K) /\ (Sound(m, D, S, kind, up) => Sound(m, E, S, kind, up))
  <1>1. Reaching(m, E, K)
    BY DEF Reaching
  <1>2. Sound(m, D, S, kind, up) => Sound(m, E, S, kind, up)
    BY ZenonT(60) DEF Sound, Owns
  <1> QED
    BY <1>1, <1>2

\* A manager made of free pages, and what was mapped in its heap since.
New(m, kind, up, half, v, p, n, k2, u2) ==
    /\ v \in m.free /\ p \in m.free
    /\ Tree(n, k2, u2) /\ Frees(n, k2) /\ Grows(p, half, m.free, {}, m, kind, up, n, k2, u2)
    /\ k2[v] = "block" /\ k2[p] = Pml4Kind(half) /\ u2[p] = <<v, 0>>
    /\ Low(n, p)

LEMMA NewSound ==
    ASSUME NEW m, NEW D, NEW S, NEW K, NEW kind, NEW up, Sound(m, D, S, kind, up), Reaching(m, D, K),
           K \in DOMAIN D \/ DOMAIN D = {}, NEW half \in Half,
           NEW v, NEW p, NEW n, NEW k2, NEW u2, New(m, kind, up, half, v, p, n, k2, u2)
    PROVE  /\ Sound(n, D, S, k2, u2) /\ Reaching(n, D, K) /\ v \notin DOMAIN D
           /\ \A w \in DOMAIN D : n.table[D[w].Pml4][1] = m.table[D[w].Pml4][1]
  <1>1. /\ v \in m.free /\ p \in m.free /\ Tree(n, k2, u2) /\ Frees(n, k2)
        /\ Grows(p, half, m.free, {}, m, kind, up, n, k2, u2)
    BY DEF New
  <1>2. \A w \in DOMAIN D : w \notin m.free /\ D[w].Pml4 \notin m.free
    BY OwnedFacts
  <1>3. kind[p] = "none"
    BY <1>1 DEF Sound, Frees
  <1>4. \A w \in DOMAIN D : D[w].Pml4 = p => half = "kernel" /\ Link(m.table[p][1])
    BY <1>1, <1>2
  <1>5. p \in Frame => kind[p] # "low"
    BY <1>3
  <1>6. /\ Sound(n, D, S, k2, u2) /\ Reaching(n, D, K)
        /\ \A w \in DOMAIN D : n.table[D[w].Pml4][1] = m.table[D[w].Pml4][1]
    BY <1>1, <1>4, <1>5, GrowsSound
  <1> QED
    BY <1>1, <1>2, <1>6

\* The new manager joins the others: a user's has the kernel half of K's, and R has no stack page
\* that S has not but a new one.
Joins(D, S, R, K, half, n, k2, p) ==
    /\ K \in DOMAIN D \/ (half = "kernel" /\ DOMAIN D = {})
    /\ half = "user" => n.table[p][1] = n.table[D[K].Pml4][1]
    /\ \A x \in DOMAIN R : R[x] # NULL =>
          (x \in DOMAIN S /\ R[x] = S[x]) \/ (R[x] \in Frame /\ k2[R[x]] = "stack")

LEMMA AddManager ==
    ASSUME NEW D, NEW S, NEW R, NEW K, NEW half \in Half, NEW v \in Frame, NEW p, NEW n, NEW k2, NEW u2,
           Sound(n, D, S, k2, u2), Reaching(n, D, K), v \notin DOMAIN D,
           k2[v] = "block", k2[p] = Pml4Kind(half), u2[p] = <<v, 0>>, Low(n, p),
           NEW d \in Manager, d.half = half, d.Pml4 = p, Joins(D, S, R, K, half, n, k2, p)
    PROVE  Sound(n, With(D, v, d), R, k2, u2) /\ Reaching(n, With(D, v, d), K)
  <1>0. /\ K \in DOMAIN D \/ (half = "kernel" /\ DOMAIN D = {})
        /\ half = "user" => n.table[p][1] = n.table[D[K].Pml4][1]
        /\ \A x \in DOMAIN R : R[x] # NULL =>
              (x \in DOMAIN S /\ R[x] = S[x]) \/ (R[x] \in Frame /\ k2[R[x]] = "stack")
    BY DEF Joins
  <1> DEFINE E == With(D, v, d)
  <1>1. DOMAIN E = DOMAIN D \cup {v} /\ E[v] = d /\ \A w \in DOMAIN D : E[w] = D[w]
    BY DEF With
  <1> HIDE DEF E
  <1>2. \A w \in DOMAIN E : /\ k2[w] = "block" /\ k2[E[w].Pml4] = Pml4Kind(E[w].half)
                            /\ u2[E[w].Pml4] = <<w, 0>>
    BY <1>1 DEF Sound, Owns
  <1>3. \A x \in DOMAIN R : R[x] # NULL => R[x] \in Frame /\ k2[R[x]] = "stack"
    BY <1>0 DEF Sound, Owns
  <1>4. Sound(n, E, R, k2, u2)
    BY <1>2, <1>3 DEF Sound, Owns
  <1>5. \A w \in DOMAIN E : w \in Frame /\ E[w] \in Manager /\ Low(n, E[w].Pml4)
    BY <1>1 DEF Reaching
  <1>6. ASSUME NEW u \in DOMAIN E, E[u].half = "user" PROVE n.table[E[u].Pml4][1] = n.table[E[K].Pml4][1]
    <2>1. K \in DOMAIN D /\ E[K] = D[K]
      BY <1>0, <1>1, <1>6
    <2>2. CASE u \in DOMAIN D
      BY <1>1, <1>6, <2>1, <2>2 DEF Reaching
    <2>3. CASE u = v
      BY <1>0, <1>1, <1>6, <2>1, <2>3
    <2> QED
      BY <1>1, <2>2, <2>3
  <1>7. Reaching(n, E, K)
    BY <1>5, <1>6 DEF Reaching
  <1> QED
    BY <1>4, <1>7 DEF E

\* Mapping pages in the heap of a new manager.
LEMMA NewMalloc ==
    ASSUME NEW m, NEW kind, NEW up, NEW half \in Half, NEW v, NEW p, NEW n, NEW k2, NEW u2, Tree(m, kind, up),
           New(m, kind, up, half, v, p, n, k2, u2), NEW rec,
           NEW d \in Manager, d.half = half, d.Pml4 = p, NEW N \in Nat
    PROVE  LET r == Vmm_Malloc(n, rec, d, N)
           IN  \E k3, u3 : /\ New(m, kind, up, half, v, p, r.m, k3, u3)
                           /\ half = "user" => r.m.table[p][1] = n.table[p][1]
  <1> DEFINE r == Vmm_Malloc(n, rec, d, N)
  <1>1. /\ v \in m.free /\ p \in m.free /\ Tree(n, k2, u2) /\ Frees(n, k2)
        /\ Grows(p, half, m.free, {}, m, kind, up, n, k2, u2)
        /\ k2[v] = "block" /\ k2[p] = Pml4Kind(half) /\ u2[p] = <<v, 0>>
        /\ Low(n, p)
    BY DEF New
  <1>2. v \in Frame /\ p \in Frame /\ n.free \subseteq m.free
    BY <1>1 DEF Tree, Memory, Grows
  <1>3. d.Address \in 1..HEAP
    BY ManagerFacts
  <1>4. \/ r = [m |-> n, rec |-> rec, d |-> d, at |-> NULL]
        \/ \E k3, u3 : /\ Tree(r.m, k3, u3) /\ Frees(r.m, k3)
                       /\ Grows(p, half, n.free, {}, n, k2, u2, r.m, k3, u3)
    <2>1. Malloced(n, k2, u2, rec, d, N, r)
      BY <1>1, <1>2, <1>3, MallocGrows
    <2> HIDE DEF r
    <2> QED
      BY <2>1 DEF Malloced
  <1> HIDE DEF r
  <1>5. CASE r = [m |-> n, rec |-> rec, d |-> d, at |-> NULL]
    <2>1. r.m = n
      BY <1>5
    <2>2. New(m, kind, up, half, v, p, r.m, k2, u2) /\ (half = "user" => r.m.table[p][1] = n.table[p][1])
      BY <2>1
    <2> QED
      BY <2>2 DEF r
  <1>6. ASSUME NEW k3, NEW u3, Tree(r.m, k3, u3), Frees(r.m, k3),
               Grows(p, half, n.free, {}, n, k2, u2, r.m, k3, u3)
        PROVE  /\ New(m, kind, up, half, v, p, r.m, k3, u3)
               /\ half = "user" => r.m.table[p][1] = n.table[p][1]
    <2>1. Grows(p, half, m.free, {}, n, k2, u2, r.m, k3, u3)
      BY <1>2, <1>6, GrowsWider
    <2>2. Grows(p, half, m.free, {}, m, kind, up, r.m, k3, u3)
      BY <1>1, <2>1, GrowsFurther
    <2>3. v \notin n.free /\ p \notin n.free
      BY <1>1 DEF Frees, Pml4Kind
    <2>4. k3[v] = "block" /\ k3[p] = Pml4Kind(half) /\ u3[p] = <<v, 0>>
      BY <1>1, <1>2, <1>6, <2>3 DEF Grows
    <2> DEFINE t == n.table[p][0].to
    <2>5. t \in Frame /\ k2[t] = "low" /\ u2[t] = <<p, 0>>
      <3>1. Leads(k2[p], 0) /\ Below(k2[p], 0) = "low" /\ 0 \in Index
        BY <1>1, Sizes DEF Leads, Below, Pml4Kind
      <3>2. Link(n.table[p][0])
        BY <1>1 DEF Low
      <3> QED
        BY <1>1, <1>2, <3>1, <3>2, ChildOf
    <2>6. t \notin n.free
      BY <1>1, <2>5 DEF Frees
    <2>7. ~OnTheWay(p, half, n, k2, u2, p, 0) /\ (half = "user" => ~OnTheWay(p, half, n, k2, u2, p, 1))
      <3>1. Link(n.table[p][0])
        BY <1>1 DEF Low
      <3> QED
        BY <1>1, <3>1 DEF OnTheWay, Top, Pml4Kind
    <2>8. ~OnTheWay(p, half, n, k2, u2, t, 0)
      <3>1. u2[t] # <<p, 1>> /\ t # p
        BY <1>1, <2>5 DEF Pml4Kind
      <3> QED
        BY <2>5, <3>1 DEF OnTheWay, Top, Next2, Half
    <2> HIDE DEF t
    <2>9. \A f \in Table, i \in Index :
            f \in n.free \/ r.m.table[f][i] = n.table[f][i] \/ (f \in Frame /\ OnTheWay(p, half, n, k2, u2, f, i))
      BY <1>6 DEF Grows
    <2>10. r.m.table[p][0] = n.table[p][0] /\ r.m.table[t][0] = n.table[t][0]
           /\ (half = "user" => r.m.table[p][1] = n.table[p][1])
      BY SMTT(30), <1>2, <2>3, <2>5, <2>6, <2>7, <2>8, <2>9, Sizes
    <2>11. Low(r.m, p)
      BY <1>1, <2>10 DEF Low, t
    <2> QED
      BY <1>1, <1>6, <2>2, <2>4, <2>10, <2>11 DEF New
  <1> QED
    BY <1>4, <1>5, <1>6 DEF r

\* The page of a kernel stack.
LEMMA NewStack ==
    ASSUME NEW m, NEW kind, NEW up, NEW half \in Half, NEW v, NEW p, NEW n, NEW k2, NEW u2, Tree(m, kind, up),
           New(m, kind, up, half, v, p, n, k2, u2), n.free # {}
    PROVE  \E k3 : /\ New(m, kind, up, half, v, p, Take(n), k3, u2)
                   /\ Take(n).table[p] = n.table[p]
                   /\ Pmm_Malloc(n) \in Frame /\ k3[Pmm_Malloc(n)] = "stack"
  <1> DEFINE s == Pmm_Malloc(n)
             r == Take(n)
             k3 == [k2 EXCEPT ![s] = "stack"]
  <1>1. /\ v \in m.free /\ p \in m.free /\ Tree(n, k2, u2) /\ Frees(n, k2)
        /\ Grows(p, half, m.free, {}, m, kind, up, n, k2, u2)
        /\ k2[v] = "block" /\ k2[p] = Pml4Kind(half) /\ u2[p] = <<v, 0>>
        /\ Low(n, p)
    BY DEF New
  <1>2. /\ v \in Frame /\ p \in Frame /\ n.free \subseteq m.free /\ n \in Memory
        /\ k2 \in [Frame -> Kinds] /\ u2 \in [Frame -> Frame \X Nat]
    BY <1>1 DEF Tree, Memory, Grows
  <1>3. /\ s \in n.free /\ s \in Frame
        /\ r \in Memory /\ r.free = n.free \ {s}
        /\ \A f \in Table : r.table[f] = IF f = s THEN EmptyTable ELSE n.table[f]
    BY <1>2, TakeFacts
  <1>4. \A f \in n.free : k2[f] = "none"
    BY <1>1 DEF Frees
  <1>5. /\ k3 \in [Frame -> Kinds] /\ \A f \in Frame : k3[f] = IF f = s THEN "stack" ELSE k2[f]
    BY <1>2, <1>3 DEF Kinds
  <1> HIDE DEF s, r, k3
  <1>6. Tree(r, k3, u2)
    <2>1. ASSUME NEW f \in Frame, NEW i \in Index, Leads(k3[f], i), Link(r.table[f][i])
          PROVE  /\ r.table[f][i].to \in Frame /\ k3[r.table[f][i].to] = Below(k3[f], i)
                 /\ u2[r.table[f][i].to] = <<f, i>>
      <3>1. f # s
        BY <1>5, <2>1 DEF Leads
      <3>2. k3[f] = k2[f] /\ r.table[f] = n.table[f]
        BY <1>3, <1>5, <3>1, Sizes
      <3>3. /\ n.table[f][i].to \in Frame /\ k2[n.table[f][i].to] = Below(k2[f], i)
            /\ u2[n.table[f][i].to] = <<f, i>>
        BY <1>1, <2>1, <3>2, ChildOf
      <3>4. n.table[f][i].to # s
        BY <1>3, <1>4, <3>3, BelowKinds
      <3> QED
        BY <1>5, <3>2, <3>3, <3>4
    <2> QED
      BY <1>2, <1>3, <1>5, <2>1 DEF Tree
  <1>7. Frees(r, k3)
    BY <1>2, <1>3, <1>4, <1>5 DEF Frees, Memory
  <1>8. v # s /\ p # s
    BY <1>1, <1>3, <1>4 DEF Pml4Kind
  <1>9. k3[v] = "block" /\ k3[p] = Pml4Kind(half) /\ k3[s] = "stack" /\ r.table[p] = n.table[p]
    BY SMTT(30), <1>1, <1>2, <1>3, <1>5, <1>8, Sizes
  <1>10. Low(r, p)
    <2> DEFINE t == n.table[p][0].to
    <2>1. t \in Frame /\ k2[t] = "low"
      <3>1. Leads(k2[p], 0) /\ Below(k2[p], 0) = "low" /\ 0 \in Index
        BY <1>1, Sizes DEF Leads, Below, Pml4Kind
      <3>2. Link(n.table[p][0])
        BY <1>1 DEF Low
      <3> QED
        BY <1>1, <1>2, <3>1, <3>2, ChildOf
    <2>2. t # s
      BY <1>3, <1>4, <2>1
    <2> HIDE DEF t
    <2>3. r.table[t] = n.table[t]
      BY <1>3, <2>1, <2>2, Sizes
    <2> QED
      BY <1>1, <1>9, <2>3 DEF Low, t
  <1>11. Grows(p, half, m.free, {}, m, kind, up, r, k3, u2)
    <2>1. /\ \A f \in Frame : f \in m.free \/ (k2[f] = kind[f] /\ u2[f] = up[f])
          /\ \A f \in Table, i \in Index :
               f \in m.free \/ n.table[f][i] = m.table[f][i] \/ (f \in Frame /\ OnTheWay(p, half, m, kind, up, f, i))
      BY <1>1 DEF Grows
    <2>2. s \in m.free /\ r.free \subseteq m.free
      BY <1>2, <1>3
    <2>3. \A f \in Frame : f \in m.free \/ (k3[f] = kind[f] /\ u2[f] = up[f])
      BY <1>5, <2>1, <2>2
    <2>4. \A f \in Table, i \in Index :
            f \in m.free \/ r.table[f][i] = m.table[f][i] \/ (f \in Frame /\ OnTheWay(p, half, m, kind, up, f, i))
      BY <1>3, <2>1, <2>2
    <2> QED
      BY <2>2, <2>3, <2>4 DEF Grows
  <1>12. New(m, kind, up, half, v, p, r, k3, u2)
    BY <1>1, <1>6, <1>7, <1>9, <1>10, <1>11 DEF New
  <1> QED
    BY <1>3, <1>9, <1>12 DEF s, r

\* The descriptor and the records after the first buffer of a new manager, and after a second one.
LEMMA NewRecord ==
    ASSUME NEW m, NEW kind, NEW up, Tree(m, kind, up), NEW half \in Half, NEW v, NEW p, NEW n, NEW k2, NEW u2,
           New(m, kind, up, half, v, p, n, k2, u2),
           NEW d \in Manager, d.half = half, d.Pml4 = p, NEW N \in Nat, NEW rec \in [RECORDS -> Record],
           NEW c \in {0, 1}, d.AllocRecordNum \in 0..c, NEW r, r = Vmm_Malloc(n, rec, d, N)
    PROVE  /\ r.d \in Manager /\ r.d.half = half /\ r.d.Pml4 = p /\ r.d.AllocRecordNum \in 0..(c + 1)
           /\ r.d.AllocRecordNum \in RECORDS
           /\ r.rec \in [RECORDS -> Record]
  <1>1. /\ p \in m.free /\ Tree(n, k2, u2) /\ Frees(n, k2) /\ k2[p] = Pml4Kind(half)
    BY DEF New
  <1>2. p \in Frame /\ d.Address \in 1..HEAP
    BY <1>1, ManagerFacts DEF Tree, Memory
  <1>3. Malloced(n, k2, u2, rec, d, N, r)
    BY <1>1, <1>2, MallocGrows
  <1>4. CASE r = [m |-> n, rec |-> rec, d |-> d, at |-> NULL]
    <2>1. r.d = d /\ r.rec = rec
      BY <1>4
    <2> QED
      BY <2>1 DEF RECORDS
  <1>5. ASSUME d.Address + N <= HEAP,
               r.rec = [rec EXCEPT ![d.AllocRecordNum] = [half |-> d.half, page |-> d.Address, size |-> N]],
               r.d = Raised(d, N)
        PROVE  /\ r.d \in Manager /\ r.d.half = half /\ r.d.Pml4 = p /\ r.d.AllocRecordNum \in 0..(c + 1)
               /\ r.d.AllocRecordNum \in RECORDS
               /\ r.rec \in [RECORDS -> Record]
    <2>1. PICK e : e = r.d
      OBVIOUS
    <2>2. e \in Manager /\ e.half = d.half /\ e.Pml4 = d.Pml4 /\ e.AllocRecordNum = d.AllocRecordNum + 1
      BY <1>5, <2>1, RaisedFacts
    <2>3. [half |-> d.half, page |-> d.Address, size |-> N] \in Record
      BY <1>2 DEF Record
    <2>4. r.rec \in [RECORDS -> Record]
      BY <1>5, <2>3
    <2>5. e.AllocRecordNum \in 0..(c + 1) /\ e.AllocRecordNum \in RECORDS
      BY <2>2 DEF RECORDS
    <2> QED
      BY <2>1, <2>2, <2>4, <2>5
  <1> QED
    BY <1>3, <1>4, <1>5 DEF Malloced

\* A manager that was made is new.
LEMMA MadeIsNew ==
    ASSUME NEW m, NEW kind, NEW up, NEW half \in Half, NEW src, NEW r, Tree(m, kind, up),
           InitMade(m, kind, up, half, src, r)
    PROVE  /\ r.v \in Frame /\ r.v # NULL /\ r.desc = Descriptor(half, r.desc.Pml4)
           /\ r.desc \in Manager /\ r.desc.half = half /\ r.desc.AllocRecordNum = 0 /\ r.fault \in BOOLEAN
           /\ \E k2, u2 : New(m, kind, up, half, r.v, r.desc.Pml4, r.m, k2, u2)
           /\ half = "user" => r.m.table[r.desc.Pml4][1] = m.table[src][1]
           /\ half = "kernel" /\ ~r.fault => Link(r.m.table[r.desc.Pml4][1])
  <1>1. PICK p : p = r.desc.Pml4
    OBVIOUS
  <1>2. /\ r.v \in m.free /\ p \in m.free /\ r.desc = Descriptor(half, p) /\ r.fault \in BOOLEAN
        /\ \E k2, u2 :
             /\ Tree(r.m, k2, u2) /\ Frees(r.m, k2)
             /\ Grows(p, half, m.free, {}, m, kind, up, r.m, k2, u2)
             /\ k2[r.v] = "block" /\ k2[p] = Pml4Kind(half) /\ u2[p] = <<r.v, 0>>
        /\ Low(r.m, p)
        /\ half = "user" => r.m.table[p][1] = m.table[src][1]
        /\ half = "kernel" /\ ~r.fault => Link(r.m.table[p][1])
    BY <1>1, ZenonT(60) DEF InitMade
  <1>3. r.v \in Frame /\ p \in Frame /\ r.v # NULL
    BY <1>2, Sizes DEF Tree, Memory
  <1>4. r.desc \in Manager /\ r.desc.half = half /\ r.desc.AllocRecordNum = 0
    BY <1>2, <1>3, Sizes DEF Descriptor, Manager
  <1>5. \E k2, u2 : New(m, kind, up, half, r.v, p, r.m, k2, u2)
    BY <1>2 DEF New
  <1> QED
    BY <1>1, <1>2, <1>3, <1>4, <1>5

-----------------------------------------------------------------------------
(***************************************************************************)
(* The inductive invariant, and the steps.                                 *)
(***************************************************************************)
\* The descriptors count the records the managers have made; h stands for held.
Counted(D, K, h) ==
    \A v \in DOMAIN D : /\ D[v].AllocRecordNum \in RECORDS
                        /\ v = K => D[v].AllocRecordNum = IF h = <<>> THEN 0 ELSE 1

\* The kernel's manager, and the shell's buffer in its heap.
Kernel(m, D, S, K, h) ==
    /\ DOMAIN S = DOMAIN D \ {K}
    /\ K = NULL => DOMAIN D = {} /\ m.free = Frame /\ h = <<>>
    /\ K # NULL => K \in DOMAIN D /\ D[K].half = "kernel"
    /\ h # <<>> => h[1] \in Nat /\ h[2] \in Nat \ {0} /\ h[1] >= 1 /\ h[1] <= D[K].Address

\* The kernel half's entry of the kernel's PML4 is there, so nothing writes it.
Linked(m, D, K) == K # NULL => Link(m.table[D[K].Pml4][1])

Some(m, D, S) == \E kind, up : Sound(m, D, S, kind, up)

IInv ==
    /\ Reaching(memory, vmm, KernelVMM)
    /\ Kernel(memory, vmm, kernel_stack, KernelVMM, held)
    /\ Counted(vmm, KernelVMM, held)
    /\ AllocRecord \in [RECORDS -> Record]
    /\ stopped \in BOOLEAN /\ spoiled \in BOOLEAN
    /\ ~stopped => Linked(memory, vmm, KernelVMM)
    /\ ~spoiled => Some(memory, vmm, kernel_stack)
    /\ BufferKept

LEMMA InvFacts ==
    ASSUME IInv
    PROVE  /\ KernelVMM \in DOMAIN vmm \/ DOMAIN vmm = {}
           /\ DOMAIN vmm # {} => KernelVMM \in DOMAIN vmm /\ vmm[KernelVMM].half = "kernel" /\ KernelVMM # NULL
           /\ \A v \in DOMAIN vmm : v \in Frame /\ vmm[v] \in Manager
  BY DEF IInv, Kernel, Reaching

LEMMA IInvInit == Init => IInv
  <1> SUFFICES ASSUME Init PROVE IInv
    OBVIOUS
  <1> DEFINE m == memory
             none == [f \in Frame |-> "none"]
             up == [f \in Frame |-> <<f, 0>>]
  <1>1. PICK ram \in UefiEntries, high \in UefiEntries \cup {Absent} :
         m = [free |-> Frame,
              table |-> [f \in 1..(FRAMES + 3) |->
                 [i \in Index |->
                    CASE f = UEFI_PML4 /\ i = 0 -> [to |-> UefiPdpt, flags |-> {"P", "W"}]
                      [] f = UefiPdpt /\ i = 0  -> ram
                      [] f = UefiPdpt /\ i = 1  -> high
                      [] OTHER                  -> Absent]]]
    BY DEF Init
  <1>2. ram \in Entry /\ high \in Entry /\ Present(ram) /\ [to |-> UefiPdpt, flags |-> {"P", "W"}] \in Entry
    <2>1. UefiTable \in 0..(FRAMES + 3) /\ UefiPdpt \in 0..(FRAMES + 3) /\ NULL \in 0..(FRAMES + 3)
      BY DEF UefiTable, UefiPdpt, NULL
    <2>2. \A e \in UefiEntries : e \in Entry /\ Present(e)
      BY <2>1 DEF UefiEntries, Entry, Present
    <2>3. [to |-> UefiPdpt, flags |-> {"P", "W"}] \in Entry
      BY <2>1 DEF Entry
    <2> QED
      BY <2>2, <2>3, EntryTypes
  <1>3. /\ m.free = Frame /\ m \in Memory
        /\ \A f \in Table, i \in Index :
             m.table[f][i] = CASE f = UEFI_PML4 /\ i = 0 -> [to |-> UefiPdpt, flags |-> {"P", "W"}]
                               [] f = UefiPdpt /\ i = 0  -> ram
                               [] f = UefiPdpt /\ i = 1  -> high
                               [] OTHER                  -> Absent
    <2> DEFINE e(f, i) == CASE f = UEFI_PML4 /\ i = 0 -> [to |-> UefiPdpt, flags |-> {"P", "W"}]
                            [] f = UefiPdpt /\ i = 0  -> ram
                            [] f = UefiPdpt /\ i = 1  -> high
                            [] OTHER                  -> Absent
    <2>1. \A f \in Table, i \in Index : e(f, i) \in Entry
      BY <1>2, EntryTypes
    <2>2. m = [free |-> Frame, table |-> [f \in Table |-> [i \in Index |-> e(f, i)]]]
      BY <1>1 DEF Table
    <2>3. \A f \in Table, i \in Index : m.table[f][i] = e(f, i)
      <3> HIDE DEF e
      <3> QED
        BY <2>2
    <2>4. m.free = Frame /\ m \in Memory
      <3> HIDE DEF e
      <3> QED
        BY <2>1, <2>2 DEF Memory
    <2> QED
      BY <2>3, <2>4
  <1>4. Uefi(m)
    <2>1. /\ UEFI_PML4 \in Table /\ UefiPdpt \in Table /\ UEFI_PML4 # UefiPdpt /\ 0 \in Index
      BY Sizes DEF UEFI_PML4, UefiPdpt
    <2>2. m.table[UEFI_PML4] \in [Index -> Entry]
      BY <1>3, <2>1 DEF Memory
    <2>3. \A i \in Index : m.table[UEFI_PML4][i] = IF i = 0 THEN [to |-> UefiPdpt, flags |-> {"P", "W"}] ELSE Absent
      BY <1>3, <2>1
    <2>4. m.table[UEFI_PML4] = [i \in Index |-> IF i = 0 THEN [to |-> UefiPdpt, flags |-> {"P", "W"}] ELSE Absent]
      BY <2>2, <2>3
    <2>5. m.table[UefiPdpt][0] = ram
      BY <1>3, <2>1
    <2> QED
      BY <1>2, <2>4, <2>5 DEF Uefi
  <1>5. DOMAIN vmm = {} /\ DOMAIN kernel_stack = {} /\ KernelVMM = NULL /\ held = <<>>
        /\ stopped = FALSE /\ spoiled = FALSE
    BY DEF Init
  <1>6. Sound(m, vmm, kernel_stack, none, up)
    <2>1. none \in [Frame -> Kinds] /\ up \in [Frame -> Frame \X Nat] /\ \A f \in Frame : none[f] = "none"
      BY DEF Kinds
    <2> HIDE DEF none, up, m
    <2>2. Tree(m, none, up)
      BY <1>3, <2>1 DEF Tree, Leads
    <2>3. Frees(m, none)
      BY <1>3, <2>1 DEF Frees
    <2> QED
      BY <1>5, <2>2, <2>3 DEF Sound, Owns
  <1>7. AllocRecord \in [RECORDS -> Record]
    BY DEF Init, Record, Half
  <1>8. Some(memory, vmm, kernel_stack)
    BY <1>6 DEF Some
  <1>9. Reaching(memory, vmm, KernelVMM)
    BY <1>3, <1>4, <1>5 DEF Reaching
  <1>10. Kernel(memory, vmm, kernel_stack, KernelVMM, held) /\ Counted(vmm, KernelVMM, held)
         /\ Linked(memory, vmm, KernelVMM) /\ BufferKept
    BY <1>3, <1>5 DEF Kernel, Counted, Linked, BufferKept
  <1> QED
    BY <1>5, <1>7, <1>8, <1>9, <1>10 DEF IInv

LEMMA InitSystemStep == IInv /\ InitSystem => IInv'
  <1> SUFFICES ASSUME IInv, InitSystem PROVE IInv'
    OBVIOUS
  <1> DEFINE made == Init_Manager(memory, "kernel", NULL)
             v == made.v
  <1>1. /\ ~stopped /\ ~spoiled /\ KernelVMM = NULL
        /\ memory' = made.m /\ KernelVMM' = v /\ vmm' = With(vmm, v, made.desc) /\ stopped' = made.fault
        /\ AllocRecord' = AllocRecord /\ kernel_stack' = kernel_stack /\ held' = held /\ spoiled' = spoiled
    BY DEF InitSystem, Running
  <1>2. /\ Reaching(memory, vmm, NULL) /\ DOMAIN vmm = {} /\ memory.free = Frame /\ held = <<>>
        /\ DOMAIN kernel_stack = {} /\ AllocRecord \in [RECORDS -> Record]
    BY <1>1 DEF IInv, Kernel
  <1>3. PICK kind, up : Sound(memory, vmm, kernel_stack, kind, up)
    BY <1>1 DEF IInv, Some
  <1>4. Tree(memory, kind, up) /\ Frees(memory, kind) /\ Uefi(memory) /\ "kernel" \in Half
    BY <1>2, <1>3 DEF Sound, Reaching, Half
  <1>5. InitFailed(memory, made) \/ InitMade(memory, kind, up, "kernel", NULL, made)
    BY <1>4, InitManager
  <1> HIDE DEF made
  <1>6. ~InitFailed(memory, made)
    <2>1. ASSUME NEW a, NEW b, NEW c, Frame \subseteq {a, b, c} PROVE FALSE
      <3>1. {1, 2, 3, 4} \subseteq Frame
        BY DEF Frame
      <3> QED
        BY <2>1, <3>1
    <2> QED
      BY <1>2, <2>1 DEF InitFailed
  <1>7. /\ v \in Frame /\ v # NULL /\ made.desc \in Manager /\ made.desc.half = "kernel"
        /\ made.desc.AllocRecordNum = 0 /\ made.fault \in BOOLEAN
        /\ \E k2, u2 : New(memory, kind, up, "kernel", v, made.desc.Pml4, made.m, k2, u2)
        /\ ~made.fault => Link(made.m.table[made.desc.Pml4][1])
    BY <1>4, <1>5, <1>6, MadeIsNew
  <1>8. PICK k2, u2 : New(memory, kind, up, "kernel", v, made.desc.Pml4, made.m, k2, u2)
    BY <1>7
  <1> HIDE DEF v
  <1>9. Reaching(memory, vmm, v)
    BY <1>2 DEF Reaching
  <1>10. Sound(made.m, vmm, kernel_stack, k2, u2) /\ Reaching(made.m, vmm, v) /\ v \notin DOMAIN vmm
    BY <1>2, <1>3, <1>4, <1>8, <1>9, NewSound
  <1>11. Sound(made.m, With(vmm, v, made.desc), kernel_stack, k2, u2)
         /\ Reaching(made.m, With(vmm, v, made.desc), v)
    <2>1. /\ k2[v] = "block" /\ k2[made.desc.Pml4] = Pml4Kind("kernel") /\ u2[made.desc.Pml4] = <<v, 0>>
          /\ Low(made.m, made.desc.Pml4)
      BY <1>8 DEF New
    <2> QED
      BY <1>2, <1>4, <1>7, <1>10, <2>1, AddManager DEF Joins
  <1>12. DOMAIN vmm' = {v} /\ vmm'[v] = made.desc
    BY <1>1, <1>2 DEF With
  <1>13. Kernel(memory', vmm', kernel_stack', KernelVMM', held') /\ Counted(vmm', KernelVMM', held')
    BY <1>1, <1>2, <1>7, <1>12 DEF Kernel, Counted, RECORDS
  <1>14. ~stopped' => Linked(memory', vmm', KernelVMM')
    BY <1>1, <1>7, <1>12 DEF Linked
  <1>15. Some(memory', vmm', kernel_stack') /\ Reaching(memory', vmm', KernelVMM')
    BY <1>1, <1>11 DEF Some
  <1>16. BufferKept'
    BY <1>1, <1>2 DEF BufferKept
  <1>17. AllocRecord' \in [RECORDS -> Record] /\ stopped' \in BOOLEAN /\ spoiled' \in BOOLEAN
    <2>1. AllocRecord' \in [RECORDS -> Record]
      BY <1>1, <1>2
    <2>2. stopped' \in BOOLEAN
      BY <1>1, <1>7, Zenon
    <2>3. spoiled' \in BOOLEAN
      BY <1>1, Zenon DEF IInv
    <2> QED
      BY <2>1, <2>2, <2>3
  <1> QED
    BY <1>13, <1>14, <1>15, <1>16, <1>17 DEF IInv

LEMMA AllocBufferStep == IInv /\ AllocBuffer => IInv'
  <1> SUFFICES ASSUME IInv, AllocBuffer PROVE IInv'
    OBVIOUS
  <1> DEFINE K == KernelVMM
  <1>0. PICK d : d = vmm[K]
    OBVIOUS
  <1>1. PICK n \in BufferPages :
         LET r == Vmm_Malloc(memory, AllocRecord, d, n)
         IN  /\ memory' = r.m /\ AllocRecord' = r.rec
             /\ vmm' = [vmm EXCEPT ![K] = r.d]
             /\ held' = IF r.at = NULL THEN <<>> ELSE <<r.at, n>>
             /\ stopped' = (r.at # NULL /\ ~Mapped(r.m, r.d, r.at, n))
             /\ spoiled' = (r.at = NULL)
    BY <1>0 DEF AllocBuffer
  <1>2. ~stopped /\ ~spoiled /\ K # NULL /\ held = <<>> /\ K' = K /\ kernel_stack' = kernel_stack
    BY DEF AllocBuffer, Shell, Running
  <1> DEFINE r == Vmm_Malloc(memory, AllocRecord, d, n)
  <1>3. /\ memory' = r.m /\ AllocRecord' = r.rec /\ vmm' = [vmm EXCEPT ![K] = r.d]
        /\ held' = IF r.at = NULL THEN <<>> ELSE <<r.at, n>>
        /\ stopped' = (r.at # NULL /\ ~Mapped(r.m, r.d, r.at, n))
        /\ spoiled' = (r.at = NULL)
    BY <1>1
  <1>4. /\ K \in DOMAIN vmm /\ d.half = "kernel" /\ Reaching(memory, vmm, K) /\ d \in Manager
        /\ d.AllocRecordNum = 0 /\ Link(memory.table[d.Pml4][1]) /\ AllocRecord \in [RECORDS -> Record]
        /\ DOMAIN kernel_stack = DOMAIN vmm \ {K} /\ Counted(vmm, K, held)
    BY <1>0, <1>2 DEF IInv, Kernel, Reaching, Counted, Linked
  <1>5. PICK kind, up : Sound(memory, vmm, kernel_stack, kind, up)
    BY <1>2 DEF IInv, Some
  <1>6. /\ Tree(memory, kind, up) /\ Frees(memory, kind) /\ d.Pml4 \in Frame
        /\ kind[d.Pml4] = Pml4Kind("kernel") /\ d.Address \in 1..HEAP /\ n \in Nat \ {0} /\ d.half \in Half
    <2>1. Tree(memory, kind, up) /\ Frees(memory, kind) /\ n \in Nat \ {0}
      BY <1>5 DEF Sound
    <2>2. d.Pml4 \in Frame /\ d.Address \in 1..HEAP /\ d.half \in Half
      BY <1>4, ManagerFacts
    <2>3. kind[d.Pml4] = Pml4Kind("kernel")
      BY <1>0, <1>4, <1>5 DEF Sound, Owns
    <2> QED
      BY <2>1, <2>2, <2>3
  <1>7. \/ r = [m |-> memory, rec |-> AllocRecord, d |-> d, at |-> NULL]
        \/ /\ r.at = d.Address /\ d.Address + n <= HEAP
           /\ r.rec = [AllocRecord EXCEPT ![d.AllocRecordNum] = [half |-> d.half, page |-> d.Address, size |-> n]]
           /\ r.d = Raised(d, n)
           /\ \E k2, u2 : /\ Tree(r.m, k2, u2) /\ Frees(r.m, k2)
                          /\ Grows(d.Pml4, d.half, memory.free, {}, memory, kind, up, r.m, k2, u2)
    <2>1. n \in Nat /\ kind[d.Pml4] = Pml4Kind(d.half)
      BY <1>4, <1>6
    <2>2. Malloced(memory, kind, up, AllocRecord, d, n, r)
      BY <1>6, <2>1, MallocGrows
    <2> HIDE DEF r
    <2> QED
      BY <2>2, Zenon DEF Malloced
  <1> HIDE DEF r
  \* Parts that hold in either case.
  <1>8. /\ r.rec \in [RECORDS -> Record] /\ r.d \in Manager /\ r.d.half = d.half /\ r.d.Pml4 = d.Pml4
        /\ r.at = NULL \/ (r.at = d.Address /\ r.at # NULL /\ r.at \in Nat /\ r.at >= 1
                             /\ r.d.Address = d.Address + n /\ r.d.AllocRecordNum = 1)
        /\ r.at = NULL => r.d = d
        /\ Reaching(r.m, vmm, K) /\ Some(r.m, vmm, kernel_stack)
        /\ Link(r.m.table[d.Pml4][1])
    <2>1. CASE r = [m |-> memory, rec |-> AllocRecord, d |-> d, at |-> NULL]
      BY <1>4, <1>5, <2>1 DEF Some
    <2>2. ASSUME r.at = d.Address, d.Address + n <= HEAP,
                 r.rec = [AllocRecord EXCEPT ![d.AllocRecordNum] = [half |-> d.half, page |-> d.Address, size |-> n]],
                 r.d = Raised(d, n), NEW k2, NEW u2, Tree(r.m, k2, u2), Frees(r.m, k2),
                 Grows(d.Pml4, d.half, memory.free, {}, memory, kind, up, r.m, k2, u2)
          PROVE  /\ r.rec \in [RECORDS -> Record] /\ r.d \in Manager /\ r.d.half = d.half /\ r.d.Pml4 = d.Pml4
                 /\ r.at = d.Address /\ r.at # NULL /\ r.at \in Nat /\ r.at >= 1
                 /\ r.d.Address = d.Address + n /\ r.d.AllocRecordNum = 1
                 /\ Reaching(r.m, vmm, K) /\ Some(r.m, vmm, kernel_stack)
                 /\ Link(r.m.table[d.Pml4][1])
      <3>1. /\ r.d \in Manager /\ r.d.half = d.half /\ r.d.Pml4 = d.Pml4
            /\ r.d.Address = d.Address + n /\ r.d.AllocRecordNum = 1
        <4>1. n \in Nat /\ d \in Manager /\ d.Address + n <= HEAP /\ r.d = Raised(d, n)
          BY <1>4, <1>6, <2>2
        <4> QED
          BY <1>4, <4>1, RaisedFacts
      <3>2. [half |-> d.half, page |-> d.Address, size |-> n] \in Record
        BY <1>6 DEF Record
      <3>3. r.rec \in [RECORDS -> Record]
        BY <1>4, <2>2, <3>2
      <3>4. r.at # NULL /\ r.at \in Nat /\ r.at >= 1
        BY <1>6, <2>2 DEF NULL
      <3>5. /\ Sound(r.m, vmm, kernel_stack, k2, u2) /\ Reaching(r.m, vmm, K)
            /\ r.m.table[d.Pml4][1] = memory.table[d.Pml4][1]
        <4>1. \A v \in DOMAIN vmm : vmm[v].Pml4 = d.Pml4 => d.half = "kernel" /\ Link(memory.table[d.Pml4][1])
          BY <1>0, <1>4
        <4>2. d.Pml4 \in Frame => kind[d.Pml4] # "low"
          BY <1>6 DEF Pml4Kind
        <4>3. /\ Sound(r.m, vmm, kernel_stack, k2, u2) /\ Reaching(r.m, vmm, K)
              /\ \A v \in DOMAIN vmm : r.m.table[vmm[v].Pml4][1] = memory.table[vmm[v].Pml4][1]
          BY <1>4, <1>5, <1>6, <2>2, <4>1, <4>2, GrowsSound
        <4> QED
          BY <1>0, <1>4, <4>3
      <3>6. Some(r.m, vmm, kernel_stack)
        BY <3>5 DEF Some
      <3> QED
        BY <1>4, <2>2, <3>1, <3>3, <3>4, <3>5, <3>6
    <2> QED
      BY <1>7, <2>1, <2>2
  <1>9. /\ DOMAIN vmm' = DOMAIN vmm /\ vmm'[K] = r.d /\ \A v \in DOMAIN vmm : v # K => vmm'[v] = vmm[v]
    BY <1>3, <1>4
  <1>10. \A v \in DOMAIN vmm : /\ vmm'[v] \in Manager /\ vmm'[v].Pml4 = vmm[v].Pml4
                               /\ vmm'[v].half = vmm[v].half
    BY <1>0, <1>4, <1>8, <1>9 DEF Reaching
  <1>11. Reaching(memory', vmm', KernelVMM') /\ Some(memory', vmm', kernel_stack')
    <2>1. PICK k2, u2 : Sound(r.m, vmm, kernel_stack, k2, u2)
      BY <1>8 DEF Some
    <2>2. Reaching(r.m, vmm', K) /\ Sound(r.m, vmm', kernel_stack, k2, u2)
      BY <1>4, <1>8, <1>9, <1>10, <2>1, SameManagers
    <2> QED
      BY <1>2, <1>3, <2>2 DEF Some
  <1>12. held' # <<>> => held' = <<r.at, n>> /\ r.at # NULL
    BY <1>3
  <1>13. Kernel(memory', vmm', kernel_stack', KernelVMM', held')
    BY <1>0, <1>2, <1>4, <1>6, <1>8, <1>9, <1>12 DEF Kernel
  <1>14. Counted(vmm', KernelVMM', held')
    <2>1. r.d.AllocRecordNum = IF held' = <<>> THEN 0 ELSE 1
      BY <1>3, <1>4, <1>8
    <2> QED
      BY <1>2, <1>4, <1>9, <2>1 DEF Counted, RECORDS
  <1>15. Linked(memory', vmm', KernelVMM')
    BY <1>2, <1>3, <1>8, <1>9 DEF Linked
  <1>16. BufferKept'
    <2>1. held' # <<>> /\ ~stopped' => Mapped(r.m, r.d, r.at, n)
      BY <1>3, <1>12, Zenon
    <2>2. held' # <<>> => held'[1] = r.at /\ held'[2] = n
      BY <1>12
    <2> QED
      BY <1>2, <1>3, <1>9, <2>1, <2>2 DEF BufferKept, Running
  <1>17. AllocRecord' \in [RECORDS -> Record]
    BY <1>3, <1>8
  <1>18. stopped' \in BOOLEAN /\ spoiled' \in BOOLEAN
    BY <1>3, Zenon
  <1> QED
    BY <1>11, <1>13, <1>14, <1>15, <1>16, <1>17, <1>18 DEF IInv

LEMMA FreeBufferStep == IInv /\ FreeBuffer => IInv'
  <1> SUFFICES ASSUME IInv, FreeBuffer PROVE IInv'
    OBVIOUS
  <1> DEFINE K == KernelVMM
  <1>0. PICK d, a, n : d = vmm[K] /\ a = held[1] /\ n = held[2]
    OBVIOUS
  <1> DEFINE r == Vmm_Free(memory, d, "kernel", a, n)
  <1>1. /\ ~stopped /\ ~spoiled /\ held # <<>>
        /\ memory' = r.m /\ vmm' = [vmm EXCEPT ![K] = r.d] /\ held' = <<>>
        /\ K' = K /\ AllocRecord' = AllocRecord /\ kernel_stack' = kernel_stack
        /\ stopped' = stopped /\ spoiled' = spoiled
    BY <1>0 DEF FreeBuffer, Running
  <1>2. /\ K \in DOMAIN vmm /\ K # NULL /\ d.half = "kernel" /\ Reaching(memory, vmm, K) /\ d \in Manager
        /\ d.AllocRecordNum = 1 /\ Link(memory.table[d.Pml4][1])
        /\ DOMAIN kernel_stack = DOMAIN vmm \ {K} /\ Counted(vmm, K, held)
        /\ a \in Nat /\ n \in Nat \ {0} /\ a >= 1 /\ a <= d.Address
    BY <1>0, <1>1 DEF IInv, Kernel, Reaching, Counted, Linked
  <1>3. PICK kind, up : Sound(memory, vmm, kernel_stack, kind, up)
    BY <1>1 DEF IInv, Some
  <1>4. /\ Tree(memory, kind, up) /\ Frees(memory, kind) /\ d.Pml4 \in Frame
        /\ kind[d.Pml4] = Pml4Kind(d.half) /\ d.half \in Half
    <2>1. Tree(memory, kind, up) /\ Frees(memory, kind)
      BY <1>3 DEF Sound
    <2>2. d.Pml4 \in Frame /\ d.half \in Half
      BY <1>2, ManagerFacts
    <2>3. kind[d.Pml4] = Pml4Kind(d.half)
      BY <1>0, <1>2, <1>3 DEF Sound, Owns
    <2> QED
      BY <2>1, <2>2, <2>3
  <1>5. r.d = Lowered(d, n)
    <2>1. a # 0 /\ n # 0 /\ OwnRange(d, "kernel", a)
      BY <1>2 DEF OwnRange
    <2>2. PICK g : Vmm_Free(memory, d, "kernel", a, n) =
                     IF a = 0 \/ n = 0 \/ ~OwnRange(d, "kernel", a) THEN [m |-> memory, d |-> d]
                     ELSE [m |-> g[n], d |-> Lowered(d, n)]
      <3>1. n \in Nat
        BY <1>2
      <3>2. \E g : /\ Freeing(g, memory, d.Pml4, "kernel", a, n)
                    /\ Vmm_Free(memory, d, "kernel", a, n) =
                         IF a = 0 \/ n = 0 \/ ~OwnRange(d, "kernel", a) THEN [m |-> memory, d |-> d]
                         ELSE [m |-> g[n], d |-> Lowered(d, n)]
        BY <3>1, FreeingExists
      <3> QED
        BY <3>2, Zenon
    <2> QED
      BY <2>1, <2>2
  <1>6. PICK k2 : Tree(r.m, k2, up) /\ Frees(r.m, k2) /\ Shrinks(d.Pml4, memory, kind, up, r.m, k2)
    BY <1>2, <1>4, FreeShrinks
  <1> HIDE DEF r
  <1>7. /\ Sound(r.m, vmm, kernel_stack, k2, up) /\ Reaching(r.m, vmm, K)
        /\ \A v \in DOMAIN vmm : r.m.table[vmm[v].Pml4][1] = memory.table[vmm[v].Pml4][1]
    BY <1>2, <1>3, <1>6, ShrinksSound
  <1>8. r.d \in Manager /\ r.d.half = d.half /\ r.d.Pml4 = d.Pml4 /\ r.d.AllocRecordNum = 0
    <2>1. n \in Nat /\ d \in Manager
      BY <1>2
    <2>2. PICK e : e = r.d
      OBVIOUS
    <2>3. e = Lowered(d, n)
      BY <1>5, <2>2
    <2>4. e \in Manager /\ e.half = d.half /\ e.Pml4 = d.Pml4 /\ e.AllocRecordNum = d.AllocRecordNum - 1
      BY <2>1, <2>3, LoweredFacts
    <2> QED
      BY <1>2, <2>2, <2>4
  <1>9. /\ DOMAIN vmm' = DOMAIN vmm /\ vmm'[K] = r.d /\ \A v \in DOMAIN vmm : v # K => vmm'[v] = vmm[v]
    BY <1>1, <1>2
  <1>10. \A v \in DOMAIN vmm : /\ vmm'[v] \in Manager /\ vmm'[v].Pml4 = vmm[v].Pml4
                               /\ vmm'[v].half = vmm[v].half
    BY <1>0, <1>2, <1>8, <1>9 DEF Reaching
  <1>11. Reaching(memory', vmm', KernelVMM') /\ Some(memory', vmm', kernel_stack')
    <2>1. Reaching(r.m, vmm', K) /\ Sound(r.m, vmm', kernel_stack, k2, up)
      BY <1>2, <1>7, <1>9, <1>10, SameManagers
    <2> QED
      BY <1>1, <2>1 DEF Some
  <1>12. Kernel(memory', vmm', kernel_stack', KernelVMM', held')
    BY <1>1, <1>2, <1>8, <1>9 DEF Kernel
  <1>13. Counted(vmm', KernelVMM', held')
    BY <1>1, <1>2, <1>8, <1>9 DEF Counted, RECORDS
  <1>14. Linked(memory', vmm', KernelVMM')
    <2>1. r.m.table[d.Pml4][1] = memory.table[d.Pml4][1]
      BY <1>0, <1>2, <1>7
    <2> QED
      BY <1>1, <1>2, <1>8, <1>9, <2>1 DEF Linked
  <1>15. BufferKept'
    BY <1>1 DEF BufferKept
  <1>16. AllocRecord' \in [RECORDS -> Record]
    BY <1>1 DEF IInv
  <1>17. stopped' \in BOOLEAN /\ spoiled' \in BOOLEAN
    BY <1>1, Zenon DEF IInv
  <1> QED
    BY <1>11, <1>12, <1>13, <1>14, <1>15, <1>16, <1>17 DEF IInv

LEMMA VmmThreadStep == IInv /\ VmmThread => IInv'
  <1> SUFFICES ASSUME IInv, VmmThread PROVE IInv'
    OBVIOUS
  <1> DEFINE K == KernelVMM
  <1>1. /\ ~stopped /\ ~spoiled /\ K # NULL /\ held = <<>> /\ K' = K /\ held' = held
    BY DEF VmmThread, Shell, Running
  <1>2. PICK made : /\ made = Init_Manager(memory, "kernel", NULL)
                    /\ IF made.v = NULL \/ made.fault
                       THEN /\ memory' = made.m
                            /\ stopped' = made.fault /\ spoiled' = (made.v = NULL)
                            /\ UNCHANGED <<vmm, AllocRecord, kernel_stack>>
                       ELSE \E r \in {Vmm_Malloc(made.m, AllocRecord, made.desc, 1)} :
                            /\ memory' = r.m /\ AllocRecord' = r.rec
                            /\ vmm' = With(vmm, made.v, r.d)
                            /\ kernel_stack' = With(kernel_stack, made.v, NULL)
                            /\ stopped' = (r.at # NULL /\ ~Mapped(r.m, r.d, r.at, 1))
                            /\ spoiled' = (r.at = NULL)
    BY Zenon DEF VmmThread
  <1>3. /\ K \in DOMAIN vmm /\ vmm[K].half = "kernel" /\ Reaching(memory, vmm, K)
        /\ Link(memory.table[vmm[K].Pml4][1]) /\ AllocRecord \in [RECORDS -> Record]
        /\ DOMAIN kernel_stack = DOMAIN vmm \ {K} /\ Counted(vmm, K, held)
    BY <1>1 DEF IInv, Kernel, Linked
  <1>4. PICK kind, up : Sound(memory, vmm, kernel_stack, kind, up)
    BY <1>1 DEF IInv, Some
  <1>5. Tree(memory, kind, up) /\ Frees(memory, kind) /\ Uefi(memory) /\ "kernel" \in Half
    BY <1>3, <1>4 DEF Sound, Reaching, Half
  <1>6. InitFailed(memory, made) \/ InitMade(memory, kind, up, "kernel", NULL, made)
    BY <1>2, <1>5, InitManager
  \* No thread: the managers stay as they are.
  <1>7. ASSUME NEW n, memory' = n, vmm' = vmm, AllocRecord' = AllocRecord, kernel_stack' = kernel_stack,
               stopped' \in BOOLEAN, spoiled' \in BOOLEAN, Reaching(n, vmm, K), Some(n, vmm, kernel_stack),
               n.table[vmm[K].Pml4][1] = memory.table[vmm[K].Pml4][1]
        PROVE  IInv'
    <2>1. Kernel(memory', vmm', kernel_stack', KernelVMM', held') /\ Counted(vmm', KernelVMM', held')
      BY <1>1, <1>3, <1>7 DEF Kernel
    <2>2. Linked(memory', vmm', KernelVMM') /\ BufferKept'
      BY <1>1, <1>3, <1>7 DEF Linked, BufferKept
    <2> QED
      BY <1>1, <1>3, <1>7, <2>1, <2>2 DEF IInv
  <1>8. CASE InitFailed(memory, made)
    <2>1. made.v = NULL /\ made.fault = FALSE /\ Spent(memory, made.m)
      BY <1>8 DEF InitFailed
    <2>2. /\ Sound(made.m, vmm, kernel_stack, kind, up) /\ Reaching(made.m, vmm, K)
          /\ \A v \in DOMAIN vmm : made.m.table[vmm[v].Pml4][1] = memory.table[vmm[v].Pml4][1]
      BY <1>3, <1>4, <2>1, SpentSound
    <2>3. /\ memory' = made.m /\ stopped' = made.fault /\ spoiled' = (made.v = NULL)
          /\ vmm' = vmm /\ AllocRecord' = AllocRecord /\ kernel_stack' = kernel_stack
      BY <1>2, <2>1, Zenon
    <2>4. stopped' \in BOOLEAN /\ spoiled' \in BOOLEAN
      BY <2>1, <2>3, Zenon
    <2>5. Some(made.m, vmm, kernel_stack)
      BY <2>2 DEF Some
    <2> QED
      BY <1>3, <1>7, <2>2, <2>3, <2>4, <2>5
  <1>9. CASE InitMade(memory, kind, up, "kernel", NULL, made)
    <2>1. PICK v, p, d : v = made.v /\ d = made.desc /\ p = made.desc.Pml4
      OBVIOUS
    <2>2. /\ v \in Frame /\ v # NULL /\ d \in Manager /\ d.half = "kernel" /\ d.Pml4 = p
          /\ d.AllocRecordNum = 0 /\ made.fault \in BOOLEAN /\ d = Descriptor("kernel", p)
          /\ \E k2, u2 : New(memory, kind, up, "kernel", v, p, made.m, k2, u2)
      BY <1>5, <1>9, <2>1, MadeIsNew
    <2>3. PICK k2, u2 : New(memory, kind, up, "kernel", v, p, made.m, k2, u2)
      BY <2>2
    <2>4. CASE made.fault
      <3>1. /\ memory' = made.m /\ stopped' = made.fault /\ spoiled' = (made.v = NULL)
            /\ vmm' = vmm /\ AllocRecord' = AllocRecord /\ kernel_stack' = kernel_stack
        BY <1>2, <2>4, Zenon
      <3>2. stopped' \in BOOLEAN /\ spoiled' \in BOOLEAN
        BY <2>2, <3>1, Zenon
      <3>3. /\ Sound(made.m, vmm, kernel_stack, k2, u2) /\ Reaching(made.m, vmm, K)
            /\ \A w \in DOMAIN vmm : made.m.table[vmm[w].Pml4][1] = memory.table[vmm[w].Pml4][1]
        BY <1>3, <1>4, <1>5, <2>3, NewSound
      <3>4. Some(made.m, vmm, kernel_stack)
        BY <3>3 DEF Some
      <3> QED
        BY <1>3, <1>7, <3>1, <3>2, <3>3, <3>4
    <2>5. CASE ~made.fault
      <3>1. PICK r : /\ r = Vmm_Malloc(made.m, AllocRecord, made.desc, 1)
                     /\ memory' = r.m /\ AllocRecord' = r.rec
                     /\ vmm' = With(vmm, made.v, r.d)
                     /\ kernel_stack' = With(kernel_stack, made.v, NULL)
                     /\ stopped' = (r.at # NULL /\ ~Mapped(r.m, r.d, r.at, 1))
                     /\ spoiled' = (r.at = NULL)
        BY <1>2, <2>1, <2>2, <2>5, Zenon
      <3>2. PICK k3, u3 : New(memory, kind, up, "kernel", v, p, r.m, k3, u3)
        <4>1. r = Vmm_Malloc(made.m, AllocRecord, d, 1) /\ 1 \in Nat
          BY <2>1, <3>1
        <4>2. \E k3, u3 : New(memory, kind, up, "kernel", v, p, Vmm_Malloc(made.m, AllocRecord, d, 1).m, k3, u3)
          BY <1>5, <2>2, <2>3, <4>1, NewMalloc
        <4> QED
          BY <4>1, <4>2
      <3>3. /\ r.d \in Manager /\ r.d.half = "kernel" /\ r.d.Pml4 = p /\ r.d.AllocRecordNum \in RECORDS
            /\ r.rec \in [RECORDS -> Record]
        <4>1. r = Vmm_Malloc(made.m, AllocRecord, d, 1)
          BY <2>1, <3>1
        <4>2. d.AllocRecordNum \in 0..0
          BY <2>2
        <4>3. 1 \in Nat /\ 0 \in {0, 1}
          OBVIOUS
        <4> QED
          BY <1>3, <1>5, <2>2, <2>3, <4>1, <4>2, <4>3, NewRecord
      <3>4. /\ Sound(r.m, vmm, kernel_stack, k3, u3) /\ Reaching(r.m, vmm, K) /\ v \notin DOMAIN vmm
            /\ \A w \in DOMAIN vmm : r.m.table[vmm[w].Pml4][1] = memory.table[vmm[w].Pml4][1]
        BY <1>3, <1>4, <1>5, <3>2, NewSound
      <3>5. /\ DOMAIN kernel_stack' = DOMAIN kernel_stack \cup {v} /\ kernel_stack'[v] = NULL
            /\ \A w \in DOMAIN kernel_stack : w # v => kernel_stack'[w] = kernel_stack[w]
        BY <2>1, <3>1 DEF With
      <3>6. /\ DOMAIN vmm' = DOMAIN vmm \cup {v} /\ vmm'[v] = r.d
            /\ \A w \in DOMAIN vmm : vmm'[w] = vmm[w]
        BY <2>1, <3>1, <3>4 DEF With
      <3>7. Sound(r.m, With(vmm, v, r.d), kernel_stack', k3, u3) /\ Reaching(r.m, With(vmm, v, r.d), K)
        <4>1. /\ k3[v] = "block" /\ k3[p] = Pml4Kind("kernel") /\ u3[p] = <<v, 0>> /\ Low(r.m, p)
          BY <3>2 DEF New
        <4>2. \A x \in DOMAIN kernel_stack' : kernel_stack'[x] # NULL =>
                \/ x \in DOMAIN kernel_stack /\ kernel_stack'[x] = kernel_stack[x]
                \/ kernel_stack'[x] \in Frame /\ k3[kernel_stack'[x]] = "stack"
          BY <3>5
        <4>3. PICK e, S : e = r.d /\ S = kernel_stack'
          OBVIOUS
        <4>4. /\ e \in Manager /\ e.half = "kernel" /\ e.Pml4 = p
              /\ \A x \in DOMAIN S : S[x] # NULL =>
                \/ x \in DOMAIN kernel_stack /\ S[x] = kernel_stack[x]
                \/ S[x] \in Frame /\ k3[S[x]] = "stack"
          BY <3>3, <4>2, <4>3
        <4>5. Sound(r.m, With(vmm, v, e), S, k3, u3) /\ Reaching(r.m, With(vmm, v, e), K)
          <5>1. Joins(vmm, kernel_stack, S, K, "kernel", r.m, k3, p)
            BY <1>3, <4>4 DEF Joins
          <5> QED
            BY <1>5, <2>2, <3>4, <4>1, <4>4, <5>1, AddManager
        <4> QED
          BY <4>3, <4>5
      <3>8. Reaching(memory', vmm', KernelVMM') /\ Some(memory', vmm', kernel_stack')
        BY <1>1, <2>1, <3>1, <3>7 DEF Some
      <3>9. Kernel(memory', vmm', kernel_stack', KernelVMM', held')
        BY <1>1, <1>3, <3>4, <3>5, <3>6 DEF Kernel
      <3>10. Counted(vmm', KernelVMM', held')
        BY SMTT(30), <1>1, <1>3, <3>3, <3>4, <3>6 DEF Counted
      <3>11. Linked(memory', vmm', KernelVMM')
        BY <1>1, <1>3, <3>1, <3>4, <3>6 DEF Linked
      <3>12. BufferKept' /\ AllocRecord' \in [RECORDS -> Record]
        BY <1>1, <3>1, <3>3 DEF BufferKept
      <3>13. stopped' \in BOOLEAN /\ spoiled' \in BOOLEAN
        BY <3>1, Zenon
      <3> QED
        BY <3>8, <3>9, <3>10, <3>11, <3>12, <3>13 DEF IInv
    <2> QED
      BY <2>2, <2>4, <2>5
  <1> QED
    BY <1>6, <1>8, <1>9

LEMMA CreateUserThreadStep == IInv /\ CreateUserThread => IInv'
  <1> SUFFICES ASSUME IInv, CreateUserThread PROVE IInv'
    OBVIOUS
  <1> DEFINE K == KernelVMM
  <1>1. /\ ~stopped /\ ~spoiled /\ K # NULL /\ held = <<>> /\ K' = K /\ held' = held /\ spoiled' = spoiled
    BY DEF CreateUserThread, Shell, Running
  <1>2. PICK src, made :
          /\ src \in {v \in DOMAIN vmm : v = K \/ vmm[v].half = "user"}
          /\ made = Init_Manager(memory, "user", vmm[src].Pml4)
          /\ IF made.v = NULL \/ made.fault
             THEN /\ memory' = made.m
                  /\ stopped' = made.fault
                  /\ UNCHANGED <<vmm, AllocRecord, kernel_stack>>
             ELSE \E code \in {Vmm_Malloc(made.m, AllocRecord, made.desc, 1)} :
                  LET unfit == code.at # NULL /\ ~Mapped(code.m, code.d, code.at, 1)
                      stk   == Vmm_Malloc(code.m, code.rec, code.d, StackPages)
                  IN  /\ stopped' = unfit
                      /\ IF unfit \/ code.at = NULL
                         THEN /\ memory' = code.m /\ AllocRecord' = code.rec
                              /\ UNCHANGED <<vmm, kernel_stack>>
                         ELSE /\ AllocRecord' = stk.rec
                              /\ IF stk.at = NULL \/ stk.m.free = {}
                                 THEN memory' = stk.m /\ UNCHANGED <<vmm, kernel_stack>>
                                 ELSE /\ memory' = Take(stk.m)
                                      /\ vmm' = With(vmm, made.v, stk.d)
                                      /\ kernel_stack' = With(kernel_stack, made.v, Pmm_Malloc(stk.m))
    BY Zenon DEF CreateUserThread
  <1>3. /\ K \in DOMAIN vmm /\ vmm[K].half = "kernel" /\ Reaching(memory, vmm, K)
        /\ Link(memory.table[vmm[K].Pml4][1]) /\ AllocRecord \in [RECORDS -> Record]
        /\ DOMAIN kernel_stack = DOMAIN vmm \ {K} /\ Counted(vmm, K, held)
    BY <1>1 DEF IInv, Kernel, Linked
  <1>4. PICK kind, up : Sound(memory, vmm, kernel_stack, kind, up)
    BY <1>1 DEF IInv, Some
  <1>5. Tree(memory, kind, up) /\ Frees(memory, kind) /\ "user" \in Half
    BY <1>4 DEF Sound, Half
  <1>6. PICK s : s = vmm[src].Pml4
    OBVIOUS
  <1>7. /\ s \in Frame /\ s \notin memory.free /\ Low(memory, s) /\ memory.table[s][0].to \notin memory.free
        /\ memory.table[s][1] = memory.table[vmm[K].Pml4][1]
    <2>1. src \in DOMAIN vmm /\ (src = K \/ vmm[src].half = "user")
      BY ZenonT(60), <1>2
    <2>2. s \in Frame /\ s \notin memory.free /\ memory.table[s][0].to \notin memory.free
      BY <1>3, <1>4, <1>6, <2>1, OwnedFacts
    <2>3. Low(memory, s) /\ memory.table[s][1] = memory.table[vmm[K].Pml4][1]
      BY <1>3, <1>6, <2>1 DEF Reaching
    <2> QED
      BY <2>2, <2>3
  <1>8. InitFailed(memory, made) \/ InitMade(memory, kind, up, "user", s, made)
    <2>1. made = Init_Manager(memory, "user", s)
      BY <1>2, <1>6
    <2> QED
      BY <1>5, <1>7, <2>1, InitManager
  \* No thread: the managers stay as they are.
  <1>9. ASSUME NEW n, memory' = n, vmm' = vmm, AllocRecord' \in [RECORDS -> Record],
               kernel_stack' = kernel_stack, stopped' \in BOOLEAN, Reaching(n, vmm, K), Some(n, vmm, kernel_stack),
               n.table[vmm[K].Pml4][1] = memory.table[vmm[K].Pml4][1]
        PROVE  IInv'
    <2>1. Kernel(memory', vmm', kernel_stack', KernelVMM', held') /\ Counted(vmm', KernelVMM', held')
      BY <1>1, <1>3, <1>9 DEF Kernel
    <2>2. Linked(memory', vmm', KernelVMM') /\ BufferKept'
      BY <1>1, <1>3, <1>9 DEF Linked, BufferKept
    <2>3. spoiled' \in BOOLEAN
      BY <1>1 DEF IInv
    <2> QED
      BY <1>1, <1>3, <1>9, <2>1, <2>2, <2>3 DEF IInv
  <1>10. CASE InitFailed(memory, made)
    <2>1. made.v = NULL /\ made.fault = FALSE /\ Spent(memory, made.m)
      BY <1>10 DEF InitFailed
    <2>2. /\ Sound(made.m, vmm, kernel_stack, kind, up) /\ Reaching(made.m, vmm, K)
          /\ \A v \in DOMAIN vmm : made.m.table[vmm[v].Pml4][1] = memory.table[vmm[v].Pml4][1]
      BY <1>3, <1>4, <2>1, SpentSound
    <2>3. /\ memory' = made.m /\ stopped' = made.fault
          /\ vmm' = vmm /\ AllocRecord' = AllocRecord /\ kernel_stack' = kernel_stack
      BY <1>2, <2>1, Zenon
    <2>4. stopped' \in BOOLEAN
      BY <2>1, <2>3, Zenon
    <2>5. Some(made.m, vmm, kernel_stack)
      BY <2>2 DEF Some
    <2> QED
      BY <1>3, <1>9, <2>2, <2>3, <2>4, <2>5
  <1>11. CASE InitMade(memory, kind, up, "user", s, made)
    <2>1. PICK v, p, d : v = made.v /\ d = made.desc /\ p = made.desc.Pml4
      OBVIOUS
    <2>2. /\ v \in Frame /\ v # NULL /\ d \in Manager /\ d.half = "user" /\ d.Pml4 = p
          /\ d.AllocRecordNum = 0 /\ made.fault \in BOOLEAN
          /\ \E k2, u2 : New(memory, kind, up, "user", v, p, made.m, k2, u2)
          /\ made.m.table[p][1] = memory.table[s][1]
      BY <1>5, <1>11, <2>1, MadeIsNew
    \* Whatever was mapped in the new manager's heap, the others keep what they have.
    <2>3. ASSUME NEW n, NEW k2, NEW u2, New(memory, kind, up, "user", v, p, n, k2, u2)
          PROVE  /\ Sound(n, vmm, kernel_stack, k2, u2) /\ Some(n, vmm, kernel_stack) /\ Reaching(n, vmm, K)
                 /\ v \notin DOMAIN vmm
                 /\ n.table[vmm[K].Pml4][1] = memory.table[vmm[K].Pml4][1]
      <3>1. /\ Sound(n, vmm, kernel_stack, k2, u2) /\ Reaching(n, vmm, K) /\ v \notin DOMAIN vmm
            /\ \A w \in DOMAIN vmm : n.table[vmm[w].Pml4][1] = memory.table[vmm[w].Pml4][1]
        BY <1>3, <1>4, <1>5, <2>3, NewSound
      <3> QED
        BY <1>3, <3>1 DEF Some
    <2>4. PICK k2, u2 : New(memory, kind, up, "user", v, p, made.m, k2, u2)
      BY <2>2
    <2>5. CASE made.fault
      <3>1. /\ memory' = made.m /\ stopped' = made.fault
            /\ vmm' = vmm /\ AllocRecord' = AllocRecord /\ kernel_stack' = kernel_stack
        BY <1>2, <2>5, Zenon
      <3>2. stopped' \in BOOLEAN
        BY <2>2, <3>1, Zenon
      <3>3. /\ Some(made.m, vmm, kernel_stack) /\ Reaching(made.m, vmm, K)
            /\ made.m.table[vmm[K].Pml4][1] = memory.table[vmm[K].Pml4][1]
        BY <2>3, <2>4
      <3> QED
        BY <1>3, <1>9, <3>1, <3>2, <3>3
    <2>6. CASE ~made.fault
      <3>1. PICK code, stk :
              /\ code = Vmm_Malloc(made.m, AllocRecord, made.desc, 1)
              /\ stk = Vmm_Malloc(code.m, code.rec, code.d, StackPages)
              /\ LET unfit == code.at # NULL /\ ~Mapped(code.m, code.d, code.at, 1)
                 IN  /\ stopped' = unfit
                     /\ IF unfit \/ code.at = NULL
                        THEN /\ memory' = code.m /\ AllocRecord' = code.rec
                             /\ UNCHANGED <<vmm, kernel_stack>>
                        ELSE /\ AllocRecord' = stk.rec
                             /\ IF stk.at = NULL \/ stk.m.free = {}
                                THEN memory' = stk.m /\ UNCHANGED <<vmm, kernel_stack>>
                                ELSE /\ memory' = Take(stk.m)
                                     /\ vmm' = With(vmm, made.v, stk.d)
                                     /\ kernel_stack' = With(kernel_stack, made.v, Pmm_Malloc(stk.m))
        BY <1>2, <2>1, <2>2, <2>6, ZenonT(60)
      <3>2. code = Vmm_Malloc(made.m, AllocRecord, d, 1)
        BY <2>1, <3>1
      <3>3. PICK cm, cr, cd : cm = code.m /\ cr = code.rec /\ cd = code.d
        OBVIOUS
      <3>4. /\ \E k3, u3 : New(memory, kind, up, "user", v, p, cm, k3, u3)
            /\ cm.table[p][1] = made.m.table[p][1]
        <4>1. 1 \in Nat
          OBVIOUS
        <4>2. \E k3, u3 : /\ New(memory, kind, up, "user", v, p, Vmm_Malloc(made.m, AllocRecord, d, 1).m, k3, u3)
                          /\ Vmm_Malloc(made.m, AllocRecord, d, 1).m.table[p][1] = made.m.table[p][1]
          BY <1>5, <2>2, <2>4, <4>1, NewMalloc
        <4> QED
          BY <3>2, <3>3, <4>2
      <3>5. /\ cd \in Manager /\ cd.half = "user" /\ cd.Pml4 = p /\ cd.AllocRecordNum \in 0..1
            /\ cr \in [RECORDS -> Record]
        <4>1. d.AllocRecordNum \in 0..0
          BY <2>2
        <4>2. 1 \in Nat /\ 0 \in {0, 1} /\ 0 + 1 = 1
          OBVIOUS
        <4>3. /\ code.d \in Manager /\ code.d.half = "user" /\ code.d.Pml4 = p
              /\ code.d.AllocRecordNum \in 0..(0 + 1) /\ code.rec \in [RECORDS -> Record]
          BY <1>3, <1>5, <2>2, <2>4, <3>2, <4>1, <4>2, NewRecord
        <4> QED
          BY <3>3, <4>2, <4>3
      <3>6. PICK k3, u3 : New(memory, kind, up, "user", v, p, cm, k3, u3)
        BY <3>4
      <3>7. PICK sm, sr, sd : sm = stk.m /\ sr = stk.rec /\ sd = stk.d
        OBVIOUS
      <3>8. stk = Vmm_Malloc(cm, cr, cd, StackPages)
        BY <3>1, <3>3
      <3>9. /\ \E k4, u4 : New(memory, kind, up, "user", v, p, sm, k4, u4)
            /\ sm.table[p][1] = cm.table[p][1]
        <4>1. StackPages \in Nat
          BY VmmAssumption
        <4>2. \E k4, u4 : /\ New(memory, kind, up, "user", v, p, Vmm_Malloc(cm, cr, cd, StackPages).m, k4, u4)
                          /\ Vmm_Malloc(cm, cr, cd, StackPages).m.table[p][1] = cm.table[p][1]
          BY <1>5, <3>5, <3>6, <4>1, NewMalloc
        <4> QED
          BY <3>7, <3>8, <4>2
      <3>10. /\ sd \in Manager /\ sd.half = "user" /\ sd.Pml4 = p /\ sd.AllocRecordNum \in RECORDS
             /\ sr \in [RECORDS -> Record]
        <4>1. StackPages \in Nat /\ 1 \in {0, 1}
          BY VmmAssumption
        <4>2. /\ stk.d \in Manager /\ stk.d.half = "user" /\ stk.d.Pml4 = p
              /\ stk.d.AllocRecordNum \in RECORDS /\ stk.rec \in [RECORDS -> Record]
          BY <1>5, <3>5, <3>6, <3>8, <4>1, NewRecord
        <4> QED
          BY <3>7, <4>2
      <3>11. PICK k4, u4 : New(memory, kind, up, "user", v, p, sm, k4, u4)
        BY <3>9
      <3>12. stopped' \in BOOLEAN
        BY <3>1, Zenon
      <3>13. \/ memory' = cm /\ AllocRecord' = cr /\ vmm' = vmm /\ kernel_stack' = kernel_stack
             \/ memory' = sm /\ AllocRecord' = sr /\ vmm' = vmm /\ kernel_stack' = kernel_stack
             \/ /\ sm.free # {} /\ memory' = Take(sm) /\ AllocRecord' = sr
                /\ vmm' = With(vmm, v, sd) /\ kernel_stack' = With(kernel_stack, v, Pmm_Malloc(sm))
        BY <2>1, <3>1, <3>3, <3>7, Zenon
      <3>14. CASE memory' = cm /\ AllocRecord' = cr /\ vmm' = vmm /\ kernel_stack' = kernel_stack
        <4>1. /\ Some(cm, vmm, kernel_stack) /\ Reaching(cm, vmm, K)
              /\ cm.table[vmm[K].Pml4][1] = memory.table[vmm[K].Pml4][1]
          BY <2>3, <3>6
        <4> QED
          BY <1>9, <3>5, <3>12, <3>14, <4>1
      <3>15. CASE memory' = sm /\ AllocRecord' = sr /\ vmm' = vmm /\ kernel_stack' = kernel_stack
        <4>1. /\ Some(sm, vmm, kernel_stack) /\ Reaching(sm, vmm, K)
              /\ sm.table[vmm[K].Pml4][1] = memory.table[vmm[K].Pml4][1]
          BY <2>3, <3>11
        <4> QED
          BY <1>9, <3>10, <3>12, <3>15, <4>1
      <3>16. CASE /\ sm.free # {} /\ memory' = Take(sm) /\ AllocRecord' = sr
                  /\ vmm' = With(vmm, v, sd) /\ kernel_stack' = With(kernel_stack, v, Pmm_Malloc(sm))
        <4>1. PICK f, n : f = Pmm_Malloc(sm) /\ n = Take(sm)
          OBVIOUS
        <4>2. PICK k5 : /\ New(memory, kind, up, "user", v, p, n, k5, u4)
                        /\ n.table[p] = sm.table[p] /\ f \in Frame /\ k5[f] = "stack"
          BY <1>5, <3>11, <3>16, <4>1, NewStack
        <4>3. /\ Sound(n, vmm, kernel_stack, k5, u4) /\ Reaching(n, vmm, K) /\ v \notin DOMAIN vmm
              /\ n.table[vmm[K].Pml4][1] = memory.table[vmm[K].Pml4][1]
          BY <2>3, <4>2
        <4>4. n.table[p][1] = n.table[vmm[K].Pml4][1]
          BY <1>7, <2>2, <3>4, <3>9, <4>2, <4>3
        <4>5. PICK S : S = With(kernel_stack, v, f)
          OBVIOUS
        <4>6. /\ DOMAIN S = DOMAIN kernel_stack \cup {v} /\ S[v] = f
              /\ \A w \in DOMAIN kernel_stack : w # v => S[w] = kernel_stack[w]
          BY <4>5 DEF With
        <4>7. \A x \in DOMAIN S : S[x] # NULL =>
                \/ x \in DOMAIN kernel_stack /\ S[x] = kernel_stack[x]
                \/ S[x] \in Frame /\ k5[S[x]] = "stack"
          BY <4>2, <4>6
        <4>8. /\ k5[v] = "block" /\ k5[p] = Pml4Kind("user") /\ u4[p] = <<v, 0>> /\ Low(n, p)
          BY <4>2 DEF New
        <4>9. Sound(n, With(vmm, v, sd), S, k5, u4) /\ Reaching(n, With(vmm, v, sd), K)
          <5>1. PICK F, T, e, w : F = vmm /\ T = kernel_stack /\ e = sd /\ w = K
            OBVIOUS
          <5>2. /\ Sound(n, F, T, k5, u4) /\ Reaching(n, F, w) /\ v \notin DOMAIN F /\ w \in DOMAIN F
                /\ n.table[p][1] = n.table[F[w].Pml4][1]
            BY <1>3, <4>3, <4>4, <5>1
          <5>3. e \in Manager /\ e.half = "user" /\ e.Pml4 = p /\ v \in Frame /\ "user" \in Half
            BY <1>5, <2>2, <3>10, <5>1
          <5>4. \A x \in DOMAIN S : S[x] # NULL =>
                  (x \in DOMAIN T /\ S[x] = T[x]) \/ (S[x] \in Frame /\ k5[S[x]] = "stack")
            BY <4>7, <5>1
          <5>5. Sound(n, With(F, v, e), S, k5, u4) /\ Reaching(n, With(F, v, e), w)
            <6>1. Joins(F, T, S, w, "user", n, k5, p)
              BY <5>2, <5>4 DEF Joins
            <6> QED
              BY <4>8, <5>2, <5>3, <6>1, AddManager
          <5> QED
            BY <5>1, <5>5
        <4>10. /\ DOMAIN vmm' = DOMAIN vmm \cup {v} /\ vmm'[v] = sd
               /\ \A w \in DOMAIN vmm : vmm'[w] = vmm[w]
          BY <3>16, <4>3 DEF With
        <4>11. memory' = n /\ kernel_stack' = S
          BY <3>16, <4>1, <4>5
        <4>12. Reaching(memory', vmm', KernelVMM') /\ Some(memory', vmm', kernel_stack')
          BY <1>1, <3>16, <4>9, <4>11 DEF Some
        <4>13. Kernel(memory', vmm', kernel_stack', KernelVMM', held')
          BY <1>1, <1>3, <4>3, <4>6, <4>10, <4>11 DEF Kernel
        <4>14. Counted(vmm', KernelVMM', held')
          BY <1>1, <1>3, <3>10, <4>3, <4>10 DEF Counted
        <4>15. Linked(memory', vmm', KernelVMM')
          BY <1>1, <1>3, <4>3, <4>10, <4>11 DEF Linked
        <4>16. BufferKept' /\ AllocRecord' \in [RECORDS -> Record]
          BY <1>1, <3>10, <3>16 DEF BufferKept
        <4>17. spoiled' \in BOOLEAN
          BY <1>1 DEF IInv
        <4> QED
          BY <3>12, <4>12, <4>13, <4>14, <4>15, <4>16, <4>17 DEF IInv
      <3> QED
        BY <3>13, <3>14, <3>15, <3>16
    <2> QED
      BY <2>2, <2>5, <2>6
  <1> QED
    BY SMTT(30), <1>8, <1>10, <1>11

\* KillThread unmaps pages of the thread's own heap only; it may free more than that.
LEMMA KillThreadStep == IInv /\ KillThread => IInv'
  <1> SUFFICES ASSUME IInv, KillThread PROVE IInv'
    OBVIOUS
  <1> DEFINE K == KernelVMM
  <1>1. PICK v, r, last :
          /\ v \in DOMAIN kernel_stack
          /\ r = FreeRecords(memory, AllocRecord, vmm[v])
          /\ last = IF vmm[v].half = "user"
                    THEN Pmm_Free(r.m, StackFreed(v))
                    ELSE Vmm_Free(r.m, r.d, "kernel", 1, 1).m
          /\ memory' = last
          /\ vmm' = Without(vmm, v)
          /\ kernel_stack' = Without(kernel_stack, v)
          /\ spoiled' = (InUse(last, vmm', kernel_stack') \cap last.free # {})
    BY Zenon DEF KillThread
  <1>2. /\ ~stopped /\ ~spoiled /\ K' = K /\ AllocRecord' = AllocRecord /\ held' = held /\ stopped' = stopped
    BY DEF KillThread, Running
  <1>3. /\ v \in DOMAIN vmm /\ v # K /\ K \in DOMAIN vmm /\ K # NULL /\ vmm[K].half = "kernel"
        /\ Reaching(memory, vmm, K) /\ Link(memory.table[vmm[K].Pml4][1])
        /\ AllocRecord \in [RECORDS -> Record] /\ DOMAIN kernel_stack = DOMAIN vmm \ {K} /\ Counted(vmm, K, held)
        /\ \A w \in DOMAIN vmm : vmm[w] \in Manager
    BY <1>1, <1>2 DEF IInv, Kernel, Linked, Reaching
  <1>4. PICK kind, up : Sound(memory, vmm, kernel_stack, kind, up)
    BY <1>2 DEF IInv, Some
  <1>5. PICK d : d = vmm[v]
    OBVIOUS
  <1>6. /\ Tree(memory, kind, up) /\ Frees(memory, kind) /\ Owns(vmm, kernel_stack, kind, up)
        /\ d \in Manager /\ kind[d.Pml4] = Pml4Kind(d.half)
    BY <1>3, <1>4, <1>5 DEF Sound, Owns
  <1>7. PICK rm, rd, k2 :
          /\ rm = r.m /\ rd = r.d /\ rd \in Manager /\ rd.half = d.half /\ rd.Pml4 = d.Pml4
          /\ Tree(rm, k2, up) /\ Frees(rm, k2) /\ Shrinks(d.Pml4, memory, kind, up, rm, k2)
    <2>1. /\ r.d \in Manager /\ r.d.half = d.half /\ r.d.Pml4 = d.Pml4
          /\ \E k2 : Tree(r.m, k2, up) /\ Frees(r.m, k2) /\ Shrinks(d.Pml4, memory, kind, up, r.m, k2)
      BY <1>1, <1>3, <1>5, <1>6, FreeRecordsShrinks
    <2> QED
      BY <2>1
  \* The memory afterwards, but for what is free in it.
  <1>8. PICK n, k3 : /\ Tree(n, k3, up) /\ Frees(n, k3) /\ Shrinks(d.Pml4, memory, kind, up, n, k3)
                     /\ last.table = n.table /\ last \in Memory
    <2>1. CASE d.half = "user"
      <3>1. last = Pmm_Free(rm, StackFreed(v))
        BY <1>1, <1>5, <1>7, <2>1
      <3>2. rm \in Memory /\ StackFreed(v) \subseteq Frame
        BY <1>7 DEF Tree, StackFreed
      <3>3. last.table = rm.table /\ last \in Memory
        BY <3>1, <3>2 DEF Pmm_Free, Memory
      <3> QED
        BY <1>7, <3>3
    <2>2. CASE d.half # "user"
      <3> DEFINE s == Vmm_Free(rm, rd, "kernel", 1, 1)
      <3>1. last = s.m
        BY <1>1, <1>5, <1>7, <2>2
      <3>2. rd.half \in Half /\ rd.Pml4 \in Frame
        BY <1>7, ManagerFacts
      <3>3. k2[rd.Pml4] = Pml4Kind(rd.half)
        <4>1. k2[d.Pml4] = kind[d.Pml4]
          BY <1>6, <1>7, <3>2 DEF Shrinks, Pml4Kind
        <4> QED
          BY <1>6, <1>7, <4>1
      <3>4. 1 \in Nat
        OBVIOUS
      <3>5. \E k3 : Tree(s.m, k3, up) /\ Frees(s.m, k3) /\ Shrinks(rd.Pml4, rm, k2, up, s.m, k3)
        BY <1>7, <3>2, <3>3, <3>4, FreeShrinks
      <3> HIDE DEF s
      <3>6. PICK k3 : Tree(last, k3, up) /\ Frees(last, k3) /\ Shrinks(d.Pml4, rm, k2, up, last, k3)
        BY <1>7, <3>1, <3>5
      <3>7. Shrinks(d.Pml4, memory, kind, up, last, k3)
        BY <1>7, <3>6, ShrinksFurther
      <3>8. last \in Memory
        BY <3>6 DEF Tree
      <3> QED
        BY <3>6, <3>7, <3>8
    <2> QED
      BY <2>1, <2>2
  <1>9. /\ Sound(n, vmm, kernel_stack, k3, up) /\ Reaching(n, vmm, K)
        /\ n.table[vmm[K].Pml4][1] = memory.table[vmm[K].Pml4][1]
    <2>1. /\ Sound(n, vmm, kernel_stack, k3, up) /\ Reaching(n, vmm, K)
          /\ \A w \in DOMAIN vmm : n.table[vmm[w].Pml4][1] = memory.table[vmm[w].Pml4][1]
      BY <1>3, <1>4, <1>8, ShrinksSound
    <2> QED
      BY <1>3, <2>1
  <1>10. /\ DOMAIN vmm' = DOMAIN vmm \ {v} /\ \A w \in DOMAIN vmm : w # v => vmm'[w] = vmm[w]
         /\ DOMAIN kernel_stack' = DOMAIN kernel_stack \ {v}
         /\ \A w \in DOMAIN kernel_stack : w # v => kernel_stack'[w] = kernel_stack[w]
    BY <1>1 DEF Without
  <1>11. PICK D, S : D = vmm' /\ S = kernel_stack'
    OBVIOUS
  <1>12. /\ DOMAIN D = DOMAIN vmm \ {v} /\ \A w \in DOMAIN D : D[w] = vmm[w]
         /\ DOMAIN S = DOMAIN kernel_stack \ {v} /\ \A w \in DOMAIN S : S[w] = kernel_stack[w]
    BY <1>10, <1>11
  <1>13. Reaching(last, D, K)
    <2>1. Uefi(last) /\ \A w \in DOMAIN vmm : Low(last, vmm[w].Pml4)
      BY <1>8, <1>9 DEF Reaching, Uefi, Low
    <2> QED
      BY <1>3, <1>8, <1>9, <1>12, <2>1 DEF Reaching
  <1>14. Tree(last, k3, up) /\ Owns(D, S, k3, up)
    <2>1. Tree(last, k3, up)
      BY <1>8 DEF Tree
    <2>2. Owns(vmm, kernel_stack, k3, up)
      BY <1>9 DEF Sound
    <2>3. Owns(D, S, k3, up)
      BY <1>12, <2>2 DEF Owns
    <2> QED
      BY <2>1, <2>3
  <1>15. ~spoiled' => Some(last, D, S)
    <2>1. SUFFICES ASSUME ~spoiled' PROVE Some(last, D, S)
      OBVIOUS
    <2>2. InUse(last, D, S) \cap last.free = {}
      BY <1>1, <1>11, <2>1, Zenon
    <2>3. K \in DOMAIN D /\ D[K].half = "kernel"
      BY <1>3, <1>12
    <2>4. \E k4 : Sound(last, D, S, k4, up)
      BY <1>13, <1>14, <2>2, <2>3, Recolour
    <2> QED
      BY <2>4 DEF Some
  <1>16. Kernel(memory', vmm', kernel_stack', KernelVMM', held')
    BY <1>2, <1>3, <1>10 DEF IInv, Kernel
  <1>17. Counted(vmm', KernelVMM', held')
    BY <1>2, <1>3, <1>10 DEF Counted
  <1>18. Linked(memory', vmm', KernelVMM')
    BY <1>1, <1>2, <1>3, <1>8, <1>9, <1>10 DEF Linked
  <1>19. BufferKept'
    <2>1. SUFFICES ASSUME held # <<>> PROVE Mapped(last, D[K], held[1], held[2])
      BY <1>1, <1>2, <1>11 DEF BufferKept
    <2>2. PICK p, half, a, c : p = vmm[K].Pml4 /\ half = vmm[K].half /\ a = held[1] /\ c = held[2]
      OBVIOUS
    <2>3. Mapped(memory, vmm[K], held[1], held[2]) /\ a \in Nat /\ c \in Nat /\ half \in Half /\ D[K] = vmm[K]
      BY <1>2, <1>3, <1>12, <2>1, <2>2, ManagerFacts DEF IInv, BufferKept, Running, Kernel
    <2>4. \A k \in a..(a + c - 1) : virt_to_phys_on(memory, p, half, k) # NULL
      BY <2>2, <2>3 DEF Mapped
    <2>5. Shrinks(d.Pml4, memory, kind, up, last, k3)
      BY <1>8 DEF Shrinks
    <2>6. ASSUME NEW k \in a..(a + c - 1) PROVE virt_to_phys_on(last, p, half, k) # NULL
      <3>1. k \in 0..(HEAP - 1)
        <4>1. ~(k >= HEAP)
          BY <2>4, <2>6 DEF virt_to_phys_on
        <4> QED
          BY <2>3, <4>1, Sizes
      <3>2. At(memory, p, half, k) # NULL
        BY <2>3, <2>4, <2>6, <3>1, VirtIsAt
      <3>3. At(last, p, half, k) = At(memory, p, half, k)
        <4>1. PICK m, F, T, w : m = memory /\ F = vmm /\ T = kernel_stack /\ w = K
          OBVIOUS
        <4>2. v \in DOMAIN F /\ w \in DOMAIN F /\ v # w /\ Reaching(m, F, w)
              /\ Tree(m, kind, up) /\ Owns(F, T, kind, up)
          BY <1>3, <1>6, <4>1
        <4>3. Shrinks(F[v].Pml4, m, kind, up, last, k3) /\ At(m, F[w].Pml4, F[w].half, k) # NULL
          BY <1>5, <2>2, <2>5, <3>2, <4>1
        <4>4. KeepsOthers(m, F, v, last)
          BY <4>2, <4>3, ShrinksKeeps
        <4>5. At(last, F[w].Pml4, F[w].half, k) = At(m, F[w].Pml4, F[w].half, k)
          BY <3>1, <4>2, <4>3, <4>4 DEF KeepsOthers
        <4> QED
          BY <2>2, <4>1, <4>5
      <3> QED
        BY <2>3, <3>1, <3>2, <3>3, VirtIsAt
    <2> QED
      BY <2>2, <2>3, <2>6 DEF Mapped
  <1>20. AllocRecord' \in [RECORDS -> Record]
    BY <1>2, <1>3
  <1>21. stopped' \in BOOLEAN /\ spoiled' \in BOOLEAN
    <2>1. stopped' \in BOOLEAN
      BY <1>2 DEF IInv
    <2>2. spoiled' \in BOOLEAN
      BY <1>1, ZenonT(60)
    <2> QED
      BY <2>1, <2>2
  <1>22. Reaching(memory', vmm', KernelVMM') /\ (~spoiled' => Some(memory', vmm', kernel_stack'))
    BY <1>1, <1>2, <1>11, <1>13, <1>15
  <1> QED
    BY <1>16, <1>17, <1>18, <1>19, <1>20, <1>21, <1>22 DEF IInv

LEMMA IInvStep == IInv /\ [Next]_vars => IInv'
  <1> SUFFICES ASSUME IInv, [Next]_vars PROVE IInv'
    OBVIOUS
  <1>1. CASE UNCHANGED vars
    <2>1. /\ memory' = memory /\ vmm' = vmm /\ KernelVMM' = KernelVMM /\ AllocRecord' = AllocRecord
          /\ kernel_stack' = kernel_stack /\ held' = held /\ stopped' = stopped /\ spoiled' = spoiled
      BY <1>1 DEF vars
    <2> QED
      BY <2>1 DEF IInv, BufferKept, Running
  <1>2. CASE Halted
    BY <1>1, <1>2 DEF Halted
  <1> QED
    BY <1>1, <1>2, InitSystemStep, AllocBufferStep, FreeBufferStep, VmmThreadStep, CreateUserThreadStep,
       KillThreadStep DEF Next

\* The inductive invariant of InitSystem, the shell's acvmm, uvmth and CreateUserThread, and
\* KillThread: until a page in use is freed, the tables of the live managers form trees that
\* have no page in common but the kernel half, and every address space reaches the kernel.
THEOREM VmmInvariant == Spec => []IInv
  <1>1. Init => IInv
    BY IInvInit
  <1>2. IInv /\ [Next]_vars => IInv'
    BY IInvStep
  <1> QED
    BY <1>1, <1>2, PTL DEF Spec

\* Every variable keeps its type, and no manager outgrows the entries of AllocRecord that
\* Vmm_Malloc fills, in every state.
THEOREM VmmTypes == Spec => []TypeOK
  <1>1. IInv => TypeOK
    <2> SUFFICES ASSUME IInv PROVE TypeOK
      OBVIOUS
    <2>1. memory \in Memory /\ stopped \in BOOLEAN /\ spoiled \in BOOLEAN
      BY DEF IInv, Reaching
    <2>2. memory.free \subseteq Frame /\ memory.table \in [1..(FRAMES + 3) -> [Index -> Entry]]
      BY <2>1 DEF Memory, Table
    <2>3. KernelVMM \in Frame \cup {NULL} /\ DOMAIN vmm \subseteq Frame
      BY InvFacts DEF IInv, Kernel
    <2>4. \A v \in DOMAIN vmm : /\ vmm[v].half \in Half /\ vmm[v].Pml4 \in Frame
                                /\ vmm[v].Address \in 1..HEAP /\ vmm[v].AllocRecordNum \in RECORDS
      BY InvFacts, ManagerFacts DEF IInv, Counted
    <2>5. DOMAIN kernel_stack = DOMAIN vmm \ {KernelVMM}
      BY DEF IInv, Kernel
    <2> QED
      BY <2>1, <2>2, <2>3, <2>4, <2>5 DEF TypeOK
  <1> QED
    BY <1>1, VmmInvariant, PTL

\* Until KillThread frees a page in use, every page has one use: Init_Virtual_Memory_Manager,
\* map_page and Vmm_Malloc never give out a page that a table, a heap or a stack still refers to,
\* also after the error exits that leave half a manager behind.
THEOREM VmmOneUse == Spec => []OneUse
  <1>1. IInv => OneUse
    <2> SUFFICES ASSUME IInv, ~spoiled PROVE OneUse
      BY Zenon DEF OneUse
    <2>1. PICK kind, up : Sound(memory, vmm, kernel_stack, kind, up)
      BY DEF IInv, Some
    <2>2. Reaching(memory, vmm, KernelVMM)
      BY DEF IInv
    <2> QED
      BY <2>1, <2>2, InvFacts, SoundOneUse
  <1> QED
    BY <1>1, VmmInvariant, PTL

\* The kernel half of every user address space that copy_kernel_pml4_entries made stays the
\* kernel's own, and replace_identity_pdpt's writable huge pages keep RAM mapped to itself, even
\* after a page in use was freed.
THEOREM VmmKernelReachable == Spec => []KernelReachable
  <1>1. IInv => KernelReachable
    <2> SUFFICES ASSUME IInv PROVE KernelReachable
      OBVIOUS
    <2>1. Reaching(memory, vmm, KernelVMM)
      BY DEF IInv
    <2> QED
      BY <2>1, InvFacts, ReachingKernel
  <1> QED
    BY <1>1, VmmInvariant, PTL

\* The shell's buffer stays mapped until the shell frees it: KillThread's walk through the shared
\* AllocRecord array unmaps pages of the dying thread only.
THEOREM VmmBufferKept == Spec => []BufferKept
  <1>1. IInv => BufferKept
    BY DEF IInv
  <1> QED
    BY <1>1, VmmInvariant, PTL
=============================================================================
