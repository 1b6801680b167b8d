----------------------------- MODULE PmmProofs -----------------------------
(***************************************************************************)
(* For every memory map, every byte size and every place of the bitmaps:   *)
(* the page allocator manages the memory the map calls available; as long  *)
(* as callers ask for single pages it never hands out a page that somebody *)
(* still has, and keeps every handed-out page marked, however the burials  *)
(* of dead threads interleave with the search and with the two halves of a *)
(* bit update; and NULL means that there is no room.  For every firmware   *)
(* and every failure of its calls: the loader hands over what              *)
(* HandoverIsSound says, and its memory is never handed out.               *)
(***************************************************************************)
EXTENDS PmmSystem, WellFoundedInduction, TLAPS

\* The first match of a loop over an array exists when there is a match.
LEMMA Smallest ==
    ASSUME NEW S \in SUBSET Nat, S # {}
    PROVE  \E x \in S : \A y \in S : x <= y
  <1>1. PICK x \in S : \A y \in S : <<y, x>> \notin OpToRel(<, Nat)
    BY NatLessThanWellFounded, WFMin, Zenon
  <1>2. ASSUME NEW y \in S PROVE x <= y
    <2>1. <<y, x>> \in Nat \X Nat
      OBVIOUS
    <2>2. ~(y < x)
      BY <1>1, <2>1 DEF OpToRel
    <2> QED
      BY <2>2
  <1> QED
    BY <1>2

\* The loop of Pmm_Malloc only looks at descriptors of available memory.
LEMMA NextAvailableValid ==
    ASSUME NEW r \in Nat, MemDesc \in Seq(Descriptor), NextAvailable(r) # 0
    PROVE  NextAvailable(r) \in 1..Len(MemDesc) /\ MemDesc[NextAvailable(r)].avail
  <1> DEFINE later == {k \in 1..Len(MemDesc) : k >= r /\ MemDesc[k].avail}
  <1>1. later # {}
    BY DEF NextAvailable
  <1>2. NextAvailable(r) = CHOOSE k \in later : \A l \in later : k <= l
    BY <1>1 DEF NextAvailable
  <1>3. later \in SUBSET Nat
    OBVIOUS
  <1>4. NextAvailable(r) \in later
    <2> HIDE DEF later
    <2>1. \E k \in later : \A l \in later : k <= l
      BY <1>1, <1>3, Smallest
    <2> QED
      BY <1>2, <2>1
  <1> QED
    BY <1>4

\* A bit inside the bitmap of available memory stands for a managed page.
LEMMA BitIsManaged ==
    ASSUME MemDesc \in Seq(Descriptor), NEW r \in 1..Len(MemDesc), MemDesc[r].avail,
           NEW d \in Nat, d < BitSize(r)
    PROVE  PageOf(r, d) \in Managed
  <1>1. MemDesc[r] \in Descriptor
    OBVIOUS
  <1>2. PageOf(r, d) \in Pages(r)
    BY <1>1 DEF PageOf, Pages, BitSize, Descriptor
  <1> QED
    BY <1>2 DEF Managed

-----------------------------------------------------------------------------
\* Pages of the first n entries of a memory map, or of a sequence of descriptors, that are
\* available and do not begin at address 0.
MemOf(s, n) ==
    {p \in Nat : \E j \in 1..n : s[j].avail /\ s[j].start # 0 /\ p >= s[j].start /\ p < s[j].start + s[j].pages}

\* Descriptors that stand for the first n entries of m.
Describes(descs, m, n) ==
    /\ descs \in Seq(Descriptor)
    /\ \A j \in 1..Len(descs) : descs[j].start # 0
    /\ MemOf(descs, Len(descs)) = MemOf(m, n)

\* One round of Init_Physical_Memory_Manager, which skips an entry, extends the last
\* descriptor or adds one, takes the entry's memory over.
LEMMA AddEntryDescribes ==
    ASSUME NEW m \in Seq(Descriptor), NEW n \in 1..Len(m), NEW descs, Describes(descs, m, n - 1)
    PROVE  Describes(AddEntry(descs, m[n]), m, n)
  <1>1. m[n] \in Descriptor /\ n - 1 \in Nat /\ descs \in Seq(Descriptor) /\ Len(descs) \in Nat
    BY DEF Describes
  <1> DEFINE e == m[n]
             here == {p \in Nat : e.avail /\ e.start # 0 /\ p >= e.start /\ p < e.start + e.pages}
             new == AddEntry(descs, e)
  <1>2. MemOf(m, n) = MemOf(m, n - 1) \cup here
    <2>1. 1..n = 1..(n - 1) \cup {n}
      OBVIOUS
    <2> QED
      BY <2>1, Zenon DEF MemOf
  <1>3. CASE e.start = 0
    <2>1. here = {} /\ new = descs
      BY <1>3 DEF AddEntry
    <2> QED
      BY <1>2, <2>1 DEF Describes
  <1>4. CASE e.start # 0 /\ descs # <<>> /\ Extends(Last(descs), e)
    <2> DEFINE l == Len(descs)
    <2>1. l \in 1..Len(descs) /\ l - 1 \in Nat /\ descs[l] \in Descriptor /\ descs[l].start # 0
      BY <1>1, <1>4 DEF Describes
    <2>2. e.avail = descs[l].avail /\ e.start = descs[l].start + descs[l].pages
      BY <1>4 DEF Extends, Last
    <2>3. new = [descs EXCEPT ![l] = [descs[l] EXCEPT !.pages = @ + e.pages]]
      BY <1>4, <2>1 DEF AddEntry, Descriptor
    <2>4. [descs[l] EXCEPT !.pages = @ + e.pages] \in Descriptor
      <3>1. ASSUME NEW d \in Descriptor, NEW q \in Nat \ {0} PROVE [d EXCEPT !.pages = q] \in Descriptor
        BY DEF Descriptor
      <3>2. descs[l].pages + e.pages \in Nat \ {0}
        <4>1. descs[l].pages \in Nat \ {0} /\ e.pages \in Nat \ {0}
          BY <1>1, <2>1 DEF Descriptor
        <4>2. ASSUME NEW a \in Nat \ {0}, NEW b \in Nat \ {0} PROVE a + b \in Nat \ {0}
          OBVIOUS
        <4> HIDE DEF l, e
        <4> QED
          BY <4>1, <4>2, Zenon
      <3> HIDE DEF l, e
      <3> QED
        BY <2>1, <3>1, <3>2, Zenon
    <2>5. /\ new \in Seq(Descriptor) /\ Len(new) = l
          /\ new[l] = [descs[l] EXCEPT !.pages = @ + e.pages]
          /\ \A j \in 1..(l - 1) : new[j] = descs[j]
      BY <1>1, <2>1, <2>3, <2>4
    <2>6. new[l].start = descs[l].start /\ new[l].avail = descs[l].avail
            /\ new[l].pages = descs[l].pages + e.pages
      BY <2>1, <2>5 DEF Descriptor
    <2>7. 1..l = 1..(l - 1) \cup {l}
      BY <2>1
    <2>8. ASSUME NEW p \in Nat
          PROVE  p \in MemOf(new, l) <=> p \in MemOf(descs, l) \cup here
      <3> DEFINE In(s, j) == s[j].avail /\ s[j].start # 0 /\ p >= s[j].start /\ p < s[j].start + s[j].pages
      <3>1. \A s : p \in MemOf(s, l) <=> In(s, l) \/ \E j \in 1..(l - 1) : In(s, j)
        BY <2>7, Zenon DEF MemOf
      <3>2. In(new, l) <=> In(descs, l) \/ p \in here
        <4>1. /\ e.start \in Nat /\ e.pages \in Nat \ {0} /\ e.avail \in BOOLEAN
              /\ descs[l].start \in Nat /\ descs[l].pages \in Nat \ {0} /\ descs[l].avail \in BOOLEAN
          BY <1>1, <2>1 DEF Descriptor
        <4>2. descs[l].start # 0 /\ e.start # 0
          BY <1>4, <2>1
        <4>3. new[l].start = descs[l].start /\ new[l].avail = descs[l].avail
                /\ new[l].pages = descs[l].pages + e.pages
          BY <2>6
        <4>4. p \in here <=> e.avail /\ e.start # 0 /\ p >= e.start /\ p < e.start + e.pages
          OBVIOUS
        <4>5. (new[l].avail <=> descs[l].avail) /\ (e.avail <=> descs[l].avail)
          BY <2>2, <4>3, Zenon
        <4>6. p >= new[l].start /\ p < new[l].start + new[l].pages
                <=> \/ p >= descs[l].start /\ p < descs[l].start + descs[l].pages
                    \/ p >= e.start /\ p < e.start + e.pages
          <5> HIDE DEF new, here, e, l
          <5>1. PICK a, c, q : a = descs[l].start /\ c = descs[l].pages /\ q = e.pages
            OBVIOUS
          <5>2. /\ a \in Nat /\ c \in Nat \ {0} /\ q \in Nat \ {0} /\ e.start = a + c
                /\ new[l].start = a /\ new[l].pages = c + q
            BY <2>2, <4>1, <4>3, <5>1
          <5>3. p >= a /\ p < a + (c + q) <=> (p >= a /\ p < a + c) \/ (p >= a + c /\ p < a + c + q)
            BY <5>2
          <5> QED
            BY <5>1, <5>2, <5>3
        <4>7. new[l].start # 0
          BY <4>2, <4>3, Zenon
        <4> HIDE DEF new, here, e, l
        <4> QED
          BY <4>2, <4>4, <4>5, <4>6, <4>7, Zenon
      <3>3. \A j \in 1..(l - 1) : In(new, j) <=> In(descs, j)
        BY <2>5
      <3> HIDE DEF In
      <3> QED
        BY <3>1, <3>2, <3>3
    <2>9. MemOf(new, l) = MemOf(descs, l) \cup here
      BY <2>8 DEF MemOf
    <2>10. \A j \in 1..Len(new) : new[j].start # 0
      BY <2>1, <2>5, <2>6, <2>7 DEF Describes
    <2> QED
      BY <1>2, <2>5, <2>9, <2>10 DEF Describes
  <1>5. CASE e.start # 0 /\ ~(descs # <<>> /\ Extends(Last(descs), e))
    <2>1. new = Append(descs, e)
      BY <1>5 DEF AddEntry
    <2> DEFINE l == Len(descs)
    <2>2. /\ new \in Seq(Descriptor) /\ Len(new) = l + 1 /\ new[l + 1] = e
          /\ \A j \in 1..l : new[j] = descs[j]
      BY <1>1, <2>1
    <2>3. 1..(l + 1) = 1..l \cup {l + 1}
      BY <1>1
    <2>4. MemOf(new, l + 1) = MemOf(descs, l) \cup here
      <3> DEFINE In(s, j, p) == s[j].avail /\ s[j].start # 0 /\ p >= s[j].start /\ p < s[j].start + s[j].pages
      <3>1. \A p \in Nat : p \in MemOf(new, l + 1) <=> In(new, l + 1, p) \/ \E j \in 1..l : In(new, j, p)
        BY <2>3, Zenon DEF MemOf
      <3>2. \A p \in Nat : In(new, l + 1, p) <=> p \in here
        BY <2>2
      <3>3. \A p \in Nat, j \in 1..l : In(new, j, p) <=> In(descs, j, p)
        BY <2>2
      <3>4. \A p \in Nat : p \in MemOf(descs, l) <=> \E j \in 1..l : In(descs, j, p)
        BY DEF MemOf
      <3>5. MemOf(new, l + 1) \subseteq Nat /\ MemOf(descs, l) \subseteq Nat /\ here \subseteq Nat
        BY DEF MemOf
      <3> HIDE DEF In, here
      <3> QED
        BY <3>1, <3>2, <3>3, <3>4, <3>5
    <2>5. \A j \in 1..Len(new) : new[j].start # 0
      BY <1>5, <2>2, <2>3 DEF Describes
    <2> QED
      BY <1>2, <2>2, <2>4, <2>5 DEF Describes
  <1> QED
    BY <1>3, <1>4, <1>5

\* A function of the rounds exists for every prefix of the map.
LEMMA RoundsExist ==
    ASSUME NEW m \in Seq(Descriptor)
    PROVE  Rounds(m) = [k \in 0..Len(m) |-> IF k = 0 THEN <<>> ELSE AddEntry(Rounds(m)[k - 1], m[k])]
  <1> DEFINE Is(g, n) == g = [k \in 0..n |-> IF k = 0 THEN <<>> ELSE AddEntry(g[k - 1], m[k])]
             bad == {n \in Nat : ~ \E g : Is(g, n)}
  <1>1. bad = {}
    <2>1. SUFFICES ASSUME bad # {} PROVE FALSE
      OBVIOUS
    <2>2. PICK n \in bad : \A k \in bad : n <= k
      <3>1. bad \in SUBSET Nat
        OBVIOUS
      <3> HIDE DEF bad
      <3> QED
        BY <2>1, <3>1, Smallest
    <2>3. CASE n = 0
      <3> DEFINE g == [k \in {0} |-> <<>>]
      <3>1. 0..0 = {0}
        OBVIOUS
      <3>2. Is(g, 0)
        BY <3>1
      <3> QED
        BY <2>2, <2>3, <3>2
    <2>4. CASE n # 0
      <3>1. n \in Nat /\ n - 1 \in Nat /\ n - 1 \notin bad
        <4>1. bad \in SUBSET Nat
          OBVIOUS
        <4> HIDE DEF bad
        <4>2. n \in Nat /\ n - 1 \in Nat /\ ~(n <= n - 1)
          BY <2>4, <4>1
        <4> QED
          BY <2>2, <4>2
      <3>2. PICK f : Is(f, n - 1)
        BY <3>1
      <3> DEFINE g == [k \in 0..n |-> IF k = n THEN AddEntry(f[n - 1], m[n]) ELSE f[k]]
      <3>3. g[n - 1] = f[n - 1] /\ n \in 0..n
        BY <3>1
      <3>4. ASSUME NEW k \in 0..n
            PROVE  g[k] = IF k = 0 THEN <<>> ELSE AddEntry(g[k - 1], m[k])
        <4>1. CASE k = n
          BY <2>4, <3>1, <3>3, <4>1
        <4>2. CASE k # n
          <5>1. k \in 0..(n - 1) /\ g[k] = f[k]
            BY <3>1, <4>2
          <5>2. k # 0 => g[k - 1] = f[k - 1]
            BY <3>1, <4>2
          <5>3. f[k] = IF k = 0 THEN <<>> ELSE AddEntry(f[k - 1], m[k])
            <6> DEFINE h == [j \in 0..(n - 1) |-> IF j = 0 THEN <<>> ELSE AddEntry(f[j - 1], m[j])]
            <6>1. h[k] = IF k = 0 THEN <<>> ELSE AddEntry(f[k - 1], m[k])
              BY <5>1
            <6>2. f = h
              BY <3>2
            <6> HIDE DEF h
            <6> QED
              BY <6>1, <6>2
          <5> QED
            BY <5>1, <5>2, <5>3, Zenon
        <4> QED
          BY <4>1, <4>2
      <3>5. Is(g, n)
        BY <3>4, Zenon
      <3> QED
        BY <2>2, <3>5
    <2> QED
      BY <2>3, <2>4
  <1>2. PICK g : Is(g, Len(m))
    BY <1>1
  <1> QED
    BY <1>2, Zenon DEF Rounds

\* The descriptors stand for the map.
LEMMA MapDescribed ==
    ASSUME NEW m \in Seq(Descriptor)
    PROVE  Describes(Init_Physical_Memory_Manager(m), m, Len(m))
  <1> DEFINE bad == {n \in 0..Len(m) : ~Describes(Rounds(m)[n], m, n)}
             rounds == [k \in 0..Len(m) |-> IF k = 0 THEN <<>> ELSE AddEntry(Rounds(m)[k - 1], m[k])]
  <1>1. Rounds(m) = rounds
    BY RoundsExist
  <1>2. bad = {}
    <2>1. SUFFICES ASSUME bad # {} PROVE FALSE
      OBVIOUS
    <2>2. PICK n \in bad : \A k \in bad : n <= k
      <3>1. bad \in SUBSET Nat
        OBVIOUS
      <3> HIDE DEF bad
      <3> QED
        BY <2>1, <3>1, Smallest
    <2>3. n \in 0..Len(m) /\ n \in Nat /\ Len(m) \in Nat /\ ~Describes(Rounds(m)[n], m, n)
      BY <2>2
    <2>4. rounds[n] = IF n = 0 THEN <<>> ELSE AddEntry(Rounds(m)[n - 1], m[n])
      BY <2>3
    <2>5. Rounds(m)[n] = IF n = 0 THEN <<>> ELSE AddEntry(Rounds(m)[n - 1], m[n])
      <3> HIDE DEF rounds
      <3> QED
        BY <1>1, <2>4
    <2>6. CASE n = 0
      <3>1. <<>> \in Seq(Descriptor) /\ Len(<<>>) = 0
        OBVIOUS
      <3>2. \A s : MemOf(s, 0) = {}
        BY DEF MemOf
      <3>3. Describes(<<>>, m, 0)
        <4>1. PICK none : none = <<>>
          OBVIOUS
        <4>2. none \in Seq(Descriptor) /\ Len(none) = 0 /\ 1..0 = {}
          BY <3>1, <4>1
        <4>3. Describes(none, m, 0)
          BY <3>2, <4>2 DEF Describes
        <4> QED
          BY <4>1, <4>3
      <3> QED
        BY <2>3, <2>5, <2>6, <3>3
    <2>7. CASE n # 0
      <3>1. n \in 1..Len(m) /\ n - 1 \in 0..Len(m) /\ n - 1 \notin bad
        BY <2>2, <2>3, <2>7
      <3>2. Describes(Rounds(m)[n - 1], m, n - 1)
        BY <3>1
      <3>3. Describes(AddEntry(Rounds(m)[n - 1], m[n]), m, n)
        BY <3>1, <3>2, AddEntryDescribes
      <3> QED
        BY <2>3, <2>5, <2>7, <3>3
    <2> QED
      BY <2>6, <2>7
  <1>3. Len(m) \in 0..Len(m)
    OBVIOUS
  <1> QED
    BY <1>2, <1>3 DEF Init_Physical_Memory_Manager

-----------------------------------------------------------------------------
LEMMA OverlaysBoolean == \A r, d : Overlays(r, d) \in BOOLEAN
  BY DEF Overlays

\* What a call that is under way relies on.
CallOK ==
    /\ op # "idle" => reg \in 1..Len(MemDesc) /\ MemDesc[reg].avail
    /\ op = "check" \/ (op \in {"load", "store"} /\ value) => ridx \in Nat
    /\ op = "store" => left > 0 /\ index < BitSize(reg)

TypeInv == TypeOK /\ CallOK

LEMMA InitTypeInv == Init => TypeInv
  <1> SUFFICES ASSUME Init PROVE TypeInv
    OBVIOUS
  <1>1. MemDesc \in Seq(Descriptor)
    BY PmmAssumption, MapDescribed DEF Init, Describes
  <1>2. used \subseteq Managed
    BY DEF Init, Overlaid
  <1>3. single \in BOOLEAN /\ shared \in BOOLEAN /\ clobbered \in BOOLEAN /\ value \in BOOLEAN
    BY Zenon DEF Init
  <1> QED
    BY <1>1, <1>2, <1>3 DEF Init, TypeInv, TypeOK, CallOK

\* Leaving a call, or going on to the next descriptor, keeps the types.
LEMMA LeaveKeeps ==
    Leave => /\ op' = "idle" /\ reg' \in Nat \ {0} /\ size' \in Nat \ {0} /\ value' \in BOOLEAN
             /\ sidx' \in Nat /\ ridx' \in Nat \cup {-1} /\ i' \in Nat
             /\ index' \in Nat /\ left' \in Nat /\ byte' = {}
  BY DEF Leave

LEMMA TryFromKeeps ==
    ASSUME TypeInv, NEW r \in Nat, NEW n \in Nat \ {0}, TryFrom(r, n), MemDesc' = MemDesc
    PROVE  /\ op' \in {"idle", "scan"}
           /\ reg' \in Nat \ {0} /\ size' \in Nat \ {0} /\ value' \in BOOLEAN
           /\ sidx' \in Nat /\ ridx' \in Nat \cup {-1} /\ i' \in Nat
           /\ index' \in Nat /\ left' \in Nat /\ byte' \subseteq Managed
           /\ failed' \in Nat
           /\ op' # "idle" => reg' \in 1..Len(MemDesc) /\ MemDesc[reg'].avail
  <1>1. CASE NextAvailable(r) = 0
    BY <1>1, LeaveKeeps DEF TryFrom
  <1>2. CASE NextAvailable(r) # 0
    <2>1. NextAvailable(r) \in 1..Len(MemDesc) /\ MemDesc[NextAvailable(r)].avail
      BY <1>2, NextAvailableValid DEF TypeInv, TypeOK
    <2>2. UNCHANGED value /\ value \in BOOLEAN
      BY <1>2, Zenon DEF TryFrom, TypeInv, TypeOK
    <2> QED
      BY <1>2, <2>1, <2>2 DEF TryFrom, TypeInv, TypeOK
  <1> QED
    BY <1>1, <1>2

LEMMA ReturnKeeps ==
    ASSUME TypeInv, Return(ridx), ridx \in Nat, op # "idle", MemDesc' = MemDesc
    PROVE  /\ blocks' \subseteq [addr : Nat, size : Nat \ {0}]
           /\ shared' \in BOOLEAN
           /\ failed' \in Nat
  <1>1. PageOf(reg, ridx) \in Nat
    <2>1. MemDesc[reg] \in Descriptor
      BY DEF TypeInv, TypeOK, CallOK
    <2> QED
      BY <2>1 DEF PageOf, Descriptor
  <1>2. [addr |-> PageOf(reg, ridx), size |-> size] \in [addr : Nat, size : Nat \ {0}]
    BY <1>1 DEF TypeInv, TypeOK
  <1> QED
    BY <1>2 DEF Return, TypeInv, TypeOK

LEMMA NextTypeInv == TypeInv /\ [Next]_vars => TypeInv'
  <1> SUFFICES ASSUME TypeInv, [Next]_vars PROVE TypeInv'
    OBVIOUS
  <1> USE DEF TypeInv
  <1>1. Sizes \subseteq Nat \ {0}
    BY PmmAssumption
  <1>2. CASE Malloc
    <2>1. PICK n \in Sizes : Pmm_Malloc(n)
      BY <1>2 DEF Malloc
    <2>2. Managed' = Managed /\ MemDesc' = MemDesc
      BY <2>1 DEF Pmm_Malloc, Managed, Pages
    <2>3. single' \in BOOLEAN
      BY <2>1, Zenon DEF Pmm_Malloc
    <2>4. TryFrom(1, n) /\ n \in Nat \ {0}
      BY <1>1, <2>1 DEF Pmm_Malloc
    <2>5. shared' \in BOOLEAN /\ clobbered' \in BOOLEAN
      BY <2>1, Zenon DEF Pmm_Malloc, TypeOK
    <2> QED
      BY <2>1, <2>2, <2>3, <2>4, <2>5, TryFromKeeps DEF Pmm_Malloc, TypeOK, CallOK
  <1>3. CASE Scan
    <2>1. Managed' = Managed /\ MemDesc' = MemDesc
      BY <1>3 DEF Scan, Managed, Pages
    <2>2. single' \in BOOLEAN /\ clobbered' \in BOOLEAN
      BY <1>3, Zenon DEF Scan, TypeOK
    <2>a. op = "scan" /\ BitSize(reg) \in Nat /\ sidx \in Nat
      <3>1. op = "scan" /\ MemDesc[reg] \in Descriptor
        BY <1>3 DEF Scan, TypeOK, CallOK
      <3> QED
        BY <3>1 DEF BitSize, Descriptor, TypeOK
    <2>b. ASSUME sidx < BitSize(reg) PROVE value' \in BOOLEAN /\ shared' \in BOOLEAN
      <3>1. value' = value /\ shared' = shared
        BY <1>3, <2>a, <2>b DEF Scan
      <3> QED
        BY <3>1, Zenon DEF TypeOK
    <2>3. CASE sidx < BitSize(reg) /\ Bit(reg, sidx)
      <3>1. sidx' = sidx + 1 /\ UNCHANGED <<op, reg, size, value, ridx, i, index, left, byte, failed, blocks>>
        BY <1>3, <2>a, <2>3 DEF Scan, Skipped
      <3> QED
        BY <1>3, <2>1, <2>2, <2>a, <2>b, <2>3, <3>1 DEF Scan, TypeOK, CallOK
    <2>4. CASE sidx < BitSize(reg) /\ ~Bit(reg, sidx)
      <3>1. /\ ridx' = sidx /\ i' = 1 /\ op' = "check"
            /\ UNCHANGED <<reg, size, value, sidx, index, left, byte, failed, blocks>>
        BY <1>3, <2>a, <2>4 DEF Scan
      <3> QED
        BY <1>3, <2>1, <2>2, <2>a, <2>b, <2>4, <3>1 DEF Scan, TypeOK, CallOK
    <2>5. CASE sidx >= BitSize(reg) /\ ridx = -1
      <3>1. TryFrom(reg + 1, size) /\ UNCHANGED <<blocks, shared>>
        BY <1>3, <2>a, <2>5 DEF Scan
      <3>2. shared' \in BOOLEAN
        BY <3>1, Zenon DEF TypeOK
      <3>3. reg + 1 \in Nat /\ size \in Nat \ {0}
        BY DEF TypeOK
      <3> QED
        BY <1>3, <2>1, <2>2, <3>1, <3>2, <3>3, TryFromKeeps DEF Scan, TypeOK, CallOK
    <2>6. CASE sidx >= BitSize(reg) /\ ridx # -1
      <3>1. Return(ridx)
        BY <1>3, <2>a, <2>6 DEF Scan
      <3>2. ridx \in Nat /\ op # "idle"
        BY <1>3, <2>6 DEF Scan, TypeOK
      <3>3. Leave
        BY <3>1 DEF Return
      <3> QED
        BY <1>3, <2>1, <2>2, <3>1, <3>2, <3>3, ReturnKeeps, LeaveKeeps DEF Scan, TypeOK, CallOK
    <2> QED
      BY <2>a, <2>3, <2>4, <2>5, <2>6
  <1>4. CASE Check
    <2>1. Managed' = Managed /\ MemDesc' = MemDesc
      BY <1>4 DEF Check, Managed, Pages
    <2>2. single' \in BOOLEAN /\ clobbered' \in BOOLEAN /\ shared' \in BOOLEAN /\ value' \in BOOLEAN
      BY <1>4, Zenon DEF Check, TypeOK
    <2> QED
      BY SMTT(30), <1>4, <2>1, <2>2 DEF Check, TypeOK, CallOK
  <1>5. CASE SetBitsLoad
    <2>1. Managed' = Managed /\ MemDesc' = MemDesc
      BY <1>5 DEF SetBitsLoad, Managed, Pages
    <2>2. single' \in BOOLEAN /\ clobbered' \in BOOLEAN
      BY <1>5, Zenon DEF SetBitsLoad, TypeOK
    <2>3. CASE InBitmap
      <3>1. value' = value /\ shared' = shared
        BY <1>5, <2>3 DEF SetBitsLoad
      <3>2. value' \in BOOLEAN /\ shared' \in BOOLEAN
        BY <3>1, Zenon DEF TypeOK
      <3> QED
        BY <1>5, <2>1, <2>2, <2>3, <3>1, <3>2 DEF SetBitsLoad, TypeOK, CallOK, InBitmap, BitSize
    <2>4. CASE ~InBitmap /\ value
      <3>1. Return(ridx) /\ ridx \in Nat /\ op # "idle"
        BY <1>5, <2>4 DEF SetBitsLoad, CallOK
      <3>2. Leave
        BY <3>1 DEF Return
      <3> QED
        BY <1>5, <2>1, <2>2, <3>1, <3>2, ReturnKeeps, LeaveKeeps DEF SetBitsLoad, TypeOK, CallOK
    <2>5. CASE ~InBitmap /\ ~value
      <3>1. Leave /\ UNCHANGED <<failed, blocks, shared>>
        BY <1>5, <2>5 DEF SetBitsLoad
      <3>2. shared' \in BOOLEAN
        BY <3>1, Zenon DEF TypeOK
      <3> QED
        BY <1>5, <2>1, <2>2, <3>1, <3>2, LeaveKeeps DEF SetBitsLoad, TypeOK, CallOK
    <2> QED
      BY <2>3, <2>4, <2>5
  <1>6. CASE SetBitsStore
    <2>1. Managed' = Managed /\ MemDesc' = MemDesc
      BY <1>6 DEF SetBitsStore, Managed, Pages
    <2>2. single' \in BOOLEAN /\ shared' \in BOOLEAN /\ value' \in BOOLEAN
      BY <1>6, Zenon DEF SetBitsStore, TypeOK
    <2>3. clobbered' \in BOOLEAN
      <3>1. clobbered' = Overlays(reg, index)
        BY <1>6 DEF SetBitsStore
      <3> QED
        BY <3>1, OverlaysBoolean
    <2>4. PageOf(reg, index) \in Managed
      BY <1>6, BitIsManaged DEF SetBitsStore, TypeOK, CallOK
    <2>5. used' \subseteq Managed
      BY <1>6, <2>4 DEF SetBitsStore, Changed, TypeOK
    <2> QED
      BY <1>6, <2>1, <2>2, <2>3, <2>5 DEF SetBitsStore, TypeOK, CallOK, BitSize
  <1>7. CASE Free
    <2>1. PICK b \in blocks : Pmm_Free(b)
      BY <1>7 DEF Free
    <2>2. Managed' = Managed /\ MemDesc' = MemDesc
      BY <2>1 DEF Pmm_Free, Managed, Pages
    <2>3. single' \in BOOLEAN /\ shared' \in BOOLEAN /\ clobbered' \in BOOLEAN
      BY <2>1, Zenon DEF Pmm_Free, TypeOK
    <2>4. PICK k \in 1..Len(MemDesc) : Holds(k, b.addr) /\ reg' = k
                                       /\ index' = b.addr - MemDesc[k].start
      BY <2>1 DEF Pmm_Free
    <2>5. b.addr \in Nat /\ b.size \in Nat /\ MemDesc[k] \in Descriptor
      BY DEF TypeOK
    <2>6. index' \in Nat /\ reg' \in Nat \ {0} /\ reg' \in 1..Len(MemDesc) /\ MemDesc[reg'].avail
      BY <2>4, <2>5 DEF Holds, Pages, Descriptor
    <2> QED
      BY <2>1, <2>2, <2>3, <2>5, <2>6 DEF Pmm_Free, TypeOK, CallOK
  <1>8. CASE Bury
    <2>1. PICK b \in blocks : BuryFree(b)
      BY <1>8 DEF Bury
    <2>2. Managed' = Managed /\ MemDesc' = MemDesc
      BY <2>1 DEF BuryFree, Managed, Pages
    <2>3. single' \in BOOLEAN /\ shared' \in BOOLEAN /\ value' \in BOOLEAN
      BY <2>1, Zenon DEF BuryFree, TypeOK, locals
    <2>4. PICK k \in 1..Len(MemDesc) :
               /\ used' = used \ (Released(b) \cap Pages(k))
               /\ clobbered' = Overlays(k, b.addr - MemDesc[k].start)
      BY <2>1 DEF BuryFree
    <2>5. clobbered' \in BOOLEAN
      BY <2>4, OverlaysBoolean
    <2>6. Cover(b) \subseteq Nat
      BY DEF Cover, TypeOK
    <2> QED
      BY <2>1, <2>2, <2>3, <2>4, <2>5, <2>6 DEF BuryFree, TypeOK, CallOK, locals, BitSize
  <1>9. CASE UNCHANGED vars
    <2>1. Managed' = Managed
      BY <1>9 DEF vars, Managed, Pages
    <2>2. single' \in BOOLEAN /\ shared' \in BOOLEAN /\ clobbered' \in BOOLEAN /\ value' \in BOOLEAN
      BY <1>9, Zenon DEF vars, locals, TypeOK
    <2> QED
      BY <1>9, <2>1, <2>2 DEF vars, locals, TypeOK, CallOK, BitSize
  <1> QED
    BY <1>2, <1>3, <1>4, <1>5, <1>6, <1>7, <1>8, <1>9 DEF Next, Step, Lost

\* Every variable keeps its type, and only pages of available memory are ever marked in
\* a bitmap or handed out by Pmm_Malloc, for every memory map.
THEOREM PmmTypes == Spec => []TypeOK
  <1>1. TypeInv => TypeOK
    BY DEF TypeInv
  <1> QED
    BY InitTypeInv, NextTypeInv, <1>1, PTL DEF Spec

-----------------------------------------------------------------------------
\* No step changes the map or the descriptors.
LEMMA MapKept == [Next]_vars => UNCHANGED <<map, MemDesc>>
  BY DEF Next, Malloc, Pmm_Malloc, Step, Scan, Check, SetBitsLoad, SetBitsStore, Free, Pmm_Free, Bury, BuryFree,
         Lost, vars

LEMMA InitManaged == Init => Managed = MemOf(map, Len(map))
  <1> SUFFICES ASSUME Init PROVE Managed = MemOf(map, Len(map))
    OBVIOUS
  <1>1. Describes(MemDesc, map, Len(map))
    BY PmmAssumption, MapDescribed DEF Init
  <1>2. Managed = MemOf(MemDesc, Len(MemDesc))
    <2>1. ASSUME NEW k \in 1..Len(MemDesc)
          PROVE  /\ MemDesc[k].start \in Nat /\ MemDesc[k].pages \in Nat /\ MemDesc[k].start # 0
                 /\ \A p : p \in Pages(k) <=> p \in Nat /\ p >= MemDesc[k].start
                                                  /\ p < MemDesc[k].start + MemDesc[k].pages
      <3>1. MemDesc[k] \in Descriptor /\ MemDesc[k].start # 0
        BY <1>1 DEF Describes
      <3> QED
        BY <3>1 DEF Descriptor, Pages
    <2>2. \A p : p \in Managed <=> \E k \in 1..Len(MemDesc) : MemDesc[k].avail /\ p \in Pages(k)
      BY DEF Managed
    <2> QED
      BY <2>1, <2>2 DEF MemOf
  <1> QED
    BY <1>1, <1>2 DEF Describes

\* What the bitmaps stand for is what the UEFI map calls available, for every map: the loop
\* of Init_Physical_Memory_Manager, which merges neighbours, adds no page and loses none
\* but those of an entry at address 0.
THEOREM ManagedIsAvailable == Spec => [](Managed = MemOf(map, Len(map)))
  <1>1. Managed = MemOf(map, Len(map)) /\ [Next]_vars => (Managed = MemOf(map, Len(map)))'
    BY MapKept DEF Managed, Pages
  <1> QED
    BY InitManaged, <1>1, PTL DEF Spec

-----------------------------------------------------------------------------
\* The page the call at hand is about to mark, and after that hands out.
Taken == PageOf(reg, ridx)

\* While every call so far asked for one page: what the blocks, the search and the two
\* halves of a bit update rely on.  The page a search has found stays clear, and a byte
\* that was loaded still shows every block under it, although others free pages.
BlocksMarked == \A b \in blocks : b.size = 1 /\ b.addr \in used
SearchOK ==
    /\ size = 1
    /\ op = "scan" => ridx = -1
    /\ op = "check" => i = 1 /\ ridx < BitSize(reg) /\ Taken \notin used
MarkOK ==
    op \in {"load", "store"} /\ value =>
        /\ \A b \in blocks : b.addr # Taken
        /\ \/ left = 1 /\ index = ridx /\ ridx < BitSize(reg)
           \/ left = 0 /\ Taken \in used
ClearOK ==
    op \in {"load", "store"} /\ ~value =>
        /\ left \in {0, 1}
        /\ left = 1 => \A b \in blocks : b.addr # PageOf(reg, index)
StoreOK ==
    op = "store" =>
        /\ left = 1
        /\ \A b \in blocks : b.addr \in ByteBits(reg, index) => b.addr \in byte

SingleInv == ~shared /\ BlocksMarked /\ SearchOK /\ MarkOK /\ ClearOK /\ StoreOK
IInv == TypeInv /\ (single => SingleInv)

LEMMA InitIInv == Init => IInv
  <1>1. Init => (single => SingleInv)
    BY DEF Init, SingleInv, BlocksMarked, SearchOK, MarkOK, ClearOK, StoreOK
  <1> QED
    BY <1>1, InitTypeInv DEF IInv

\* A call that is left leaves nothing for the invariant to say about it.
LEMMA LeaveSingle ==
    Leave /\ ~shared' /\ BlocksMarked' => SingleInv'
  BY DEF Leave, SingleInv, SearchOK, MarkOK, ClearOK, StoreOK

LEMMA TryFromSingle ==
    ASSUME NEW r, TryFrom(r, 1), ~shared', BlocksMarked'
    PROVE  SingleInv'
  <1>1. CASE NextAvailable(r) = 0
    BY <1>1, LeaveSingle DEF TryFrom
  <1>2. CASE NextAvailable(r) # 0
    BY <1>2 DEF TryFrom, SingleInv, SearchOK, MarkOK, ClearOK, StoreOK
  <1> QED
    BY <1>1, <1>2

LEMMA NextSingle == TypeInv /\ single /\ single' /\ SingleInv /\ [Next]_vars => SingleInv'
  <1> SUFFICES ASSUME TypeInv, single, single', SingleInv, [Next]_vars PROVE SingleInv'
    OBVIOUS
  <1> USE DEF SingleInv
  <1>0. /\ op # "idle" => MemDesc[reg] \in Descriptor /\ BitSize(reg) \in Nat
        /\ \A b \in blocks : b = [addr |-> b.addr, size |-> 1] /\ b.addr \in Nat /\ Cover(b) = {b.addr}
    <2>1. op # "idle" => MemDesc[reg] \in Descriptor
      BY DEF TypeInv, TypeOK, CallOK
    <2>2. op # "idle" => BitSize(reg) \in Nat
      BY <2>1 DEF BitSize, Descriptor
    <2>3. \A b \in blocks : b \in [addr : Nat, size : Nat \ {0}] /\ b.size = 1
      BY DEF TypeInv, TypeOK, BlocksMarked
    <2>4. \A b \in blocks : b = [addr |-> b.addr, size |-> 1] /\ b.addr \in Nat
      BY <2>3
    <2>5. \A b \in blocks : Cover(b) = {b.addr}
      BY <2>3 DEF Cover
    <2> QED
      BY <2>1, <2>2, <2>4, <2>5
  <1>1. CASE Malloc
    <2>1. PICK n \in Sizes : Pmm_Malloc(n)
      BY <1>1 DEF Malloc
    <2>2. TryFrom(1, 1) /\ UNCHANGED <<used, blocks, shared>>
      BY <2>1 DEF Pmm_Malloc
    <2> QED
      BY <2>2, TryFromSingle DEF BlocksMarked
  <1>2. CASE Scan
    <2>1. op = "scan" /\ ridx = -1 /\ size = 1 /\ sidx \in Nat
      BY <1>2 DEF Scan, SearchOK, TypeInv, TypeOK
    <2>2. CASE sidx < BitSize(reg) /\ Bit(reg, sidx)
      BY <1>0, <1>2, <2>1, <2>2 DEF Scan, BlocksMarked, SearchOK, MarkOK, ClearOK, StoreOK
    <2>3. CASE sidx < BitSize(reg) /\ ~Bit(reg, sidx)
      BY <1>0, <1>2, <2>1, <2>3
         DEF Scan, BlocksMarked, SearchOK, MarkOK, ClearOK, StoreOK, Bit, Taken, PageOf, BitSize
    <2>4. CASE sidx >= BitSize(reg)
      <3>1. TryFrom(reg + 1, 1) /\ UNCHANGED <<used, blocks, shared>>
        BY <1>0, <1>2, <2>1, <2>4 DEF Scan
      <3> QED
        BY <3>1, TryFromSingle DEF BlocksMarked
    <2> QED
      BY <1>0, <2>1, <2>2, <2>3, <2>4
  <1>3. CASE Check
    <2>1. op = "check" /\ i = 1 /\ size = 1 /\ ridx < BitSize(reg) /\ Taken \notin used
      BY <1>3 DEF Check, SearchOK
    <2>2. /\ op' = "load" /\ value' = TRUE /\ index' = ridx /\ left' = 1
          /\ UNCHANGED <<MemDesc, used, reg, ridx, size, blocks, shared>>
      BY <1>3, <2>1 DEF Check, Enough
    <2>3. \A b \in blocks : b.addr # Taken
      BY <2>1 DEF BlocksMarked
    <2> QED
      BY <2>1, <2>2, <2>3 DEF BlocksMarked, SearchOK, MarkOK, ClearOK, StoreOK, Taken, PageOf, BitSize
  <1>4. CASE SetBitsLoad
    <2>1. op = "load"
      BY <1>4 DEF SetBitsLoad
    <2>2. CASE InBitmap
      <3>1. /\ byte' = used \cap ByteBits(reg, index) /\ op' = "store"
            /\ UNCHANGED <<MemDesc, used, reg, size, value, ridx, i, index, left, blocks, shared>>
        BY <1>4, <2>2 DEF SetBitsLoad
      <3>2. left = 1
        BY <2>1, <2>2 DEF InBitmap, MarkOK, ClearOK
      <3>3. MarkOK' /\ ClearOK'
        BY <2>1, <3>1 DEF MarkOK, ClearOK, Taken, PageOf, BitSize
      <3>4. StoreOK'
        BY <3>1, <3>2 DEF StoreOK, BlocksMarked, ByteBits, PageOf, BitSize
      <3> QED
        BY <3>1, <3>3, <3>4 DEF BlocksMarked, SearchOK
    <2>3. CASE ~InBitmap /\ value
      <3>1. Return(ridx) /\ used' = used
        BY <1>4, <2>3 DEF SetBitsLoad
      <3>2. Taken \in used /\ \A b \in blocks : b.addr # Taken
        BY <2>1, <2>3 DEF InBitmap, MarkOK
      <3> DEFINE new == [addr |-> Taken, size |-> 1]
      <3>3. blocks' = blocks \cup {new}
        BY <3>1 DEF Return, SearchOK, Taken
      <3>4. Cover(new) = {Taken}
        <4>1. Taken \in Nat
          BY <1>0, <2>1, <2>3 DEF Taken, PageOf, Descriptor, TypeInv, CallOK
        <4> QED
          BY <4>1 DEF Cover
      <3>5. \A b \in blocks : Cover(b) \cap Cover(new) = {}
        BY <1>0, <3>2, <3>4
      <3>6. ~shared'
        <4>1. shared' = (shared \/ \E b \in blocks : Cover(b) \cap Cover(new) # {})
          BY <3>1 DEF Return, SearchOK, Taken
        <4> QED
          BY <3>5, <4>1, Zenon
      <3>7. BlocksMarked'
        BY <3>1, <3>2, <3>3 DEF BlocksMarked
      <3> QED
        BY <3>1, <3>6, <3>7, LeaveSingle DEF Return
    <2>4. CASE ~InBitmap /\ ~value
      <3>1. Leave /\ UNCHANGED <<used, blocks, shared>>
        BY <1>4, <2>4 DEF SetBitsLoad
      <3> QED
        BY <3>1, LeaveSingle DEF BlocksMarked
    <2> QED
      BY <2>2, <2>3, <2>4
  <1>5. CASE SetBitsStore
    <2>1. /\ op = "store" /\ left = 1 /\ op' = "load" /\ left' = 0
          /\ used' = (used \ ByteBits(reg, index)) \cup Changed(byte)
          /\ UNCHANGED <<MemDesc, reg, size, value, sidx, ridx, i, blocks, shared>>
      BY <1>5 DEF SetBitsStore, StoreOK
    <2>2. CASE value
      <3>1. Taken = PageOf(reg, index) /\ Taken \in used'
        BY <2>1, <2>2 DEF MarkOK, Changed, Taken
      <3>2. BlocksMarked'
        BY <2>1, <2>2 DEF BlocksMarked, StoreOK, Changed
      <3> QED
        BY <2>1, <2>2, <3>1, <3>2 DEF SearchOK, MarkOK, ClearOK, StoreOK, Taken, PageOf
    <2>3. CASE ~value
      <3>1. BlocksMarked'
        BY <2>1, <2>3 DEF BlocksMarked, StoreOK, ClearOK, Changed
      <3> QED
        BY <2>1, <2>3, <3>1 DEF SearchOK, MarkOK, ClearOK, StoreOK
    <2> QED
      BY <2>2, <2>3
  <1>6. CASE Free
    <2>1. PICK b \in blocks : Pmm_Free(b)
      BY <1>6 DEF Free
    <2>2. PICK k \in 1..Len(MemDesc) : reg' = k /\ index' = b.addr - MemDesc[k].start
      BY <2>1 DEF Pmm_Free
    <2>3. /\ op' = "load" /\ value' = FALSE /\ left' = 1 /\ blocks' = blocks \ {b}
          /\ UNCHANGED <<MemDesc, used, size, shared>>
      BY <1>0, <2>1 DEF Pmm_Free, BlocksMarked
    <2>4. MemDesc[k] \in Descriptor
      BY DEF TypeInv, TypeOK
    <2>5. PageOf(reg, index)' = b.addr
      BY <1>0, <2>2, <2>3, <2>4 DEF PageOf, Descriptor
    <2>6. \A c \in blocks' : c.addr # b.addr
      BY <1>0, <2>3
    <2> QED
      BY <2>3, <2>5, <2>6 DEF BlocksMarked, SearchOK, MarkOK, ClearOK, StoreOK
  <1>7. CASE Bury
    <2>1. PICK b \in blocks : BuryFree(b)
      BY <1>7 DEF Bury
    <2>2. PICK k \in 1..Len(MemDesc) : used' = used \ (Released(b) \cap Pages(k))
      BY <2>1 DEF BuryFree
    <2>3. /\ blocks' = blocks \ {b}
          /\ UNCHANGED <<MemDesc, op, reg, size, value, ridx, i, index, left, byte, shared>>
      BY <2>1 DEF BuryFree, locals
    <2>4. \A p \in used : p # b.addr => p \in used'
      BY <1>0, <2>2 DEF Released
    <2>5. \A c \in blocks' : c \in blocks /\ c.addr # b.addr
      BY <1>0, <2>3
    <2>6. BlocksMarked'
      BY <2>4, <2>5 DEF BlocksMarked
    <2>7. SearchOK'
      BY <2>2, <2>3 DEF SearchOK, Taken, PageOf, BitSize
    <2>8. MarkOK'
      BY <2>3, <2>4, <2>5 DEF MarkOK, Taken, PageOf, BitSize
    <2>9. ClearOK' /\ StoreOK'
      BY <2>3, <2>5 DEF ClearOK, StoreOK, ByteBits, PageOf, BitSize
    <2> QED
      BY <2>3, <2>6, <2>7, <2>8, <2>9
  <1>8. CASE UNCHANGED vars
    BY <1>8 DEF vars, locals, BlocksMarked, SearchOK, MarkOK, ClearOK, StoreOK, Taken, PageOf, BitSize, ByteBits
  <1> QED
    BY <1>1, <1>2, <1>3, <1>4, <1>5, <1>6, <1>7, <1>8 DEF Next, Step, Lost

LEMMA NextIInv == IInv /\ [Next]_vars => IInv'
  <1>1. TypeInv /\ [Next]_vars /\ single' => single
    BY Zenon DEF TypeInv, TypeOK, Next, Malloc, Step, Free, Bury, Lost, Pmm_Malloc, Scan, Check,
                 SetBitsLoad, SetBitsStore, Pmm_Free, BuryFree, vars
  <1> QED
    BY <1>1, NextTypeInv, NextSingle DEF IInv

LEMMA PmmInvariant == Spec => []IInv
  BY InitIInv, NextIInv, PTL DEF Spec

\* As long as every caller asks for a single page, Pmm_Malloc never hands out a page
\* that was handed out before and not given back.
THEOREM PmmDisjoint == Spec => []PagesDisjoint
  <1>1. IInv => PagesDisjoint
    BY DEF IInv, SingleInv, PagesDisjoint
  <1> QED
    BY PmmInvariant, <1>1, PTL

\* As long as every caller asks for a single page, no free that comes between the two
\* halves of a bit update takes the mark from a page somebody still has.
THEOREM PmmMarked == Spec => []PagesMarked
  <1>1. IInv => PagesMarked
    BY DEF IInv, SingleInv, BlocksMarked, PagesMarked, Cover, TypeInv, TypeOK
  <1> QED
    BY PmmInvariant, <1>1, PTL

-----------------------------------------------------------------------------
(***************************************************************************)
(* A NULL.  Whatever the sizes asked for, the search leaves nothing that   *)
(* would do behind it; what others give back meanwhile it may miss.        *)
(***************************************************************************)

\* A run of n pages that cannot be taken, or could not when the search passed it.
Blocked(k, d, n) == \E e \in d..(d + n - 1) : PageOf(k, e) \in used \cup freed
AllBlocked(k, n) == MemDesc[k].avail => \A d \in 0..(BitSize(k) - n) : Blocked(k, d, n)

\* The descriptors before the one at hand are done with, and so are the starts before the
\* one that is looked at; a start that was remembered at the end of a bitmap is returned,
\* so it is no NULL.
SearchInv ==
    /\ op # "idle" => failed = 0
    /\ op \in {"scan", "check"} => \A k \in 1..(reg - 1) : AllBlocked(k, size)
    /\ op = "scan" => \/ ridx = -1 /\ \A d \in 0..(sidx - 1) : Blocked(reg, d, size)
                      \/ ridx # -1 /\ sidx >= BitSize(reg)
    /\ op = "check" => /\ i >= 1 /\ sidx = ridx + i - 1
                       /\ \A d \in 0..(ridx - 1) : Blocked(reg, d, size)
NullInv == SearchInv /\ NullMeansFull

\* The loop of Pmm_Malloc passes over no available descriptor.
LEMMA NextAvailableFirst ==
    ASSUME NEW r \in Nat, MemDesc \in Seq(Descriptor), NEW k \in 1..Len(MemDesc), k >= r,
           NextAvailable(r) = 0 \/ k < NextAvailable(r)
    PROVE  ~MemDesc[k].avail
  <1> DEFINE later == {l \in 1..Len(MemDesc) : l >= r /\ MemDesc[l].avail}
  <1>1. SUFFICES ASSUME k \in later PROVE FALSE
    OBVIOUS
  <1>2. later \in SUBSET Nat /\ later # {} /\ 0 \notin later
    BY <1>1
  <1>3. NextAvailable(r) = CHOOSE l \in later : \A m \in later : l <= m
    BY <1>2 DEF NextAvailable
  <1> HIDE DEF later
  <1>4. \E l \in later : \A m \in later : l <= m
    BY <1>2, Smallest
  <1>5. NextAvailable(r) \in later /\ \A m \in later : NextAvailable(r) <= m
    BY <1>3, <1>4
  <1>6. NextAvailable(r) \in Nat /\ NextAvailable(r) # 0 /\ NextAvailable(r) <= k
    BY <1>1, <1>2, <1>5
  <1> QED
    BY <1>6

\* Going on from descriptor r keeps the invariant when everything before it is blocked.
LEMMA TryFromNull ==
    ASSUME TypeInv, NEW r \in Nat, NEW n \in Nat \ {0}, TryFrom(r, n), UNCHANGED <<MemDesc, used>>,
           \A k \in 1..Len(MemDesc) : k < r => (AllBlocked(k, n))'
    PROVE  NullInv'
  <1> DEFINE next == NextAvailable(r)
  <1>1. MemDesc \in Seq(Descriptor)
    BY DEF TypeInv, TypeOK
  <1>2. \A k \in 1..Len(MemDesc) : k >= r /\ (next = 0 \/ k < next) => ~MemDesc[k].avail
    BY <1>1, NextAvailableFirst
  <1>3. \A k \in 1..Len(MemDesc) : next = 0 \/ k < next => (AllBlocked(k, n))'
    BY <1>1, <1>2 DEF AllBlocked
  <1>4. CASE next = 0
    <2>1. op' = "idle" /\ failed' = n
      BY <1>4 DEF TryFrom, Leave
    <2>2. NullMeansFull'
      BY <1>3, <1>4, <2>1 DEF NullMeansFull, AllBlocked, Blocked
    <2> QED
      BY <2>1, <2>2 DEF NullInv, SearchInv
  <1>5. CASE next # 0
    <2>1. op' = "scan" /\ reg' = next /\ size' = n /\ sidx' = 0 /\ ridx' = -1 /\ failed' = 0
      BY <1>5 DEF TryFrom
    <2>2. next \in 1..Len(MemDesc)
      BY <1>1, <1>5, NextAvailableValid
    <2>3. \A k \in 1..(next - 1) : (AllBlocked(k, n))'
      BY <1>3, <2>2
    <2>4. (\A k \in 1..(reg - 1) : AllBlocked(k, size))'
      BY <2>1, <2>3
    <2>5. SearchInv'
      BY <2>1, <2>4 DEF SearchInv
    <2> QED
      BY <2>1, <2>5 DEF NullInv, NullMeansFull
  <1> QED
    BY <1>4, <1>5

\* What was blocked stays blocked while no bit is cleared unseen.
LEMMA BlockedStays ==
    ASSUME MemDesc' = MemDesc, used \cup freed \subseteq used' \cup freed'
    PROVE  /\ \A k, d, n : Blocked(k, d, n) => Blocked(k, d, n)'
           /\ \A k, n : AllBlocked(k, n) => AllBlocked(k, n)'
  BY DEF Blocked, AllBlocked, PageOf, BitSize

LEMMA NextNullInv == TypeInv /\ NullInv /\ [Next]_vars => NullInv'
  <1> SUFFICES ASSUME TypeInv, NullInv, [Next]_vars PROVE NullInv'
    OBVIOUS
  <1>1. op # "idle" => /\ reg \in 1..Len(MemDesc) /\ MemDesc[reg].avail /\ BitSize(reg) \in Nat
    <2>1. op # "idle" => reg \in 1..Len(MemDesc) /\ MemDesc[reg].avail /\ MemDesc[reg] \in Descriptor
      BY DEF TypeInv, TypeOK, CallOK
    <2> QED
      BY <2>1 DEF BitSize, Descriptor
  <1>2. size \in Nat \ {0} /\ sidx \in Nat /\ i \in Nat /\ ridx \in Nat \cup {-1} /\ reg \in Nat
    BY DEF TypeInv, TypeOK
  <1>3. SearchInv /\ NullMeansFull
    BY DEF NullInv
  <1>4. CASE Malloc
    <2>1. PICK n \in Sizes : Pmm_Malloc(n)
      BY <1>4 DEF Malloc
    <2>2. TryFrom(1, n) /\ UNCHANGED <<MemDesc, used>> /\ n \in Nat \ {0}
      BY <2>1, PmmAssumption DEF Pmm_Malloc
    <2> QED
      BY <2>2, TryFromNull
  <1>5. CASE Scan
    <2>1. op = "scan" /\ UNCHANGED <<MemDesc, used, freed>> /\ failed = 0
      BY <1>3, <1>5 DEF Scan, SearchInv
    <2>2. /\ \A k, d, n : Blocked(k, d, n) => Blocked(k, d, n)'
          /\ \A k, n : AllBlocked(k, n) => AllBlocked(k, n)'
      BY <2>1, BlockedStays
    <2>3. BitSize(reg) \in Nat /\ reg \in 1..Len(MemDesc) /\ MemDesc[reg].avail
      BY <1>1, <2>1
    <2>4. \A k \in 1..(reg - 1) : AllBlocked(k, size)
      BY <1>3, <2>1 DEF SearchInv
    <2>5. CASE sidx < BitSize(reg)
      <3>1. ridx = -1 /\ \A d \in 0..(sidx - 1) : Blocked(reg, d, size)
        BY <1>2, <1>3, <2>1, <2>3, <2>5 DEF SearchInv
      <3>2. CASE Bit(reg, sidx)
        <4>1. sidx' = sidx + 1 /\ UNCHANGED <<op, reg, size, ridx, failed>>
          BY <1>2, <1>5, <2>3, <2>5, <3>2 DEF Scan, Skipped
        <4>2. Blocked(reg, sidx, size)
          BY <1>2, <3>2 DEF Blocked, Bit
        <4>3. \A d \in 0..((sidx + 1) - 1) : Blocked(reg, d, size)
          BY <1>2, <3>1, <4>2
        <4>4. (\A d \in 0..(sidx - 1) : Blocked(reg, d, size))'
          BY <2>2, <4>1, <4>3
        <4>5. (\A k \in 1..(reg - 1) : AllBlocked(k, size))'
          BY <2>2, <2>4, <4>1
        <4> QED
          BY <2>1, <3>1, <4>1, <4>4, <4>5 DEF NullInv, SearchInv, NullMeansFull
      <3>3. CASE ~Bit(reg, sidx)
        <4>1. ridx' = sidx /\ i' = 1 /\ op' = "check" /\ UNCHANGED <<reg, size, sidx, failed>>
          BY <1>2, <1>5, <2>3, <2>5, <3>3 DEF Scan
        <4>2. (\A d \in 0..(ridx - 1) : Blocked(reg, d, size))'
          BY <2>2, <3>1, <4>1
        <4>3. (\A k \in 1..(reg - 1) : AllBlocked(k, size))'
          BY <2>2, <2>4, <4>1
        <4> QED
          BY <1>2, <2>1, <4>1, <4>2, <4>3 DEF NullInv, SearchInv, NullMeansFull
      <3> QED
        BY <3>2, <3>3
    <2>6. CASE sidx >= BitSize(reg) /\ ridx = -1
      <3>1. TryFrom(reg + 1, size)
        BY <1>2, <1>5, <2>3, <2>6 DEF Scan
      <3>2. \A d \in 0..(sidx - 1) : Blocked(reg, d, size)
        BY <1>3, <2>1, <2>6 DEF SearchInv
      <3>3. AllBlocked(reg, size)
        <4>1. \A d \in 0..(BitSize(reg) - size) : d \in 0..(sidx - 1)
          BY <1>2, <2>3, <2>6
        <4> QED
          BY <3>2, <4>1 DEF AllBlocked
      <3>4. PICK n \in Nat \ {0}, r \in Nat : n = size /\ r = reg + 1
        BY <1>2
      <3>5. ASSUME NEW k \in 1..Len(MemDesc), k < r PROVE AllBlocked(k, n)'
        <4>1. k = reg \/ k \in 1..(reg - 1)
          BY <1>2, <3>4, <3>5
        <4>2. AllBlocked(k, n)
          BY <2>4, <3>3, <3>4, <4>1
        <4> QED
          BY <2>2, <4>2
      <3> QED
        BY <2>1, <3>1, <3>4, <3>5, TryFromNull
    <2>7. CASE sidx >= BitSize(reg) /\ ridx # -1
      <3>1. Leave /\ UNCHANGED failed
        BY <1>2, <1>5, <2>3, <2>7 DEF Scan, Return
      <3> QED
        BY <2>1, <3>1 DEF Leave, NullInv, SearchInv, NullMeansFull
    <2> QED
      BY <1>2, <2>3, <2>5, <2>6, <2>7
  <1>6. CASE Check
    <2>1. op = "check" /\ UNCHANGED <<MemDesc, used, freed, reg, size, failed>> /\ failed = 0
      BY <1>3, <1>6 DEF Check, SearchInv
    <2>2. /\ \A k, d, n : Blocked(k, d, n) => Blocked(k, d, n)'
          /\ \A k, n : AllBlocked(k, n) => AllBlocked(k, n)'
      BY <2>1, BlockedStays
    <2>3. /\ i >= 1 /\ sidx = ridx + i - 1 /\ ridx \in Nat
          /\ \A d \in 0..(ridx - 1) : Blocked(reg, d, size)
          /\ \A k \in 1..(reg - 1) : AllBlocked(k, size)
      BY <1>3, <2>1 DEF SearchInv, TypeInv, CallOK
    <2>4. (\A k \in 1..(reg - 1) : AllBlocked(k, size))'
      BY <2>1, <2>2, <2>3
    <2>5. CASE ~Enough /\ sidx < BitSize(reg) /\ Bit(reg, sidx)
      <3>1. sidx' = sidx + 1 /\ ridx' = -1 /\ op' = "scan"
        BY <1>1, <1>2, <1>6, <2>1, <2>5 DEF Check
      <3>2. ASSUME NEW d \in 0..((sidx + 1) - 1) PROVE Blocked(reg, d, size)
        <4>1. CASE d < ridx
          BY <1>2, <2>3, <4>1
        <4>2. CASE ~(d < ridx)
          <5>1. sidx \in d..(d + size - 1)
            BY <1>2, <2>3, <2>5, <4>2 DEF Enough
          <5> QED
            BY <2>5, <5>1 DEF Blocked, Bit
        <4> QED
          BY <4>1, <4>2
      <3>3. (\A d \in 0..(sidx - 1) : Blocked(reg, d, size))'
        BY <2>1, <2>2, <3>1, <3>2
      <3> QED
        BY <2>1, <2>4, <3>1, <3>3 DEF NullInv, SearchInv, NullMeansFull
    <2>6. CASE ~Enough /\ sidx < BitSize(reg) /\ ~Bit(reg, sidx)
      <3>1. sidx' = sidx + 1 /\ i' = i + 1 /\ UNCHANGED <<ridx, op>>
        BY <1>1, <1>2, <1>6, <2>1, <2>6 DEF Check
      <3>2. (\A d \in 0..(ridx - 1) : Blocked(reg, d, size))'
        BY <2>1, <2>2, <2>3, <3>1
      <3> QED
        BY <1>2, <2>1, <2>3, <2>4, <3>1, <3>2 DEF NullInv, SearchInv, NullMeansFull
    <2>7. CASE Enough
      BY <1>6, <2>1, <2>7 DEF Check, NullInv, SearchInv, NullMeansFull
    <2>8. CASE ~Enough /\ sidx >= BitSize(reg)
      <3>1. op' = "scan" /\ UNCHANGED <<sidx, ridx>>
        BY <1>1, <1>2, <1>6, <2>1, <2>8 DEF Check
      <3>2. BitSize(reg)' = BitSize(reg) /\ ridx # -1
        BY <2>1, <2>3 DEF BitSize
      <3> QED
        BY <2>1, <2>4, <2>8, <3>1, <3>2 DEF NullInv, SearchInv, NullMeansFull
    <2> QED
      BY <1>1, <1>2, <2>1, <2>5, <2>6, <2>7, <2>8
  <1>7. CASE SetBitsLoad
    <2>1. op = "load" /\ failed = 0
      BY <1>3, <1>7 DEF SetBitsLoad, SearchInv
    <2>2. failed' = 0 /\ op' \in {"store", "idle"}
      BY <1>7, <2>1 DEF SetBitsLoad, Return, Leave
    <2> QED
      BY <2>2 DEF NullInv, SearchInv, NullMeansFull
  <1>8. CASE SetBitsStore
    BY <1>3, <1>8 DEF SetBitsStore, NullInv, SearchInv, NullMeansFull
  <1>9. CASE Free
    BY <1>9 DEF Free, Pmm_Free, NullInv, SearchInv, NullMeansFull
  <1>10. CASE Bury
    <2>1. PICK b \in blocks : BuryFree(b)
      BY <1>10 DEF Bury
    <2>2. PICK k \in 1..Len(MemDesc) : used' = used \ (Released(b) \cap Pages(k))
      BY <2>1 DEF BuryFree
    <2>3. freed' = freed \cup Cover(b) /\ UNCHANGED <<MemDesc, op, reg, size, sidx, ridx, i, failed>>
      BY <2>1 DEF BuryFree, locals
    <2>4. used \cup freed \subseteq used' \cup freed'
      BY <2>2, <2>3 DEF Released
    <2>5. /\ \A l, d, n : Blocked(l, d, n) => Blocked(l, d, n)'
          /\ \A l, n : AllBlocked(l, n) => AllBlocked(l, n)'
      BY <2>3, <2>4, BlockedStays
    <2>6. SearchInv'
      BY <1>3, <2>3, <2>5 DEF SearchInv, BitSize
    <2>7. NullMeansFull'
      BY <1>3, <2>3, <2>4 DEF NullMeansFull, BitSize, PageOf
    <2> QED
      BY <2>6, <2>7 DEF NullInv
  <1>11. CASE UNCHANGED vars
    <2>1. UNCHANGED <<MemDesc, used, freed, op, reg, size, sidx, ridx, i, failed>>
      BY <1>11 DEF vars, locals
    <2>2. SearchInv'
      BY <1>3, <2>1 DEF SearchInv, Blocked, AllBlocked, BitSize, PageOf
    <2> QED
      BY <1>3, <2>1, <2>2 DEF NullInv, NullMeansFull, BitSize, PageOf
  <1> QED
    BY <1>4, <1>5, <1>6, <1>7, <1>8, <1>9, <1>10, <1>11 DEF Next, Step, Lost

\* Pmm_Malloc returns NULL only when no available descriptor had room: for every memory map
\* and every sizes asked for, each long enough run of pages has a page that is in use or
\* that another thread gave back while the call was running.
THEOREM PmmNull == Spec => []NullMeansFull
  <1>1. Init => TypeInv /\ NullInv
    BY InitTypeInv DEF Init, NullInv, SearchInv, NullMeansFull
  <1>2. TypeInv /\ NullInv /\ [Next]_vars => TypeInv' /\ NullInv'
    BY NextTypeInv, NextNullInv
  <1>3. NullInv => NullMeansFull
    BY DEF NullInv
  <1> QED
    BY <1>1, <1>2, <1>3, PTL DEF Spec

-----------------------------------------------------------------------------
(***************************************************************************)
(* The boot loader.                                                        *)
(***************************************************************************)
LoaderSpec == LoaderInit /\ [][LoaderStep]_loaderVars

Scratch == {"root", "file", "info"}
Late == {"GetRSDP", "stack", "desc", "map", "GetMemoryMap", "ExitBootServices", "kernel"}

\* What ReadFileToBuffer holds before each of its calls.
HeldBefore(c) ==
    When(c \in AfterRoot, "root") \cup When(c \in AfterRoot \ {"Open"}, "file")
      \cup When(c \in {"GetInfo", "AllocateBuffer", "Read"}, "info") \cup When(c = "Read", load.file)

\* The memory the kernel was given at each later step, as far as nothing failed unseen.
Owned ==
    When(load.at \in Late \ {"GetRSDP", "stack"}, "stack")
      \cup When(load.at \in {"GetMemoryMap", "ExitBootServices", "kernel"}, "map")
      \cup When(share.desc = "set", "desc")
Fonts == When(share.font # "null", "font")

\* The fields keep their types.
LoaderTypes ==
    /\ load \in [at : Calls \cup Late \cup {"InitGraphics", "header", "reset", "running", "stopped"},
                 file : {"kernel", "font"}, content : {"none", "good", "damaged"}]
    /\ share \in [font : {"null", "right", "cut"}, map : {"junk", "filled", "unfilled"},
                  desc : {"null", "set"}]

\* Before, in and right after ReadFileToBuffer: the call decides what is held.
ReadingInv ==
    /\ At("InitGraphics") => held = {} /\ load.file = "kernel" /\ share.font = "null"
    /\ load.at \in Calls =>
         /\ share.font = "null"
         /\ held = HeldBefore(load.at) \cup (IF load.file = "font" THEN {"kernel"} ELSE {})
         /\ load.file = "font" => load.content = "good"
    /\ At("header") => held = {"kernel"} /\ share.font = "null" /\ load.file = "kernel"
    /\ load.at \in Calls \cup {"InitGraphics", "header", "GetRSDP", "stack", "desc"} => share.desc = "null"

\* Later: the two files, and the memory for the kernel.
LateInv ==
    /\ load.at \in Late =>
         /\ load.file = "font" /\ load.content = "good"
         /\ held \cap Scratch = {}
         /\ "kernel" \in held
         /\ "font" \in held <=> share.font # "null"
         /\ unchecked = {} => held = {"kernel"} \cup Fonts \cup Owned /\ share.font # "cut"
    /\ load.at \in {"ExitBootServices", "kernel"} /\ unchecked = {} => share.map = "filled"

\* The inductive invariant: where the loader is decides what it holds.
LoaderInv == LoaderTypes /\ ReadingInv /\ LateInv /\ HandoverIsSound

LEMMA LoaderInitInv == LoaderInit => LoaderInv
  BY DEF LoaderInit, LoaderInv, LoaderTypes, ReadingInv, LateInv, HandoverIsSound, At, Calls, Late, Scratch

\* Every call of ReadFileToBuffer gives back what was taken before it.
LEMMA ReadKeeps == LoaderInv /\ ReadFileToBuffer => LoaderInv'
  <1> SUFFICES ASSUME LoaderInv, ReadFileToBuffer PROVE LoaderInv'
    OBVIOUS
  <1> USE DEF LoaderInv, LoaderTypes, ReadingInv, LateInv, HandoverIsSound, At, Calls, Late, Goto, Scratch, AfterRoot, When
  <1>1. CASE ReadGoesOn
    BY <1>1 DEF ReadGoesOn, Follower, Takes, HeldBefore
  <1>2. CASE ReadFails
    BY <1>2 DEF ReadFails, GivesBack, HeldBefore, Fonts, Owned
  <1>3. CASE KernelRead
    BY ZenonT(60), <1>3 DEF KernelRead, HeldBefore
  <1>4. CASE FontRead
    BY <1>4 DEF FontRead, HeldBefore, Fonts, Owned
  <1> QED
    BY <1>1, <1>2, <1>3, <1>4 DEF ReadFileToBuffer

LEMMA LoaderStepKeeps == LoaderInv /\ [LoaderStep]_loaderVars => LoaderInv'
  <1> SUFFICES ASSUME LoaderInv, [LoaderStep]_loaderVars PROVE LoaderInv'
    OBVIOUS
  <1> USE DEF LoaderInv, LoaderTypes, ReadingInv, LateInv, HandoverIsSound, At, Calls, Late, Goto, Scratch,
              AfterRoot, When, Reset
  <1>1. CASE InitGraphics
    BY <1>1 DEF InitGraphics, HeldBefore
  <1>2. CASE ReadFileToBuffer
    BY <1>2, ReadKeeps
  <1>3. CASE CheckHeader
    <2>1. CASE load.content = "good"
      <3>1. /\ load'.at = "HandleProtocol" /\ load'.file = "font" /\ load'.content = "good"
            /\ LoaderTypes'
            /\ UNCHANGED <<held, share, unchecked>>
        BY <1>3, <2>1 DEF CheckHeader
      <3>2. ReadingInv'
        BY <1>3, <3>1 DEF CheckHeader, HeldBefore
      <3> QED
        BY <3>1, <3>2
    <2>2. CASE load.content # "good"
      BY <1>3, <2>2 DEF CheckHeader
    <2> QED
      BY <2>1, <2>2
  <1>4. CASE GetRSDP
    BY <1>4 DEF GetRSDP, Fonts, Owned
  <1>5. CASE AllocateStack
    BY <1>5 DEF AllocateStack, Fonts, Owned
  <1>6. CASE AllocateDesc
    BY <1>6 DEF AllocateDesc, Fonts, Owned
  <1>7. CASE AllocateMap
    BY <1>7 DEF AllocateMap, Fonts, Owned
  <1>8. CASE GetMemoryMap
    BY <1>8 DEF GetMemoryMap, Fonts, Owned
  <1>9. CASE ExitBootServices
    BY <1>9 DEF ExitBootServices, Fonts, Owned
  <1>10. CASE KernelStart
    <2>1. PICK ok \in LoadBootShare, usable \in CheckMemoryMap :
            IF ok /\ usable THEN Goto("running") ELSE Goto("stopped")
      BY <1>10 DEF KernelStart
    <2>2. At("kernel") /\ UNCHANGED <<fw, held, share, unchecked>>
      BY <1>10 DEF KernelStart
    <2>3. CASE ok /\ usable
      <3>1. share.font # "null"
        BY <2>3 DEF LoadBootShare
      <3>2. unchecked = {} => share.desc = "set"
        BY <2>2, <2>3 DEF CheckMemoryMap
      <3>3. load'.at = "running" /\ load'.content = "good" /\ load'.file = "font" /\ LoaderTypes'
        BY <2>1, <2>2, <2>3
      <3>4. unchecked = {} => /\ held = {"kernel", "font", "stack", "desc", "map"}
                              /\ share.font = "right" /\ share.map = "filled"
        BY <2>2, <3>1, <3>2 DEF Fonts, Owned
      <3> QED
        BY <2>2, <3>1, <3>2, <3>3, <3>4
    <2>4. CASE ~(ok /\ usable)
      BY <2>1, <2>2, <2>4
    <2> QED
      BY <2>3, <2>4
  <1>11. CASE UNCHANGED loaderVars
    BY <1>11 DEF loaderVars, HeldBefore, Fonts, Owned
  <1> QED
    BY <1>1, <1>2, <1>3, <1>4, <1>5, <1>6, <1>7, <1>8, <1>9, <1>10, <1>11 DEF LoaderStep

\* Whichever firmware calls fail in efi_main and ReadFileToBuffer, what is handed to the
\* kernel is as HandoverIsSound says.
THEOREM LoaderHandsOver == LoaderSpec => []HandoverIsSound
  <1>1. LoaderInv => HandoverIsSound
    BY DEF LoaderInv
  <1> QED
    BY LoaderInitInv, LoaderStepKeeps, <1>1, PTL DEF LoaderSpec

-----------------------------------------------------------------------------
(***************************************************************************)
(* The two together.                                                       *)
(***************************************************************************)
\* A step of the system is a step of the loader or of the allocator.
LEMMA SysStep == [SysNext]_sysVars => [LoaderStep]_loaderVars /\ [Next]_vars
  <1> SUFFICES ASSUME [SysNext]_sysVars PROVE [LoaderStep]_loaderVars /\ [Next]_vars
    OBVIOUS
  <1>1. CASE LoadKernel
    BY <1>1 DEF LoadKernel
  <1>2. CASE Allocator
    BY <1>2 DEF Allocator
  <1>3. CASE UNCHANGED sysVars
    BY <1>3 DEF sysVars
  <1> QED
    BY <1>1, <1>2, <1>3 DEF SysNext

LEMMA SysImplies == SysSpec => LoaderSpec /\ Spec
  <1>1. SysInit => LoaderInit /\ Init
    BY DEF SysInit
  <1> QED
    BY <1>1, SysStep, PTL DEF SysSpec, LoaderSpec, Spec

\* From the loader's first call to the kernel's last allocation: the handover is sound,
\* single pages of Pmm_Malloc are never shared, and NULL means that there is no room.
THEOREM BootToAllocator == SysSpec => []HandoverIsSound /\ []PagesDisjoint /\ []NullMeansFull
  BY SysImplies, LoaderHandsOver, PmmDisjoint, PmmNull, PTL

\* The kernel's view of the firmware's map does not change.
MapInv == fw \in Firmwares /\ map = KernelMap

LEMMA InitMapInv == SysInit => MapInv
  BY DEF SysInit, LoaderInit, MapInv

LEMMA SysMapInv == MapInv /\ [SysNext]_sysVars => MapInv'
  <1> SUFFICES ASSUME MapInv, [SysNext]_sysVars PROVE MapInv'
    OBVIOUS
  <1>1. fw' = fw
    BY SysStep DEF LoaderStep, InitGraphics, ReadFileToBuffer, ReadGoesOn, ReadFails, KernelRead, FontRead, CheckHeader,
         Reset, GetRSDP, AllocateStack, AllocateDesc, AllocateMap, GetMemoryMap, ExitBootServices, KernelStart, loaderVars
  <1>2. map' = map
    BY SysStep, MapKept
  <1> QED
    BY <1>1, <1>2 DEF MapInv, KernelMap, IsMemoryAvailable

\* IsMemoryAvailable never takes memory of the loader, and the firmware describes no page twice.
LEMMA AvailableIsNotLoaders == MapInv => MemOf(map, Len(map)) \cap LoaderPages = {}
  <1> SUFFICES ASSUME MapInv, NEW p \in MemOf(map, Len(map)), p \in LoaderPages PROVE FALSE
    OBVIOUS
  <1> DEFINE n == Len(fw.entries)
  <1>1. /\ fw.entries \in Seq(Region)
        /\ \A j, k \in 1..n : j # k => RegionPages(fw.entries[j]) \cap RegionPages(fw.entries[k]) = {}
    BY LoaderAssumption DEF MapInv
  <1>2. n \in Nat /\ Len(map) = n
    BY <1>1 DEF MapInv, KernelMap
  <1>3. PICK j \in 1..n : map[j].avail /\ p \in Nat /\ p >= map[j].start /\ p < map[j].start + map[j].pages
    BY <1>2 DEF MemOf
  <1>4. PICK k \in 1..n : fw.entries[k].type = "loader" /\ p \in RegionPages(fw.entries[k])
    BY <1>1 DEF LoaderPages
  <1>5. /\ map[j].start = fw.entries[j].start /\ map[j].pages = fw.entries[j].pages
        /\ map[j].avail = IsMemoryAvailable(fw.entries[j])
    BY DEF MapInv, KernelMap
  <1>6. fw.entries[j].type # "loader"
    BY <1>3, <1>5 DEF IsMemoryAvailable
  <1>7. fw.entries[j] \in Region
    BY <1>1
  <1>8. p \in RegionPages(fw.entries[j])
    BY <1>3, <1>5, <1>7 DEF RegionPages, Region
  <1> QED
    BY <1>1, <1>4, <1>6, <1>8

\* For every map the firmware may leave: no page that Pmm_Malloc hands out lies in the
\* memory of the loader, where the kernel, its stack, its font and the descriptors are.
THEOREM LoaderMemoryKept == SysSpec => []LoaderDataKept
  <1>1. TypeOK /\ PagesMarked /\ Managed = MemOf(map, Len(map)) /\ MapInv => LoaderDataKept
    BY AvailableIsNotLoaders DEF TypeOK, PagesMarked, LoaderDataKept
  <1>2. SysSpec => []MapInv
    BY InitMapInv, SysMapInv, PTL DEF SysSpec
  <1> QED
    BY <1>1, <1>2, SysImplies, PmmTypes, PmmMarked, ManagedIsAvailable, PTL
=============================================================================
