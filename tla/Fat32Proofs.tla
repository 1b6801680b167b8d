---------------------------- MODULE Fat32Proofs ----------------------------
(***************************************************************************)
(* The FAT32 driver for every size of the volume, of the directories and   *)
(* of the files, whatever write fails and wherever the power is lost:      *)
(* FAT32_AllocCluster finds a free cluster if there is one; chains do not  *)
(* meet and end in an end mark; names stay unambiguous; entries other than *)
(* the one a removal names stay; no cluster is lost; and the chain of a    *)
(* file is as long as its size.                                            *)
(***************************************************************************)
EXTENDS Fat32, WellFoundedInduction, FiniteSetTheorems, TLAPS

\* The first match of a loop over an array exists when there is a match.
LEMMA Smallest ==
    ASSUME NEW S \in SUBSET Nat, S # {}
    PROVE  \E x \in S : \A y \in S : x <= y
  <1>1. PICK x \in S : \A y \in S : <<y, x>> \notin OpToRel(<, Nat)
    BY NatLessThanWellFounded, WFMin, Zenon
  <1>2. ASSUME NEW y \in S PROVE x <= y
    <2>1. <<y, x>> \in Nat \X Nat
      OBVIOUS
    <2>2. ~(y < x)
      BY <1>1, <2>1 DEF OpToRel
    <2> QED
      BY <2>2
  <1> QED
    BY <1>2

\* The hint is a number or unknown, also after a restart.
HintInv ==
    /\ fsinfo \in FsInfos
    /\ next_free_cluster \in Nat \cup {UNKNOWN}

\* The search of FAT32_AllocCluster looks at every cluster of the volume.
LEMMA ProbesCover ==
    ASSUME HintInv, NEW c \in Clusters
    PROVE  \E k \in 1..Len(Probes) : Probes[k] = c
  <1> USE Fat32Assumption DEF UNKNOWN
  <1> DEFINE T == TotalClusters
  <1>1. T \in Nat \ {0} /\ Start \in Nat /\ Start >= 2 /\ c \in Nat /\ c >= 2 /\ c <= T + 1
    BY DEF HintInv, Start, Clusters
  <1>2. CASE Start \in Clusters
    <2>1. Start <= T + 1
      BY <1>1, <1>2 DEF Clusters
    <2>2. Probes = [k \in 1..T |-> 2 + ((Start - 2 + k - 1) % T)]
      BY <1>2 DEF Probes
    <2>3. Len(Probes) = T
      BY <1>1, <2>2
    <2>4. CASE c >= Start
      <3>1. c - Start + 1 \in 1..T /\ Start - 2 + (c - Start + 1) - 1 = c - 2 /\ c - 2 \in 0..(T - 1)
        BY <1>1, <2>1, <2>4
      <3>2. (c - 2) % T = c - 2
        BY <1>1, <3>1
      <3>3. Probes[c - Start + 1] = c
        BY <1>1, <2>2, <3>1, <3>2
      <3> QED
        BY <2>3, <3>1, <3>3
    <2>5. CASE c < Start
      <3>1. c - Start + 1 + T \in 1..T /\ Start - 2 + (c - Start + 1 + T) - 1 = c - 2 + T /\ c - 2 \in 0..(T - 1)
        BY <1>1, <2>1, <2>5
      <3>2. (c - 2 + T) % T = c - 2
        BY <1>1, <3>1
      <3>3. Probes[c - Start + 1 + T] = c
        BY <1>1, <2>2, <3>1, <3>2
      <3> QED
        BY <2>3, <3>1, <3>3
    <2> QED
      BY <1>1, <2>4, <2>5
  <1>3. CASE Start \notin Clusters
    <2> DEFINE rest == [k \in 1..T |-> k + 1]
    <2>1. rest \in Seq(Nat) /\ Len(rest) = T /\ <<Start>> \in Seq(Nat) /\ Len(<<Start>>) = 1
      BY <1>1
    <2>2. Probes = <<Start>> \o rest
      BY <1>3 DEF Probes
    <2>3. c \in 1..Len(Probes) /\ Probes[c] = rest[c - 1]
      <3> HIDE DEF rest
      <3> QED
        BY <1>1, <2>1, <2>2
    <2>4. rest[c - 1] = c
      BY <1>1
    <2> QED
      BY <2>3, <2>4
  <1> QED
    BY <1>2, <1>3

LEMMA NoneFreeMeansNone ==
    ASSUME HintInv, NoneFree, NEW c \in Clusters PROVE fat[c] # FREE
  <1>1. PICK k \in 1..Len(Probes) : Probes[k] = c
    BY ProbesCover
  <1>2. c \in Table
    BY Fat32Assumption DEF Clusters, Table
  <1>3. k \notin FreeProbes
    BY DEF NoneFree
  <1> QED
    BY <1>1, <1>2, <1>3 DEF FreeProbes, IsFree

\* A cluster that was picked is a free one of the table.
LEMMA PickedIsFree ==
    ASSUME ~NoneFree PROVE Picked \in Table /\ fat[Picked] = FREE
  <1>1. FreeProbes \in SUBSET Nat /\ FreeProbes # {}
    BY DEF FreeProbes, NoneFree
  <1>2. \E k \in FreeProbes : \A l \in FreeProbes : k <= l
    BY <1>1, Smallest
  <1>3. PICK k \in FreeProbes : Picked = Probes[k]
    BY <1>2 DEF Picked
  <1> QED
    BY <1>3 DEF FreeProbes, IsFree

\* What a call of FAT32_AllocCluster does to the hint and to the history.
LEMMA AllocFacts ==
    ASSUME HintInv, NEW w, FAT32_AllocCluster(w)
    PROVE  /\ next_free_cluster' \in Nat \cup {UNKNOWN}
           /\ "full" \in mishap' /\ "full" \notin mishap => NoneFree
  <1>1. CASE NoneFree
    BY <1>1 DEF FAT32_AllocCluster, Info, HintInv
  <1>2. CASE ~NoneFree
    <2>1. Picked \in Nat
      BY <1>2, PickedIsFree, Fat32Assumption DEF Table
    <2> QED
      BY <1>2, <2>1 DEF FAT32_AllocCluster, HintInv, Noted
  <1> QED
    BY <1>1, <1>2

\* Every step keeps the hint's type, and runs full only when FAT32_AllocCluster finds nothing.
Searches == \E w \in Outcomes : FAT32_AllocCluster(w)
Quiet == next_free_cluster' \in {next_free_cluster, fsinfo.next} /\ ("full" \in mishap' => "full" \in mishap)

LEMMA StepKinds ==
    ASSUME HintInv, [Next]_vars
    PROVE  fsinfo' = fsinfo /\ (Searches \/ Quiet)
  <1> USE DEF disk, Info
  <1>1. CASE Step
    <2>1. CASE Extend \/ MakeDirCluster \/ GrowDir
      BY <2>1 DEF Extend, MakeDirCluster, GrowDir, Searches
    <2>2. CASE WriteData \/ Link
      BY <2>2 DEF WriteData, Link, Quiet, Noted
    <2>3. CASE Trim
      BY <2>3 DEF Trim, Quiet, Noted
    <2>4. CASE TrimUnread
      BY <2>4 DEF TrimUnread, Quiet
    <2>5. CASE FreeClusterChain
      BY <2>5 DEF FreeClusterChain, Quiet, TornBy
    <2>6. CASE WriteEntry \/ FillDirCluster
      BY <2>6 DEF WriteEntry, FillDirCluster, Quiet, Noted
    <2>7. CASE WriteSlot
      BY <2>7 DEF WriteSlot, Quiet, Noted
    <2>8. CASE AttachToDir
      BY <2>8 DEF AttachToDir, Quiet
    <2>9. CASE MarkDeleted
      BY <2>9 DEF MarkDeleted, Quiet, Noted
    <2> QED
      BY <1>1, <2>1, <2>2, <2>3, <2>4, <2>5, <2>6, <2>7, <2>8, <2>9 DEF Step
  <1>2. CASE Command
    <2>1. ASSUME NEW d, NEW n, CreateFile(d, n) \/ CreateDir(d, n) PROVE fsinfo' = fsinfo /\ Quiet
      BY <2>1 DEF CreateFile, CreateDir, NoteMisread, Quiet
    <2>2. ASSUME NEW d, NEW n, DeleteFile(d, n) \/ RemoveDir(d, n) PROVE fsinfo' = fsinfo /\ Quiet
      BY <2>2 DEF DeleteFile, RemoveDir, Removing, Quiet
    <2>3. ASSUME NEW d, NEW n, NEW m, RenameFile(d, n, m) PROVE fsinfo' = fsinfo /\ Quiet
      BY <2>3 DEF RenameFile, NoteMisread, Quiet, Noted
    <2> QED
      BY <1>2, <2>1, <2>2, <2>3, Zenon DEF Command
  <1>3. ASSUME NEW size \in Sizes, WriteFile(size) \/ AppendFile(size) PROVE fsinfo' = fsinfo /\ (Searches \/ Quiet)
    BY <1>3 DEF WriteFile, AppendFile, BeginFirst, Searches, Quiet
  <1>4. ASSUME NEW d, NEW n, OpenFile(d, n) PROVE fsinfo' = fsinfo /\ Quiet
    BY <1>4 DEF OpenFile, Quiet
  <1>5. CASE CloseFile
    BY <1>5 DEF CloseFile, Quiet
  <1>6. CASE PowerLoss
    BY <1>6 DEF PowerLoss, Quiet, TornBy
  <1>7. CASE UNCHANGED vars
    BY <1>7 DEF vars, Quiet
  <1> QED
    BY <1>1, <1>2, <1>3, <1>4, <1>5, <1>6, <1>7, Zenon DEF Next

LEMMA InitHint == Init => HintInv
  BY Fat32Assumption DEF Init, HintInv

LEMMA NextHint == HintInv /\ [Next]_vars => HintInv'
  <1> SUFFICES ASSUME HintInv, [Next]_vars PROVE HintInv'
    OBVIOUS
  <1>1. fsinfo' = fsinfo /\ (Searches \/ Quiet)
    BY StepKinds
  <1>2. fsinfo.next \in Nat \cup {UNKNOWN}
    BY Fat32Assumption DEF HintInv
  <1> QED
    BY <1>1, <1>2, AllocFacts DEF HintInv, Searches, Quiet

\* FAT32_AllocCluster, whose search begins at a hint that a restart sets back and that may lie
\* behind the last cluster, gives up only when every cluster of the volume is in use.
THEOREM FullVolume == Spec => FullMeansFull
  <1> DEFINE Full == "full" \in mishap' /\ "full" \notin mishap => \A c \in Clusters : fat[c] # FREE
  <1>1. HintInv /\ [Next]_vars => [Full]_vars
    <2> SUFFICES ASSUME HintInv, [Next]_vars, "full" \in mishap', "full" \notin mishap, NEW c \in Clusters
                 PROVE  fat[c] # FREE
      OBVIOUS
    <2>1. Searches
      BY StepKinds DEF Quiet
    <2>2. NoneFree
      BY <2>1, AllocFacts DEF Searches
    <2> QED
      BY <2>2, NoneFreeMeansNone
  <1> QED
    BY InitHint, NextHint, <1>1, PTL DEF Spec, FullMeansFull

-----------------------------------------------------------------------------
(***************************************************************************)
(* Chains.  What keeps them apart is local: no two entries of the table    *)
(* have the same successor, and no successor is free.  A cluster in use    *)
(* that is nobody's successor (an origin) is then the head of a chain      *)
(* without a cycle, which ends in an end mark, and chains of different     *)
(* origins have no cluster in common.                                      *)
(***************************************************************************)
FatTypes == fat \in [Table -> {FREE, EOF} \cup Table]
FatInv ==
    /\ FatTypes
    /\ \A a, b \in Table : fat[a] \in Table /\ fat[a] = fat[b] => a = b
    /\ \A a \in Table : fat[a] \in Table => fat[fat[a]] # FREE
Origin(c) == c \in Table /\ fat[c] # FREE /\ \A a \in Table : fat[a] # c

\* The number of entries of the table, the bound of a walk.
LEMMA TableSize ==
    /\ IsFiniteSet(Table) /\ Cardinality(Table) \in Nat \ {0}
    /\ EOF \notin Table /\ FREE \notin Table /\ Table \subseteq Nat /\ root_cluster \in Table /\ EOF # FREE
    /\ EOF \in Nat /\ \A c \in Table : c < EOF /\ c >= 2
  <1>1. EOF \in Nat /\ EOF # 0
    BY SMT DEF EOF
  <1>2. TotalClusters \in Nat \ {0} /\ Slack \in Nat /\ TotalClusters < EOF - Slack - 2
    BY SMT, Fat32Assumption
  <1>3. IsFiniteSet(Table) /\ Cardinality(Table) \in Nat \ {0}
    <2> DEFINE b == TotalClusters + 1 + Slack
    <2>1. 2 \in Int /\ b \in Int /\ b >= 2
      BY <1>2, SMT
    <2> HIDE DEF b
    <2>2. IsFiniteSet(2..b) /\ Cardinality(2..b) = b - 2 + 1
      BY <2>1, FS_Interval, SMT
    <2>3. Table = 2..b
      BY DEF b, Table
    <2> QED
      BY <2>1, <2>2, <2>3
  <1> QED
    BY <1>1, <1>2, <1>3, SMT DEF Table, FREE, root_cluster

LEMMA WalkExists ==
    ASSUME NEW c
    PROVE  Walk(c) = [k \in 1..Cardinality(Table) |->
                        IF k = 1 THEN c ELSE FAT32_NextCluster(Walk(c)[k - 1])]
  <1> DEFINE Is(g, n) == g = [k \in 1..n |-> IF k = 1 THEN c ELSE FAT32_NextCluster(g[k - 1])]
             bad == {n \in Nat : ~ \E g : Is(g, n)}
  <1>1. bad = {}
    <2>1. SUFFICES ASSUME bad # {} PROVE FALSE
      OBVIOUS
    <2>2. PICK n \in bad : \A k \in bad : n <= k
      <3>1. bad \in SUBSET Nat
        OBVIOUS
      <3> HIDE DEF bad
      <3> QED
        BY <2>1, <3>1, Smallest
    <2>3. CASE n = 0
      <3> DEFINE g == [k \in {} |-> c]
      <3>1. 1..0 = {}
        OBVIOUS
      <3>2. Is(g, 0)
        BY <3>1
      <3> QED
        BY <2>2, <2>3, <3>2
    <2>4. CASE n # 0
      <3>1. n \in Nat /\ n - 1 \in Nat /\ n - 1 \notin bad
        <4>1. bad \in SUBSET Nat
          OBVIOUS
        <4> HIDE DEF bad
        <4> QED
          BY <2>2, <2>4, <4>1
      <3>2. PICK f : Is(f, n - 1)
        BY <3>1
      <3> DEFINE g == [k \in 1..n |-> IF k = n THEN IF n = 1 THEN c ELSE FAT32_NextCluster(f[n - 1]) ELSE f[k]]
      <3>3. n \in 1..n /\ (n # 1 => g[n - 1] = f[n - 1])
        BY <2>4, <3>1
      <3>4. ASSUME NEW k \in 1..n
            PROVE  g[k] = IF k = 1 THEN c ELSE FAT32_NextCluster(g[k - 1])
        <4>1. CASE k = n
          BY <2>4, <3>1, <3>3, <4>1
        <4>2. CASE k # n
          <5>1. k \in 1..(n - 1) /\ g[k] = f[k]
            BY <3>1, <4>2
          <5>2. k # 1 => g[k - 1] = f[k - 1]
            BY <3>1, <4>2
          <5>3. f[k] = IF k = 1 THEN c ELSE FAT32_NextCluster(f[k - 1])
            <6> DEFINE h == [j \in 1..(n - 1) |-> IF j = 1 THEN c ELSE FAT32_NextCluster(f[j - 1])]
            <6>1. h[k] = IF k = 1 THEN c ELSE FAT32_NextCluster(f[k - 1])
              BY <5>1
            <6>2. f = h
              BY <3>2
            <6> HIDE DEF h
            <6> QED
              BY <6>1, <6>2
          <5> QED
            BY <5>1, <5>2, <5>3, Zenon
        <4> QED
          BY <4>1, <4>2
      <3>5. Is(g, n)
        BY <3>4, Zenon
      <3> QED
        BY <2>2, <3>5
    <2> QED
      BY <2>3, <2>4
  <1>2. PICK g : Is(g, Cardinality(Table))
    BY <1>1, TableSize
  <1> QED
    BY <1>2, Zenon DEF Walk

\* A walk is in the table up to some place and behind it no more.
LEMMA WalkEnds ==
    ASSUME NEW c, FatTypes
    PROVE  LET N == Cardinality(Table)
               at == Walk(c)
           IN  /\ DOMAIN at = 1..N /\ at[1] = c
               /\ \A k \in 2..N : at[k] = FAT32_NextCluster(at[k - 1])
               /\ \E m \in 0..N : \A k \in 1..N : at[k] \in Table <=> k <= m
  <1> DEFINE N == Cardinality(Table)
             at == Walk(c)
             out == {k \in 1..N : at[k] \notin Table}
             at2 == [k \in 1..N |-> IF k = 1 THEN c ELSE FAT32_NextCluster(at[k - 1])]
  <1>1. N \in Nat \ {0} /\ EOF \notin Table
    BY TableSize
  <1>2. at = at2
    BY WalkExists
  <1> HIDE DEF at
  <1>3. DOMAIN at = 1..N /\ at[1] = c /\ \A k \in 2..N : at[k] = FAT32_NextCluster(at[k - 1])
    <2>1. DOMAIN at2 = 1..N /\ at2[1] = c /\ \A k \in 2..N : at2[k] = FAT32_NextCluster(at[k - 1])
      BY <1>1
    <2> HIDE DEF at2
    <2> QED
      BY <1>2, <2>1
  <1>4. \E m \in 0..N : \A k \in 1..N : at[k] \in Table <=> k <= m
    <2>1. CASE out = {}
      BY <1>1, <2>1
    <2>2. CASE out # {}
      <3>1. out \in SUBSET Nat
        BY <1>1
      <3>2. PICK m \in out : \A k \in out : m <= k
        <4> HIDE DEF out
        <4> QED
          BY <2>2, <3>1, Smallest
      <3> DEFINE back == {k \in (m + 1)..N : at[k] \in Table}
      <3>3. back = {}
        <4>1. SUFFICES ASSUME back # {} PROVE FALSE
          OBVIOUS
        <4>2. back \in SUBSET Nat
          BY <1>1, <3>1, <3>2
        <4>3. PICK k \in back : \A l \in back : k <= l
          <5> HIDE DEF back
          <5> QED
            BY <4>1, <4>2, Smallest
        <4>4. m \in 1..N /\ k \in (m + 1)..N /\ at[k] \in Table /\ at[m] \notin Table
          BY <1>1, <3>2, <4>3
        <4>5. at[k - 1] \notin Table
          <5>1. CASE k = m + 1
            BY <4>4, <5>1
          <5>2. CASE k # m + 1
            <6>1. k - 1 \in (m + 1)..N /\ k - 1 < k
              BY <1>1, <4>4, <5>2
            <6> QED
              BY <4>3, <6>1
          <5> QED
            BY <5>1, <5>2
        <4>6. at[k] = FAT32_NextCluster(at[k - 1])
          BY <1>1, <1>3, <4>4
        <4> QED
          BY <1>1, <4>4, <4>5, <4>6 DEF FAT32_NextCluster
      <3>4. m - 1 \in 0..N /\ \A k \in 1..N : at[k] \in Table <=> k <= m - 1
        <4>1. ASSUME NEW k \in 1..N PROVE at[k] \in Table <=> k <= m - 1
          <5>1. m \in 1..N
            BY <3>2
          <5>2. CASE k < m
            <6>1. k \notin out
              BY <3>2, <5>1, <5>2
            <6> QED
              BY <5>1, <5>2, <6>1
          <5>3. CASE k = m
            BY <3>2, <5>1, <5>3
          <5>4. CASE k > m
            <6>1. k \in (m + 1)..N
              BY <1>1, <5>1, <5>4
            <6>2. at[k] \notin Table
              BY <3>3, <6>1
            <6> QED
              BY <5>1, <5>4, <6>2
          <5> QED
            BY <5>1, <5>2, <5>3, <5>4
        <4> QED
          BY <1>1, <3>2, <4>1
      <3> QED
        BY <3>4
    <2> QED
      BY <2>1, <2>2
  <1> QED
    BY <1>3, <1>4 DEF at

LEMMA ChainFacts ==
    ASSUME NEW c, FatTypes
    PROVE  LET ch == Chain(c)
           IN  /\ ch \in Seq(Table) /\ Len(ch) \in 0..Cardinality(Table)
               /\ c \in Table => Len(ch) >= 1 /\ ch[1] = c
               /\ \A k \in 2..Len(ch) : ch[k] = fat[ch[k - 1]]
               /\ Len(ch) \in 1..(Cardinality(Table) - 1) => fat[ch[Len(ch)]] \notin Table
  <1> DEFINE N == Cardinality(Table)
             at == Walk(c)
             ch == Chain(c)
  <1>1. N \in Nat \ {0}
    BY TableSize
  <1>2. PICK m \in 0..N : \A k \in 1..N : at[k] \in Table <=> k <= m
    BY WalkEnds
  <1>3. DOMAIN at = 1..N /\ at[1] = c /\ \A k \in 2..N : at[k] = FAT32_NextCluster(at[k - 1])
    BY WalkEnds
  <1> HIDE DEF at
  <1>4. {k \in DOMAIN at : at[k] \in Table} = 1..m
    BY <1>1, <1>2, <1>3
  <1>5. ch = [k \in 1..m |-> at[k]]
    BY <1>4 DEF Chain, at
  <1>6. ch \in Seq(Table) /\ Len(ch) = m /\ \A k \in 1..m : ch[k] = at[k]
    <2>1. \A k \in 1..m : at[k] \in Table
      BY <1>1, <1>2
    <2>2. m \in Nat
      BY <1>1, <1>2
    <2> HIDE DEF ch
    <2> QED
      BY <1>5, <2>1, <2>2
  <1> HIDE DEF ch
  <1>7. \A k \in 2..m : ch[k] = fat[ch[k - 1]]
    <2> SUFFICES ASSUME NEW k \in 2..m PROVE ch[k] = fat[ch[k - 1]]
      OBVIOUS
    <2>1. k \in 2..N /\ k - 1 \in 1..N /\ k \in 1..m /\ k - 1 \in 1..m /\ k - 1 <= m
      BY <1>1, <1>2
    <2>2. at[k - 1] \in Table /\ at[k] = FAT32_NextCluster(at[k - 1])
      BY <1>2, <1>3, <2>1
    <2> QED
      BY <1>6, <2>1, <2>2 DEF FAT32_NextCluster
  <1>8. c \in Table => m >= 1 /\ ch[1] = c
    BY <1>1, <1>2, <1>3, <1>6
  <1>9. m \in 1..(N - 1) => fat[ch[m]] \notin Table
    <2> SUFFICES ASSUME m \in 1..(N - 1) PROVE fat[ch[m]] \notin Table
      OBVIOUS
    <2>1. m + 1 \in 2..N /\ m + 1 \in 1..N /\ ~(m + 1 <= m) /\ m \in 1..N /\ m \in 1..m
      BY <1>1, <1>2
    <2>2. at[m + 1] \notin Table /\ at[m] \in Table /\ at[m + 1] = FAT32_NextCluster(at[m])
      <3>1. at[m + 1] = FAT32_NextCluster(at[(m + 1) - 1]) /\ (m + 1) - 1 = m
        BY <1>3, <2>1
      <3> QED
        BY <1>2, <2>1, <3>1
    <2> QED
      BY <1>6, <2>1, <2>2 DEF FAT32_NextCluster
  <1> QED
    BY <1>2, <1>6, <1>7, <1>8, <1>9 DEF ch

\* A directory of one cluster is its own chain.
LEMMA SingleChain ==
    ASSUME FatTypes, NEW c \in Table, fat[c] \notin Table
    PROVE  Chain(c) = <<c>>
  <1> DEFINE ch == Chain(c)
  <1>1. /\ ch \in Seq(Table) /\ Len(ch) >= 1 /\ ch[1] = c
        /\ \A k \in 2..Len(ch) : ch[k] = fat[ch[k - 1]]
    BY ChainFacts
  <1> HIDE DEF ch
  <1>2. Len(ch) = 1
    <2> SUFFICES ASSUME Len(ch) # 1 PROVE FALSE
      OBVIOUS
    <2>0. Len(ch) \in Nat /\ Len(ch) >= 1
      BY <1>1
    <2>1. 2 \in 2..Len(ch) /\ 2 \in 1..Len(ch)
      <3>1. \A n \in Nat : n >= 1 /\ n # 1 => 2 \in 2..n /\ 2 \in 1..n
        OBVIOUS
      <3> QED
        BY <2>0, <3>1
    <2>2. ch[2] = fat[ch[2 - 1]] /\ ch[2] \in Table /\ 2 - 1 = 1
      BY <1>1, <2>1
    <2> QED
      BY <1>1, <2>2
  <1>3. ch = <<c>>
    BY <1>1, <1>2
  <1> QED
    BY <1>3 DEF ch

\* The chain of an origin has no cycle, runs over clusters in use and ends in an end mark.
LEMMA OriginChain ==
    ASSUME FatInv, NEW s, Origin(s)
    PROVE  LET ch == Chain(s)
           IN  /\ ch \in Seq(Table) /\ Len(ch) >= 1 /\ ch[1] = s
               /\ \A k \in 2..Len(ch) : ch[k] = fat[ch[k - 1]]
               /\ \A k \in 1..Len(ch) : fat[ch[k]] # FREE
               /\ \A j, k \in 1..Len(ch) : ch[j] = ch[k] => j = k
               /\ fat[ch[Len(ch)]] = EOF
  <1> DEFINE ch == Chain(s)
             N == Cardinality(Table)
             L == Len(ch)
  <1>1. N \in Nat \ {0} /\ IsFiniteSet(Table)
    BY TableSize
  <1>2. /\ ch \in Seq(Table) /\ L \in 1..N /\ ch[1] = s
        /\ \A k \in 2..L : ch[k] = fat[ch[k - 1]]
        /\ L \in 1..(N - 1) => fat[ch[L]] \notin Table
    <2>1. s \in Table /\ FatTypes
      BY DEF Origin, FatInv
    <2> QED
      BY <1>1, <2>1, ChainFacts
  <1> HIDE DEF ch
  <1>3. \A k \in 1..L : ch[k] \in Table
    BY <1>2
  <1>4. \A k \in 1..L : fat[ch[k]] # FREE
    <2> SUFFICES ASSUME NEW k \in 1..L PROVE fat[ch[k]] # FREE
      OBVIOUS
    <2>1. CASE k = 1
      BY <1>2, <2>1 DEF Origin
    <2>2. CASE k # 1
      <3>1. k \in 2..L /\ k - 1 \in 1..L
        BY <1>1, <1>2, <2>2
      <3> QED
        BY <1>2, <1>3, <3>1 DEF FatInv
    <2> QED
      BY <2>1, <2>2
  <1>5. \A k \in 2..L : ch[k] # s
    <2> SUFFICES ASSUME NEW k \in 2..L PROVE ch[k] # s
      OBVIOUS
    <2>1. k - 1 \in 1..L
      BY <1>1, <1>2
    <2> QED
      BY <1>2, <1>3, <2>1 DEF Origin
  <1>6. \A j, k \in 2..L : ch[j] = ch[k] => ch[j - 1] = ch[k - 1]
    <2> SUFFICES ASSUME NEW j \in 2..L, NEW k \in 2..L, ch[j] = ch[k] PROVE ch[j - 1] = ch[k - 1]
      OBVIOUS
    <2>1. j - 1 \in 1..L /\ k - 1 \in 1..L /\ j \in 1..L
      BY <1>1, <1>2
    <2>2. /\ ch[j - 1] \in Table /\ ch[k - 1] \in Table
          /\ fat[ch[j - 1]] = fat[ch[k - 1]] /\ fat[ch[j - 1]] \in Table
      BY <1>2, <1>3, <2>1
    <2> QED
      BY <2>2 DEF FatInv
  <1>7. \A j, k \in 1..L : ch[j] = ch[k] => j = k
    <2> DEFINE bad == {j \in 1..L : \E k \in 1..L : j < k /\ ch[j] = ch[k]}
    <2>1. bad = {}
      <3> SUFFICES ASSUME bad # {} PROVE FALSE
        OBVIOUS
      <3>1. bad \in SUBSET Nat
        BY <1>1, <1>2
      <3>2. PICK j \in bad : \A k \in bad : j <= k
        <4> HIDE DEF bad
        <4> QED
          BY <3>1, Smallest
      <3>3. PICK k \in 1..L : j < k /\ ch[j] = ch[k]
        BY <3>2
      <3>4. j \in 1..L /\ k \in 2..L
        BY <1>1, <1>2, <3>2, <3>3
      <3>5. j # 1
        BY <1>2, <1>5, <3>3, <3>4
      <3>6. j \in 2..L /\ j - 1 \in 1..L /\ k - 1 \in 1..L /\ j - 1 < k - 1
        BY SMTT(30), <1>1, <1>2, <3>3, <3>4, <3>5
      <3>7. j - 1 \in bad
        BY <1>6, <3>3, <3>4, <3>6
      <3> QED
        BY <3>2, <3>6, <3>7
    <2> SUFFICES ASSUME NEW j \in 1..L, NEW k \in 1..L, ch[j] = ch[k], j # k PROVE FALSE
      OBVIOUS
    <2>2. j < k \/ k < j
      BY <1>1, <1>2
    <2> QED
      BY <2>1, <2>2
  <1>8. fat[ch[L]] = EOF
    <2>1. L \in 1..L /\ L \in Nat
      BY <1>1, <1>2
    <2>2. fat[ch[L]] \in {EOF} \cup Table
      BY <1>3, <1>4, <2>1 DEF FatInv, FatTypes
    <2> SUFFICES ASSUME fat[ch[L]] \in Table PROVE FALSE
      BY <2>2
    <2>3. L = N
      BY <1>1, <1>2
    <2> DEFINE g == [k \in 1..(N + 1) |-> IF k <= N THEN ch[k] ELSE fat[ch[L]]]
    <2>4. g \in [1..(N + 1) -> Table]
      BY <1>1, <1>3, <2>3
    <2>5. IsFiniteSet(1..(N + 1)) /\ Cardinality(1..(N + 1)) = N + 1
      <3> DEFINE b == N + 1
      <3>1. 1 \in Int /\ b \in Int /\ b >= 1
        BY <1>1
      <3> HIDE DEF b
      <3>2. IsFiniteSet(1..b) /\ Cardinality(1..b) = b
        BY <3>1, FS_Interval
      <3> QED
        BY <3>2 DEF b
    <2>6. PICK x, y \in 1..(N + 1) : x # y /\ g[x] = g[y]
      <3> HIDE DEF g
      <3>1. Cardinality(Table) < Cardinality(1..(N + 1))
        BY <1>1, <2>5
      <3> QED
        BY <1>1, <2>4, <2>5, <3>1, FS_PigeonHole
    <2>7. \E x1 \in 1..L : ch[x1] = fat[ch[L]]
      <3>1. CASE x <= N /\ y <= N
        <4>1. x \in 1..L /\ y \in 1..L /\ ch[x] = ch[y]
          BY <1>1, <2>3, <2>6, <3>1
        <4> QED
          BY <1>7, <2>6, <4>1
      <3>2. CASE x <= N /\ ~(y <= N)
        BY <1>1, <2>3, <2>6, <3>2
      <3>3. CASE ~(x <= N) /\ y <= N
        BY <1>1, <2>3, <2>6, <3>3
      <3>4. CASE ~(x <= N) /\ ~(y <= N)
        BY <1>1, <2>6, <3>4
      <3> QED
        BY <3>1, <3>2, <3>3, <3>4
    <2>8. PICK z \in 1..L : ch[z] = fat[ch[L]]
      BY <2>7
    <2>9. CASE z = 1
      BY <1>2, <1>3, <2>1, <2>8, <2>9 DEF Origin
    <2>10. CASE z # 1
      <3>1. z \in 2..L /\ z - 1 \in 1..L /\ z - 1 # L
        BY <2>1, <2>10
      <3>2. fat[ch[z - 1]] = fat[ch[L]]
        BY <1>2, <2>8, <3>1
      <3>3. ch[z - 1] = ch[L]
        BY <1>3, <2>1, <3>1, <3>2 DEF FatInv
      <3> QED
        BY <1>7, <2>1, <3>1, <3>3
    <2> QED
      BY <2>9, <2>10
  <1>9. L >= 1
    BY <1>1, <1>2
  <1> QED
    BY <1>2, <1>4, <1>7, <1>8, <1>9 DEF ch

\* Chains of two origins do not meet.
LEMMA OriginsApart ==
    ASSUME FatInv, NEW s, NEW t, Origin(s), Origin(t), s # t
    PROVE  Clus(Chain(s)) \cap Clus(Chain(t)) = {}
  <1> DEFINE a == Chain(s)
             b == Chain(t)
             met == {j \in 1..Len(a) : \E k \in 1..Len(b) : a[j] = b[k]}
  <1>1. /\ a \in Seq(Table) /\ Len(a) >= 1 /\ a[1] = s /\ \A k \in 2..Len(a) : a[k] = fat[a[k - 1]]
        /\ b \in Seq(Table) /\ Len(b) >= 1 /\ b[1] = t /\ \A k \in 2..Len(b) : b[k] = fat[b[k - 1]]
    BY OriginChain
  <1> HIDE DEF a, b
  <1>2. Len(a) \in Nat /\ Len(b) \in Nat
    BY <1>1
  <1>3. met = {}
    <2> SUFFICES ASSUME met # {} PROVE FALSE
      OBVIOUS
    <2>1. met \in SUBSET Nat
      BY <1>2
    <2>2. PICK j \in met : \A k \in met : j <= k
      <3> HIDE DEF met
      <3> QED
        BY <2>1, Smallest
    <2>3. PICK k \in 1..Len(b) : a[j] = b[k]
      BY <2>2
    <2>4. j \in 1..Len(a)
      BY <2>2
    <2>5. ASSUME NEW i \in 2..Len(a) PROVE i - 1 \in 1..Len(a) /\ a[i] \in Table /\ a[i - 1] \in Table /\ a[i] = fat[a[i - 1]]
      BY <1>1, <1>2
    <2>6. ASSUME NEW i \in 2..Len(b) PROVE i - 1 \in 1..Len(b) /\ b[i] \in Table /\ b[i - 1] \in Table /\ b[i] = fat[b[i - 1]]
      BY <1>1, <1>2
    <2>7. CASE j = 1 /\ k = 1
      BY <1>1, <2>3, <2>7
    <2>8. CASE j = 1 /\ k # 1
      <3>1. k \in 2..Len(b)
        BY <1>2, <2>3, <2>8
      <3> QED
        BY <1>1, <2>3, <2>6, <2>8, <3>1 DEF Origin
    <2>9. CASE j # 1 /\ k = 1
      <3>1. j \in 2..Len(a)
        BY <1>2, <2>4, <2>9
      <3> QED
        BY <1>1, <2>3, <2>5, <2>9, <3>1 DEF Origin
    <2>10. CASE j # 1 /\ k # 1
      <3>1. j \in 2..Len(a) /\ k \in 2..Len(b)
        BY <1>2, <2>3, <2>4, <2>10
      <3>2. a[j - 1] = b[k - 1]
        <4>1. /\ a[j - 1] \in Table /\ b[k - 1] \in Table
              /\ fat[a[j - 1]] = fat[b[k - 1]] /\ fat[a[j - 1]] \in Table
          BY <2>3, <2>5, <2>6, <3>1
        <4> QED
          BY <4>1 DEF FatInv
      <3>3. j - 1 \in met
        BY <2>5, <2>6, <3>1, <3>2
      <3> QED
        BY <1>2, <2>2, <3>1, <3>3
    <2> QED
      BY <2>7, <2>8, <2>9, <2>10
  <1> QED
    BY <1>3 DEF Clus, a, b

-----------------------------------------------------------------------------
(***************************************************************************)
(* The volume.  A directory never grows beyond its first cluster (its      *)
(* growth goes astray, see AttachToDir), so it is the slots of one         *)
(* cluster, and what the invariant says of it can be said of its slots.    *)
(***************************************************************************)
Slots == 1..EntryCount
SlotValues == Entries \cup {End, Deleted, Dots}

\* The root and the directories named in it.
Dirs == {root_cluster} \cup
        {dirs[root_cluster][i].start : i \in {j \in Slots : dirs[root_cluster][j].kind = "dir"}}

\* Slot i of d answers to 8.3 name s, and is the first to do so.
Answers(d, i, s) == IsEntry(dirs[d][i]) /\ dirs[d][i].sfn = s
FirstAt(d, i, s) == Answers(d, i, s) /\ \A j \in 1..(i - 1) : ~Answers(d, j, s)

\* A long name goes with its 8.3 name; only a file may have no cluster, and then no size.
Proper(e) ==
    /\ e.long # NoName => e.sfn = name_to_83[e.long]
    /\ e.start = 0 => e.size = 0 /\ e.kind # "dir"

DirInv ==
    /\ dirs \in [Table -> [Slots -> SlotValues]]
    /\ \A d \in Dirs :
         /\ d \in Table /\ fat[d] \notin Table
         /\ \A i, j \in Slots : i <= j /\ dirs[d][i] = End => dirs[d][j] = End
         /\ \A i \in Slots : IsEntry(dirs[d][i]) => Proper(dirs[d][i])
         /\ d # root_cluster => \A i \in Slots : dirs[d][i].kind # "dir"

LEMMA SlotKinds ==
    ASSUME NEW s \in SlotValues
    PROVE  /\ IsEntry(s) <=> s \in Entries
           /\ Usable(s) => ~IsEntry(s)
           /\ s = End => Usable(s)
  BY SMT DEF SlotValues, Entries, End, Deleted, Dots, IsEntry, Usable

LEMMA FirstOf ==
    ASSUME NEW I \in SUBSET Slots, NEW i \in I, \A j \in I : i <= j
    PROVE  First({<<1, j>> : j \in I}) = <<1, i>>
  <1> DEFINE P == {<<1, j>> : j \in I}
             q == First(P)
  <1>1. \A j \in I : j \in Int
    BY DEF Slots
  <1>2. <<1, i>> \in P /\ \A r \in P : Before(<<1, i>>, r)
    BY <1>1 DEF Before
  <1>3. q \in P /\ \A r \in P : Before(q, r)
    <2> HIDE DEF P
    <2> QED
      BY <1>2 DEF First
  <1>4. PICK j \in I : q = <<1, j>>
    BY <1>3
  <1>5. Before(<<1, j>>, <<1, i>>)
    BY <1>2, <1>3, <1>4
  <1>6. j <= i /\ i <= j
    BY <1>1, <1>5 DEF Before
  <1>7. j = i
    BY <1>1, <1>6
  <1> QED
    BY <1>4, <1>7

\* Reading a directory, in terms of its slots.
LEMMA DirSlots ==
    ASSUME FatInv, DirInv, NEW d \in Dirs
    PROVE  /\ d \in Table /\ Chain(d) = <<d>>
           /\ \A i \in Slots : Slot(d, <<1, i>>) = dirs[d][i]
           /\ Shown(d) = {j \in Slots : dirs[d][j] # End}
           /\ EntriesOf(d) = {<<1, i>> : i \in {j \in Slots : IsEntry(dirs[d][j])}}
           /\ FreePlaces(d) = {<<1, i>> : i \in {j \in Slots : Usable(dirs[d][j])}}
           /\ \A n \in Names : Hits(d, n) = {<<1, i>> : i \in {j \in Slots : Answers(d, j, name_to_83[n])}}
  <1>1. /\ d \in Table /\ fat[d] \notin Table /\ FatTypes
        /\ \A i \in Slots : dirs[d][i] \in SlotValues
        /\ \A i, j \in Slots : i <= j /\ dirs[d][i] = End => dirs[d][j] = End
        /\ \A i \in Slots : IsEntry(dirs[d][i]) => Proper(dirs[d][i])
    BY DEF DirInv, FatInv
  <1>2. Chain(d) = <<d>>
    BY <1>1, SingleChain
  <1>3. \A i \in Slots : Slot(d, <<1, i>>) = dirs[d][i]
    BY <1>2 DEF Slot
  <1>4. (1..Len(Chain(d))) \X (1..EntryCount) = {<<1, i>> : i \in Slots}
    <2>1. Len(Chain(d)) = 1 /\ 1..1 = {1}
      BY <1>2
    <2>2. {1} \X Slots = {<<1, i>> : i \in Slots}
      OBVIOUS
    <2> QED
      BY <2>1, <2>2 DEF Slots
  <1>10. Shown(d) = {j \in Slots : dirs[d][j] # End}
    <2>1. \A i \in Slots : (\A j \in 1..i : dirs[d][j] # End) <=> dirs[d][i] # End
      <3> SUFFICES ASSUME NEW i \in Slots PROVE (\A j \in 1..i : dirs[d][j] # End) <=> dirs[d][i] # End
        OBVIOUS
      <3>1. i \in 1..i /\ \A j \in 1..i : j \in Slots /\ j <= i
        BY Fat32Assumption DEF Slots
      <3> QED
        BY <1>1, <3>1
    <2> QED
      BY <2>1 DEF Slots, Shown
  <1>5. Places(d) = {<<1, i>> : i \in {j \in Slots : dirs[d][j] # End}}
    <2>3. Places(d) = {p \in (1..Len(Chain(d))) \X (1..EntryCount) : p[2] \in Shown(Chain(d)[p[1]])}
      BY DEF Places
    <2>4. \A p \in {<<1, i>> : i \in Slots} : Chain(d)[p[1]] = d
      BY <1>2
    <2> DEFINE S == {j \in Slots : dirs[d][j] # End}
    <2>5. Places(d) = {p \in {<<1, i>> : i \in Slots} : p[2] \in S}
      BY <1>4, <1>10, <2>3, <2>4
    <2>6. S \in SUBSET Slots
      OBVIOUS
    <2> HIDE DEF S
    <2>7. {p \in {<<1, i>> : i \in Slots} : p[2] \in S} = {<<1, i>> : i \in S}
      BY <2>6
    <2> QED
      BY <2>5, <2>7 DEF S
  <1>6. \A i \in Slots : IsEntry(dirs[d][i]) => dirs[d][i] # End
    BY <1>1, SlotKinds
  <1>7. EntriesOf(d) = {<<1, i>> : i \in {j \in Slots : IsEntry(dirs[d][j])}}
    BY <1>3, <1>5, <1>6 DEF EntriesOf
  <1>8. FreePlaces(d) = {<<1, i>> : i \in {j \in Slots : Usable(dirs[d][j])}}
    BY <1>3, <1>4 DEF FreePlaces
  <1>9. ASSUME NEW n \in Names
        PROVE  Hits(d, n) = {<<1, i>> : i \in {j \in Slots : Answers(d, j, name_to_83[n])}}
    <2>1. \A i \in Slots : Matches(dirs[d][i], n) <=> Answers(d, i, name_to_83[n])
      <3>1. n # NoName
        BY Fat32Assumption
      <3> QED
        BY <1>1, <3>1 DEF Matches, Answers, Proper
    <2>2. \A i \in Slots : Answers(d, i, name_to_83[n]) => dirs[d][i] # End
      BY <1>6 DEF Answers
    <2> QED
      BY <1>3, <1>5, <2>1, <2>2 DEF Hits
  <1> QED
    BY <1>1, <1>2, <1>3, <1>7, <1>8, <1>9, <1>10

\* Looking a name up: the first slot that answers to its 8.3 name.
LEMMA FirstExists ==
    ASSUME NEW d, NEW i \in Slots, NEW s, Answers(d, i, s)
    PROVE  \E j \in Slots : FirstAt(d, j, s)
  <1> DEFINE I == {j \in Slots : Answers(d, j, s)}
  <1>1. I \in SUBSET Nat /\ I # {}
    BY DEF Slots
  <1>2. PICK j \in I : \A k \in I : j <= k
    <2> HIDE DEF I
    <2> QED
      BY <1>1, Smallest
  <1>3. j \in Slots /\ Answers(d, j, s)
    OBVIOUS
  <1>4. ASSUME NEW k \in 1..(j - 1) PROVE ~Answers(d, k, s)
    <2>1. k \in Slots /\ ~(j <= k)
      BY <1>3, Fat32Assumption DEF Slots
    <2> QED
      BY <1>2, <2>1
  <1> QED
    BY <1>3, <1>4 DEF FirstAt

LEMMA FirstUnique ==
    ASSUME NEW d, NEW i \in Slots, NEW j \in Slots, NEW s, FirstAt(d, i, s), Answers(d, j, s)
    PROVE  i <= j /\ (FirstAt(d, j, s) => i = j)
  BY DEF FirstAt, Slots

LEMMA Lookup ==
    ASSUME FatInv, DirInv, NEW d \in Dirs, NEW n \in Names
    PROVE  /\ Found(d, n) => \E i \in Slots : FirstAt(d, i, name_to_83[n])
           /\ \A i \in Slots : FirstAt(d, i, name_to_83[n]) =>
                /\ Found(d, n)
                /\ First(Hits(d, n)) = <<1, i>>
                /\ FAT32_FindEntryAny(d, n) = dirs[d][i]
  <1> DEFINE s == name_to_83[n]
             I == {j \in Slots : Answers(d, j, s)}
  <1>1. Hits(d, n) = {<<1, i>> : i \in I} /\ \A i \in Slots : Slot(d, <<1, i>>) = dirs[d][i]
    BY DirSlots
  <1>2. Found(d, n) => \E i \in Slots : FirstAt(d, i, s)
    BY <1>1, FirstExists DEF Found
  <1>3. ASSUME NEW i \in Slots, FirstAt(d, i, s)
        PROVE  Found(d, n) /\ First(Hits(d, n)) = <<1, i>> /\ FAT32_FindEntryAny(d, n) = dirs[d][i]
    <2>1. i \in I /\ \A j \in I : i <= j
      BY <1>3, FirstUnique DEF FirstAt
    <2>2. I \in SUBSET Slots
      OBVIOUS
    <2>3. First(Hits(d, n)) = <<1, i>> /\ Hits(d, n) # {}
      <3> HIDE DEF I
      <3> QED
        BY <1>1, <2>1, <2>2, FirstOf
    <2> QED
      BY <1>1, <2>3 DEF Found, FAT32_FindEntryAny
  <1> QED
    BY <1>2, <1>3

\* Where FAT32_WriteDirEntry writes, and where a new entry goes.
LEMMA Rewriting ==
    ASSUME FatInv, DirInv, NEW d \in Dirs, NEW e, NEW i \in Slots, FirstAt(d, i, e.sfn)
    PROVE  Overwritten(d, e) = [dirs EXCEPT ![d][i] = e]
  <1> DEFINE I == {j \in Slots : Answers(d, j, e.sfn)}
             same == {p \in EntriesOf(d) : Slot(d, p).sfn = e.sfn}
  <1>1. same = {<<1, j>> : j \in I}
    BY DirSlots DEF Answers
  <1>2. i \in I /\ \A j \in I : i <= j
    BY FirstUnique DEF FirstAt
  <1>3. I \in SUBSET Slots
    OBVIOUS
  <1>4. First(same) = <<1, i>> /\ same # {}
    <2> HIDE DEF I
    <2> QED
      BY <1>1, <1>2, <1>3, FirstOf
  <1>5. Overwritten(d, e) = [dirs EXCEPT ![Chain(d)[First(same)[1]]][First(same)[2]] = e]
    BY <1>4 DEF Overwritten
  <1>6. Chain(d)[First(same)[1]] = d /\ First(same)[2] = i
    BY <1>4, DirSlots
  <1> QED
    BY <1>5, <1>6

LEMMA FreeSlot ==
    ASSUME FatInv, DirInv, NEW d \in Dirs, FreePlaces(d) # {}
    PROVE  \E i \in Slots : /\ First(FreePlaces(d)) = <<1, i>>
                            /\ Usable(dirs[d][i])
                            /\ \A j \in 1..(i - 1) : ~Usable(dirs[d][j])
  <1> DEFINE I == {j \in Slots : Usable(dirs[d][j])}
  <1>1. FreePlaces(d) = {<<1, j>> : j \in I}
    BY DirSlots
  <1>2. I \in SUBSET Slots /\ I \in SUBSET Nat /\ I # {}
    BY <1>1 DEF Slots
  <1>3. PICK i \in I : \A j \in I : i <= j
    <2> HIDE DEF I
    <2> QED
      BY <1>2, Smallest
  <1>4. First(FreePlaces(d)) = <<1, i>>
    <2> HIDE DEF I
    <2> QED
      BY <1>1, <1>2, <1>3, FirstOf
  <1>5. i \in Slots /\ Usable(dirs[d][i])
    OBVIOUS
  <1>6. ASSUME NEW j \in 1..(i - 1) PROVE ~Usable(dirs[d][j])
    <2>1. j \in Slots /\ ~(i <= j)
      BY <1>5, Fat32Assumption DEF Slots
    <2> QED
      BY <1>3, <2>1
  <1> QED
    BY <1>4, <1>5, <1>6

\* A directory that is_dir_empty accepts has no entry in any slot.
LEMMA EmptyDir ==
    ASSUME FatInv, DirInv, NEW d \in Dirs, is_dir_empty(d), NEW i \in Slots
    PROVE  ~IsEntry(dirs[d][i])
  <1> SUFFICES ASSUME IsEntry(dirs[d][i]) PROVE FALSE
    OBVIOUS
  <1>1. <<1, i>> \in EntriesOf(d)
    BY DirSlots
  <1>2. PICK q \in FreePlaces(d) : Slot(d, q) = End /\ Before(q, <<1, i>>)
    BY <1>1 DEF is_dir_empty
  <1>3. PICK j \in Slots : q = <<1, j>>
    BY <1>2, DirSlots
  <1>4. j <= i /\ dirs[d][j] = End
    BY <1>2, <1>3, DirSlots DEF Before, Slots
  <1>5. dirs[d][i] = End /\ dirs[d][i] \in SlotValues
    BY <1>4 DEF DirInv
  <1> QED
    BY <1>5, SlotKinds

\* The directories the commands reach are directories of the volume.
LEMMA DirsNamed ==
    ASSUME FatInv, DirInv
    PROVE  /\ AllDirs = Dirs
           /\ OpenDirs \subseteq Dirs
           /\ root_cluster \in Dirs
  <1>1. root_cluster \in Dirs
    BY DEF Dirs
  <1>2. AllDirs = Dirs
    <2>1. \A i \in Slots : dirs[root_cluster][i].kind = "dir" => IsEntry(dirs[root_cluster][i])
      BY DEF IsEntry
    <2> DEFINE I == {j \in Slots : dirs[root_cluster][j].kind = "dir"}
               P == {q \in EntriesOf(root_cluster) : Slot(root_cluster, q).kind = "dir"}
    <2>2. /\ \A i \in Slots : Slot(root_cluster, <<1, i>>) = dirs[root_cluster][i]
          /\ EntriesOf(root_cluster) = {<<1, i>> : i \in {j \in Slots : IsEntry(dirs[root_cluster][j])}}
      BY <1>1, DirSlots
    <2>3. P = {<<1, i>> : i \in I}
      BY <2>1, <2>2
    <2>4. I \in SUBSET Slots
      OBVIOUS
    <2>5. {Slot(root_cluster, p).start : p \in P} = {dirs[root_cluster][i].start : i \in I}
      <3> HIDE DEF P, I
      <3>1. ASSUME NEW i \in I PROVE <<1, i>> \in P /\ Slot(root_cluster, <<1, i>>).start = dirs[root_cluster][i].start
        BY <2>2, <2>3, <2>4
      <3>2. ASSUME NEW p \in P PROVE \E i \in I : Slot(root_cluster, p).start = dirs[root_cluster][i].start
        BY <2>2, <2>3, <2>4
      <3> DEFINE L == {Slot(root_cluster, p).start : p \in P}
                 R == {dirs[root_cluster][i].start : i \in I}
      <3>3. ASSUME NEW x \in L PROVE x \in R
        BY <3>2
      <3>4. ASSUME NEW x \in R PROVE x \in L
        <4>1. PICK i \in I : x = dirs[root_cluster][i].start
          OBVIOUS
        <4> QED
          BY <3>1, <4>1
      <3>5. L = R
        <4> HIDE DEF L, R
        <4> QED
          BY <3>3, <3>4
      <3> QED
        BY <3>5
    <2> QED
      BY <2>5 DEF AllDirs, Dirs
  <1>3. ASSUME NEW d \in OpenDirs PROVE d \in Dirs
    <2> SUFFICES ASSUME d # root_cluster PROVE d \in Dirs
      BY <1>1
    <2>1. PICK n \in Names : /\ Found(root_cluster, n) /\ FAT32_FindEntryAny(root_cluster, n).kind = "dir"
                             /\ d = FAT32_FindEntryAny(root_cluster, n).start
      BY <1>3 DEF OpenDirs
    <2>2. PICK i \in Slots : FAT32_FindEntryAny(root_cluster, n) = dirs[root_cluster][i]
      BY <1>1, <2>1, Lookup
    <2> QED
      BY <2>1, <2>2 DEF Dirs
  <1> QED
    BY <1>1, <1>2, <1>3

-----------------------------------------------------------------------------
(***************************************************************************)
(* The inductive invariant.  Every entry but the one being removed heads a *)
(* chain of its own; the clusters a call holds in its local variables and  *)
(* has not linked yet head chains nobody names.  It holds until a removal  *)
(* is cut short.                                                           *)
(***************************************************************************)
Refers(d, i, c) == IsEntry(dirs[d][i]) /\ dirs[d][i].start = c
Loose(c) == Origin(c) /\ c # root_cluster /\ \A d \in Dirs, i \in Slots : ~Refers(d, i, c)
Unlinked(c) == Loose(c) /\ fat[c] = EOF

DoomedAt(d, i) == Removal /\ d = op.d /\ FirstAt(d, i, name_to_83[op.n])

HeadInv ==
    /\ Origin(root_cluster)
    /\ \A d \in Dirs, i \in Slots : ~Refers(d, i, root_cluster)
    /\ \A d \in Dirs, i \in Slots :
         IsEntry(dirs[d][i]) /\ dirs[d][i].start # 0 /\ ~DoomedAt(d, i) => Origin(dirs[d][i].start)
    /\ \A d, e \in Dirs, i, j \in Slots, c \in Table : Refers(d, i, c) /\ Refers(e, j, c) => d = e /\ i = j

\* The open file: its first cluster is the one its entry names, or still unnamed.
OpenEntry(d, i) ==
    /\ FirstAt(d, i, file.entry.sfn) /\ dirs[d][i].kind = file.entry.kind
    /\ dirs[d][i].start \in {0, file.entry.start}
    /\ dirs[d][i].start # file.entry.start => Loose(file.entry.start)
OpenInv ==
    file.open => /\ file \in [open : BOOLEAN, dir : Table, entry : Entries]
                 /\ file.dir \in Dirs /\ Proper(file.entry)
                 /\ \E i \in Slots : OpenEntry(file.dir, i)

Writing == op.call \in {"write", "append"}
Creating == op.call \in {"create", "mkdir"}

\* A cluster of the open file that is written to: not free and no directory.
Held(c) == c \in Table /\ fat[c] # FREE /\ c \notin Dirs

WritingInv ==
    Writing =>
      /\ file.open /\ file.entry.kind = "file"
      /\ op.pc \in {"data", "extend", "link", "trim", "free", "entry"}
      /\ op.written <= op.size /\ op.offset < UnitsPerCluster
      /\ file.entry.start = 0 => op.call = "write" /\ op.written = 0 /\ op.pc \in {"trim", "entry"}
      /\ op.pc \in {"data", "extend", "link"} => Held(op.cluster)
      /\ op.pc = "trim" /\ file.entry.start # 0 => Held(op.cluster)
      /\ op.pc \in {"extend", "link"} => fat[op.cluster] = EOF
      /\ op.pc = "data" /\ op.call = "append" => fat[op.cluster] = EOF
      /\ op.pc = "link" => Unlinked(op.next) /\ op.next # op.cluster /\ op.next # file.entry.start
      /\ op.pc = "free" => Loose(op.next) /\ op.next # file.entry.start

CreatingInv ==
    Creating =>
      /\ ~file.open /\ op.d \in Dirs /\ op.n \in Names
      /\ op.pc \in {"mkdir", "fill", "slot", "grow", "attach"}
      /\ op.call = "create" => op.cluster = 0 /\ op.pc \notin {"mkdir", "fill"}
      /\ op.call = "mkdir" => op.d = root_cluster
      /\ op.call = "mkdir" /\ op.pc # "mkdir" => Unlinked(op.cluster)
      /\ op.call = "mkdir" /\ op.pc \notin {"mkdir", "fill"} => dirs[op.cluster] = NewDir
      /\ op.pc = "attach" => Unlinked(op.next) /\ op.next # op.cluster

\* The chain under the entry being removed is freed from its head on.
RemovalInv ==
    Removal =>
      /\ ~file.open /\ op.d \in Dirs /\ op.n \in Names
      /\ op.pc \in {"free", "mark"}
      /\ \E i \in Slots :
           LET s == dirs[op.d][i].start
           IN  /\ FirstAt(op.d, i, name_to_83[op.n])
               /\ op.pc = "free" => /\ s # 0
                                    /\ \/ op.next = s /\ Origin(s)
                                       \/ fat[s] = FREE /\ Loose(op.next)
               /\ op.pc = "mark" /\ s # 0 => fat[s] = FREE

OpInv ==
    /\ op \in Frame
    /\ op.call = "none" => op.pc \in {"idle", "hung"}
    /\ op.pc = "idle" => op = Idle
    /\ WritingInv /\ CreatingInv /\ RemovalInv

Volume == FatInv /\ DirInv /\ HeadInv /\ OpenInv /\ OpInv
VolumeInv == Clean({"torn"}) => Volume

-----------------------------------------------------------------------------
\* The four things a step does to the table: it takes a free cluster,
LEMMA FatAlloc ==
    ASSUME FatInv, NEW c \in Table, fat[c] = FREE, fat' = [fat EXCEPT ![c] = EOF]
    PROVE  /\ FatInv' /\ Origin(c)' /\ fat'[c] = EOF
           /\ \A x : Origin(x) => Origin(x)'
           /\ \A x \in Table : x # c => fat'[x] = fat[x]
  <1> USE TableSize
  <1>1. \A x \in Table : fat'[x] = IF x = c THEN EOF ELSE fat[x]
    BY DEF FatInv, FatTypes
  <1>2. \A a \in Table : fat[a] # c
    BY DEF FatInv
  <1>3. FatInv'
    BY <1>1, <1>2 DEF FatInv, FatTypes
  <1> QED
    BY <1>1, <1>2, <1>3 DEF Origin

\* links one behind the end of another chain,
LEMMA FatLink ==
    ASSUME FatInv, NEW a \in Table, NEW b, fat[a] = EOF, Origin(b), fat' = [fat EXCEPT ![a] = b]
    PROVE  /\ FatInv'
           /\ \A x : Origin(x) /\ x # b => Origin(x)'
           /\ \A x \in Table : x # a => fat'[x] = fat[x]
  <1> USE TableSize
  <1>1. \A x \in Table : fat'[x] = IF x = a THEN b ELSE fat[x]
    BY DEF FatInv, FatTypes
  <1>2. b \in Table /\ fat[b] # FREE /\ b # FREE /\ \A x \in Table : fat[x] # b
    BY DEF Origin
  <1>3. FatInv'
    BY <1>1, <1>2 DEF FatInv, FatTypes
  <1> QED
    BY <1>1, <1>2, <1>3 DEF Origin

\* cuts a chain in two,
LEMMA FatCut ==
    ASSUME FatInv, NEW a \in Table, fat[a] \in Table, fat' = [fat EXCEPT ![a] = EOF]
    PROVE  /\ FatInv'
           /\ \A b \in Table : b = fat[a] => Origin(b)' /\ ~Origin(b)
           /\ \A x : Origin(x) => Origin(x)'
           /\ \A x \in Table : x # a => fat'[x] = fat[x]
  <1> USE TableSize
  <1>1. \A x \in Table : fat'[x] = IF x = a THEN EOF ELSE fat[x]
    BY DEF FatInv, FatTypes
  <1>2. FatInv'
    BY <1>1 DEF FatInv, FatTypes
  <1>3. \A x \in Table : fat[x] = fat[a] => x = a
    BY DEF FatInv
  <1>4. fat[fat[a]] # FREE
    BY DEF FatInv
  <1>5. ASSUME NEW b \in Table, b = fat[a] PROVE Origin(b)' /\ ~Origin(b)
    BY <1>1, <1>3, <1>4, <1>5 DEF Origin
  <1> QED
    BY <1>1, <1>2, <1>5 DEF Origin

\* or frees the head of one.
LEMMA FatFree ==
    ASSUME FatInv, NEW c, Origin(c), fat' = [fat EXCEPT ![c] = FREE]
    PROVE  /\ FatInv' /\ fat'[c] = FREE
           /\ \A b \in Table : b = fat[c] => Origin(b)' /\ ~Origin(b) /\ b # c
           /\ fat[c] \in Table \/ fat[c] = EOF
           /\ \A x : Origin(x) /\ x # c => Origin(x)'
           /\ \A x \in Table : x # c => fat'[x] = fat[x]
  <1> USE TableSize
  <1>1. c \in Table /\ fat[c] # FREE /\ \A x \in Table : fat[x] # c
    BY DEF Origin
  <1>2. \A x \in Table : fat'[x] = IF x = c THEN FREE ELSE fat[x]
    BY <1>1 DEF FatInv, FatTypes
  <1>3. FatInv'
    BY <1>1, <1>2 DEF FatInv, FatTypes
  <1>4. ASSUME NEW b \in Table, b = fat[c] PROVE Origin(b)' /\ ~Origin(b) /\ b # c
    BY <1>1, <1>2, <1>4 DEF Origin, FatInv
  <1>5. fat[c] \in Table \/ fat[c] = EOF
    BY <1>1 DEF FatInv, FatTypes
  <1> QED
    BY <1>1, <1>2, <1>3, <1>4, <1>5 DEF Origin

-----------------------------------------------------------------------------
\* A step that writes to no directory leaves everything said of them as it was.
SameDirs ==
    /\ dirs' \in [Table -> [Slots -> SlotValues]]
    /\ \A d \in Dirs : dirs'[d] = dirs[d]

LEMMA DirsStay ==
    ASSUME DirInv, SameDirs
    PROVE  /\ Dirs' = Dirs
           /\ \A d \in Dirs, i \in Slots : \A c : Refers(d, i, c)' <=> Refers(d, i, c)
           /\ \A d \in Dirs, i \in Slots : \A s : FirstAt(d, i, s)' <=> FirstAt(d, i, s)
           /\ \A c : Loose(c) /\ Origin(c)' => Loose(c)'
           /\ (\A d \in Dirs : fat'[d] \notin Table) => DirInv'
  <1>1. root_cluster \in Dirs
    BY DEF Dirs
  <1>2. Dirs' = Dirs
    BY <1>1 DEF SameDirs, Dirs
  <1>3. \A d \in Dirs, i \in Slots : \A c : Refers(d, i, c)' <=> Refers(d, i, c)
    BY DEF SameDirs, Refers
  <1>4. \A d \in Dirs, i \in Slots : \A s : FirstAt(d, i, s)' <=> FirstAt(d, i, s)
    BY DEF SameDirs, FirstAt, Answers
  <1>5. \A c : Loose(c) /\ Origin(c)' => Loose(c)'
    BY <1>2, <1>3 DEF Loose
  <1>6. ASSUME \A d \in Dirs : fat'[d] \notin Table PROVE DirInv'
    BY <1>2, <1>6 DEF SameDirs, DirInv
  <1> QED
    BY <1>2, <1>3, <1>4, <1>5, <1>6

\* The heads of chains, outside a removal.
LEMMA HeadFacts ==
    ASSUME DirInv, HeadInv, NEW d \in Dirs, NEW i \in Slots, IsEntry(dirs[d][i]), dirs[d][i].start # 0,
           ~DoomedAt(d, i)
    PROVE  /\ Origin(dirs[d][i].start) /\ dirs[d][i].start \in Table
           /\ Refers(d, i, dirs[d][i].start) /\ dirs[d][i].start # root_cluster
           /\ ~Loose(dirs[d][i].start)
  BY DEF HeadInv, Refers, Origin, Loose

LEMMA HeadsStay ==
    ASSUME DirInv, HeadInv, SameDirs,
           \A d \in Dirs, i \in Slots : DoomedAt(d, i) => DoomedAt(d, i)',
           \A c : Origin(c) /\ ~Loose(c) => Origin(c)' \/ \E d \in Dirs, i \in Slots : Refers(d, i, c) /\ DoomedAt(d, i)
    PROVE  HeadInv'
  <1>1. Dirs' = Dirs /\ \A d \in Dirs, i \in Slots : \A c : Refers(d, i, c)' <=> Refers(d, i, c)
    BY DirsStay
  <1>2. Origin(root_cluster)'
    BY DEF HeadInv, Loose
  <1>3. ASSUME NEW d \in Dirs, NEW i \in Slots, IsEntry(dirs'[d][i]), dirs'[d][i].start # 0, ~DoomedAt(d, i)'
        PROVE  Origin(dirs[d][i].start)'
    <2>1. dirs'[d][i] = dirs[d][i]
      BY DEF SameDirs
    <2> DEFINE c == dirs[d][i].start
    <2>2. Origin(c) /\ c \in Table /\ Refers(d, i, c) /\ ~Loose(c)
      BY <1>3, <2>1, HeadFacts
    <2>3. ASSUME NEW e \in Dirs, NEW j \in Slots, Refers(e, j, c), DoomedAt(e, j) PROVE FALSE
      <3>1. e = d /\ j = i
        BY <2>2, <2>3 DEF HeadInv
      <3> QED
        BY <1>3, <2>3, <3>1
    <2>4. PICK x : x = c
      OBVIOUS
    <2>5. Origin(x)'
      BY <2>2, <2>3, <2>4
    <2>6. x = dirs'[d][i].start
      BY <2>1, <2>4
    <2> QED
      BY <2>5, <2>6
  <1>4. \A d \in Dirs, i \in Slots : ~Refers(d, i, root_cluster)'
    BY <1>1 DEF HeadInv
  <1>5. \A d, e \in Dirs, i, j \in Slots, c \in Table : Refers(d, i, c)' /\ Refers(e, j, c)' => d = e /\ i = j
    BY <1>1 DEF HeadInv
  <1> QED
    BY <1>1, <1>2, <1>3, <1>4, <1>5 DEF HeadInv

\* The first cluster of the open file heads a chain and is no directory.
LEMMA OpenStart ==
    ASSUME DirInv, HeadInv, OpenInv, ~Removal, file.open, file.entry.start # 0
    PROVE  /\ Origin(file.entry.start) /\ file.entry.start \in Table
           /\ file.entry.kind = "file" => file.entry.start \notin Dirs
  <1>1. PICK i \in Slots : OpenEntry(file.dir, i)
    BY DEF OpenInv
  <1>2. file.dir \in Dirs /\ ~DoomedAt(file.dir, i) /\ IsEntry(dirs[file.dir][i])
    BY <1>1 DEF OpenInv, DoomedAt, OpenEntry, FirstAt, Answers
  <1> DEFINE s == file.entry.start
  <1>3. CASE dirs[file.dir][i].start = s
    <2>1. Origin(s) /\ s \in Table /\ Refers(file.dir, i, s) /\ s # root_cluster
      BY <1>2, <1>3, HeadFacts
    <2>2. ASSUME s \in Dirs PROVE file.entry.kind = "dir"
      <3>1. PICK j \in Slots : dirs[root_cluster][j].kind = "dir" /\ dirs[root_cluster][j].start = s
        BY <2>1, <2>2 DEF Dirs
      <3>2. Refers(root_cluster, j, s) /\ root_cluster \in Dirs
        BY <3>1 DEF Refers, IsEntry, Dirs
      <3>3. file.dir = root_cluster /\ i = j
        BY <1>2, <2>1, <3>2 DEF HeadInv
      <3> QED
        BY <1>1, <3>1, <3>3 DEF OpenEntry
    <2> QED
      BY <2>1, <2>2
  <1>4. CASE dirs[file.dir][i].start # s
    <2>1. Loose(s)
      BY <1>1, <1>4 DEF OpenEntry
    <2>2. \A j \in Slots : dirs[root_cluster][j].kind = "dir" => dirs[root_cluster][j].start # s
      BY <2>1 DEF Loose, Refers, IsEntry, Dirs
    <2> QED
      BY <2>1, <2>2 DEF Loose, Origin, Dirs
  <1> QED
    BY <1>3, <1>4

\* A loose cluster is no directory.
LEMMA LooseNoDir ==
    ASSUME NEW c, Loose(c)
    PROVE  c \notin Dirs /\ c \in Table /\ Origin(c) /\ c # root_cluster
  BY DEF Loose, Refers, IsEntry, Dirs, Origin

LEMMA DirsHead ==
    ASSUME DirInv, HeadInv, ~Removal, NEW d \in Dirs
    PROVE  Origin(d)
  <1> SUFFICES ASSUME d # root_cluster PROVE Origin(d)
    BY DEF HeadInv
  <1>1. PICK j \in Slots : dirs[root_cluster][j].kind = "dir" /\ dirs[root_cluster][j].start = d
    BY DEF Dirs
  <1>2. root_cluster \in Dirs /\ IsEntry(dirs[root_cluster][j]) /\ Proper(dirs[root_cluster][j])
    BY <1>1 DEF DirInv, Dirs, IsEntry
  <1> QED
    BY <1>1, <1>2, HeadFacts DEF Proper, DoomedAt

LEMMA OpenStays ==
    ASSUME DirInv, OpenInv, SameDirs, UNCHANGED file,
           Loose(file.entry.start) => Origin(file.entry.start)'
    PROVE  OpenInv'
  <1>1. ASSUME file.open PROVE \E i \in Slots : OpenEntry(file.dir, i)'
    <2>1. PICK i \in Slots : OpenEntry(file.dir, i)
      BY <1>1 DEF OpenInv
    <2>2. file.dir \in Dirs /\ dirs'[file.dir] = dirs[file.dir]
      BY <1>1 DEF OpenInv, SameDirs
    <2>3. FirstAt(file.dir, i, file.entry.sfn)'
      BY <2>1, <2>2 DEF OpenEntry, FirstAt, Answers
    <2>4. Loose(file.entry.start) => Loose(file.entry.start)'
      <3>1. PICK x : x = file.entry.start
        OBVIOUS
      <3>2. Loose(x) => Loose(x)'
        BY <3>1, DirsStay
      <3> QED
        BY <3>1, <3>2
    <2> QED
      BY <2>1, <2>2, <2>3, <2>4 DEF OpenEntry
  <1>2. Dirs' = Dirs
    BY DirsStay
  <1> QED
    BY <1>1, <1>2 DEF OpenInv

-----------------------------------------------------------------------------
\* What is under way.
LEMMA CallOf ==
    ASSUME OpInv
    PROVE  /\ op.pc \in {"data", "extend", "link", "trim", "entry"} => Writing
           /\ op.pc \in {"mkdir", "fill", "slot", "grow", "attach"} => Creating
           /\ op.pc = "mark" => Removal
           /\ op.pc = "free" => Writing \/ Removal
           /\ Writing \/ Creating => ~Removal
           /\ Writing => ~Creating
           /\ op = Idle => ~Writing /\ ~Creating /\ ~Removal
  <1>1. op.call \in Calls
    BY DEF OpInv, Frame
  <1> QED
    BY <1>1 DEF OpInv, WritingInv, CreatingInv, RemovalInv, Writing, Creating, Removal, Calls, Idle

LEMMA IdleFrame ==
    /\ Idle \in Frame /\ [Idle EXCEPT !.pc = "hung"] \in Frame
    /\ Idle.call = "none" /\ [Idle EXCEPT !.pc = "hung"].call = "none"
    /\ Idle.pc = "idle" /\ [Idle EXCEPT !.pc = "hung"].pc = "hung"
  BY TableSize, SMT DEF Idle, Frame, Calls, PCs

\* A call that returned, or that never does, claims nothing.
LEMMA Returned ==
    ASSUME op' = Idle \/ op' = [Idle EXCEPT !.pc = "hung"]
    PROVE  OpInv' /\ ~Removal' /\ ~Writing' /\ ~Creating'
  BY IdleFrame DEF OpInv, WritingInv, CreatingInv, RemovalInv, Writing, Creating, Removal

\* The disk as it is.
LEMMA DiskStays ==
    ASSUME FatInv, DirInv, HeadInv, UNCHANGED <<fat, dirs>>, ~Removal
    PROVE  /\ FatInv' /\ DirInv' /\ HeadInv' /\ SameDirs
           /\ \A x : Origin(x) => Origin(x)'
  <1>1. SameDirs /\ FatInv' /\ DirInv'
    BY DEF DirInv, SameDirs, FatInv, FatTypes, Dirs
  <1>2. \A x : Origin(x) => Origin(x)'
    BY DEF Origin
  <1>3. HeadInv'
    BY <1>1, <1>2, HeadsStay DEF DoomedAt
  <1> QED
    BY <1>1, <1>2, <1>3

\* A call of FAT32_AllocCluster, whatever its outcome.
LEMMA Allocation ==
    ASSUME FatInv, DirInv, HeadInv, ~Removal, NEW w, FAT32_AllocCluster(w), UNCHANGED dirs
    PROVE  /\ FatInv' /\ DirInv' /\ HeadInv' /\ SameDirs
           /\ \A x : Origin(x) => Origin(x)'
           /\ \A x \in Table : fat[x] # FREE => fat'[x] = fat[x]
           /\ Allocated(w) => \A c : c = Picked => Unlinked(c)' /\ c \in Table /\ fat[c] = FREE
  <1> DEFINE taken == ~NoneFree /\ w # "fail"
  <1>1. CASE ~taken
    <2>1. fat' = fat
      BY <1>1 DEF FAT32_AllocCluster, FAT32_WriteFATEntry
    <2>2. ~Allocated(w)
      BY <1>1 DEF Allocated
    <2> QED
      BY <2>1, <2>2, DiskStays
  <1>2. CASE taken
    <2>1. PICK c : c = Picked
      OBVIOUS
    <2>2. c \in Table /\ fat[c] = FREE
      BY <1>2, <2>1, PickedIsFree
    <2>3. fat' = [fat EXCEPT ![c] = EOF]
      BY <1>2, <2>1, <2>2 DEF FAT32_AllocCluster, FAT32_WriteFATEntry
    <2>4. /\ FatInv' /\ Origin(c)' /\ fat'[c] = EOF /\ \A x : Origin(x) => Origin(x)'
          /\ \A x \in Table : x # c => fat'[x] = fat[x]
      BY <2>2, <2>3, FatAlloc
    <2>5. SameDirs
      BY DEF DirInv, SameDirs
    <2>6. DirInv'
      <3>1. \A d \in Dirs : fat'[d] \notin Table
        BY <2>4, TableSize DEF DirInv
      <3> QED
        BY <2>5, <3>1, DirsStay
    <2>7. HeadInv'
      BY <2>4, <2>5, HeadsStay DEF DoomedAt
    <2>8. Unlinked(c)'
      <3>1. ~Origin(c)
        BY <2>2 DEF Origin
      <3>2. c # root_cluster
        BY <3>1 DEF HeadInv
      <3>3. ASSUME NEW d \in Dirs, NEW i \in Slots PROVE ~Refers(d, i, c)
        <4>1. c # 0
          BY <2>2, TableSize DEF FREE
        <4> QED
          BY <3>1, <4>1 DEF HeadInv, Refers, DoomedAt
      <3>4. Dirs' = Dirs /\ \A d \in Dirs, i \in Slots : Refers(d, i, c)' <=> Refers(d, i, c)
        BY <2>5, DirsStay
      <3> QED
        BY <2>4, <3>2, <3>3, <3>4 DEF Unlinked, Loose
    <2> QED
      BY <2>1, <2>2, <2>4, <2>5, <2>6, <2>7, <2>8
  <1> QED
    BY <1>1, <1>2

-----------------------------------------------------------------------------
\* Opening and closing.
LEMMA OpenFileStep ==
    ASSUME Volume, NEW d \in Dirs, NEW n \in Names, OpenFile(d, n)
    PROVE  Volume'
  <1>1. /\ op' = Idle /\ UNCHANGED <<fat, dirs>> /\ Found(d, n) /\ op = Idle
        /\ file' = [open |-> TRUE, dir |-> d, entry |-> FAT32_FindEntryAny(d, n)]
    BY DEF OpenFile, Ready, disk
  <1>2. FatInv /\ DirInv /\ HeadInv /\ OpInv /\ ~Removal
    BY <1>1, CallOf DEF Volume
  <1>3. FatInv' /\ DirInv' /\ HeadInv' /\ SameDirs /\ OpInv'
    BY <1>1, <1>2, DiskStays, Returned
  <1>4. PICK i \in Slots : FirstAt(d, i, name_to_83[n]) /\ FAT32_FindEntryAny(d, n) = dirs[d][i]
    BY <1>1, <1>2, Lookup
  <1>5. /\ dirs[d][i] \in Entries /\ Proper(dirs[d][i]) /\ d \in Table
        /\ dirs[d][i].sfn = name_to_83[n]
    <2>1. IsEntry(dirs[d][i]) /\ dirs[d][i].sfn = name_to_83[n]
      BY <1>4 DEF FirstAt, Answers
    <2>2. dirs[d][i] \in SlotValues /\ d \in Table /\ Proper(dirs[d][i])
      BY <1>2, <2>1 DEF DirInv
    <2> QED
      BY <2>1, <2>2, SlotKinds
  <1>6. file'.open /\ file'.dir = d /\ file'.entry = dirs[d][i] /\ file' \in [open : BOOLEAN, dir : Table, entry : Entries]
    BY <1>1, <1>4, <1>5
  <1>7. OpenEntry(file.dir, i)'
    BY <1>1, <1>4, <1>5, <1>6 DEF OpenEntry, FirstAt, Answers
  <1>8. d \in Dirs'
    BY <1>2, <1>3, DirsStay
  <1> QED
    BY <1>3, <1>5, <1>6, <1>7, <1>8 DEF Volume, OpenInv

LEMMA ClosedFile ==
    ASSUME file' = Closed
    PROVE  OpenInv'
  BY DEF OpenInv, Closed

\* Beginning to write.
LEMMA BeginFrame ==
    ASSUME NEW call \in {"write", "append"}, NEW pc \in {"data", "extend", "trim"},
           NEW c \in {0} \cup Table, NEW size \in Nat, NEW o \in Nat,
           NEW fr, fr = Begin(call, pc, c, size) \/ fr = [Begin(call, pc, c, size) EXCEPT !.offset = o]
    PROVE  /\ fr \in Frame /\ fr.call = call /\ fr.pc = pc /\ fr.cluster = c /\ fr.written = 0
           /\ fr.size = size /\ fr.offset \in {0, o}
  <1> DEFINE b == Begin(call, pc, c, size)
  <1>1. Idle \in Frame /\ Idle.written = 0 /\ Idle.offset = 0
    BY IdleFrame, SMT DEF Idle
  <1>2. b \in Frame /\ b.call = call /\ b.pc = pc /\ b.cluster = c /\ b.written = 0 /\ b.size = size /\ b.offset = 0
    <2> DEFINE b1 == [Idle EXCEPT !.call = call]
               b2 == [b1 EXCEPT !.pc = pc]
               b3 == [b2 EXCEPT !.cluster = c]
               b4 == [b3 EXCEPT !.size = size]
    <2>1. b1 \in Frame /\ b1.call = call /\ b1.written = 0 /\ b1.offset = 0
      BY <1>1 DEF Frame, Calls
    <2> HIDE DEF b1
    <2>2. b2 \in Frame /\ b2.call = call /\ b2.pc = pc /\ b2.written = 0 /\ b2.offset = 0
      BY <2>1 DEF Frame, PCs
    <2> HIDE DEF b2
    <2>3. b3 \in Frame /\ b3.call = call /\ b3.pc = pc /\ b3.cluster = c /\ b3.written = 0 /\ b3.offset = 0
      BY <2>2 DEF Frame
    <2> HIDE DEF b3
    <2>4. b4 \in Frame /\ b4.call = call /\ b4.pc = pc /\ b4.cluster = c /\ b4.written = 0 /\ b4.offset = 0 /\ b4.size = size
      BY <2>3 DEF Frame
    <2>5. b = b4
      BY DEF Begin, b1, b2, b3
    <2> QED
      BY <2>4, <2>5
  <1>3. \A x \in Frame : LET y == [x EXCEPT !.offset = o]
                         IN  /\ y \in Frame /\ y.call = x.call /\ y.pc = x.pc /\ y.cluster = x.cluster
                             /\ y.written = x.written /\ y.size = x.size /\ y.offset = o
    BY SMT DEF Frame
  <1>4. fr = b \/ fr = [b EXCEPT !.offset = o]
    OBVIOUS
  <1> HIDE DEF b
  <1> QED
    BY <1>2, <1>3, <1>4

LEMMA BeginFirstStep ==
    ASSUME Volume, NEW call \in {"write", "append"}, NEW size \in Nat,
           CanWrite, file.entry.start = 0, BeginFirst(call, size), UNCHANGED dirs
    PROVE  Volume'
  <1>1. /\ FatInv /\ DirInv /\ HeadInv /\ OpenInv /\ OpInv /\ ~Removal
        /\ file.open /\ file.entry.kind = "file"
    BY CallOf DEF Volume, CanWrite, Ready
  <1>2. PICK w \in Outcomes :
           /\ FAT32_AllocCluster(w)
           /\ IF Allocated(w)
              THEN /\ op' = Begin(call, "data", Picked, size)
                   /\ file' = [file EXCEPT !.entry.start = Picked]
              ELSE NoCluster
    BY DEF BeginFirst
  <1>3. /\ FatInv' /\ DirInv' /\ HeadInv' /\ SameDirs
        /\ \A x : Origin(x) => Origin(x)'
        /\ Allocated(w) => \A c : c = Picked => Unlinked(c)' /\ c \in Table /\ fat[c] = FREE
    BY <1>1, <1>2, Allocation
  <1>4. CASE ~Allocated(w)
    <2>1. (op' = Idle \/ op' = [Idle EXCEPT !.pc = "hung"]) /\ UNCHANGED file
      BY <1>2, <1>4 DEF NoCluster, Return
    <2>2. OpenInv'
      BY <1>1, <1>3, <2>1, OpenStays DEF Loose
    <2> QED
      BY <1>3, <2>1, <2>2, Returned DEF Volume
  <1>5. CASE Allocated(w)
    <2>1. PICK c \in Table : c = Picked /\ Unlinked(c)'
      BY <1>3, <1>5
    <2>2. op' = Begin(call, "data", c, size) /\ file' = [file EXCEPT !.entry.start = c]
      BY <1>2, <1>5, <2>1
    <2>3. /\ file'.open /\ file'.dir = file.dir /\ file'.entry.start = c /\ file'.entry.sfn = file.entry.sfn
          /\ file'.entry.kind = "file" /\ file'.entry.long = file.entry.long
          /\ file' \in [open : BOOLEAN, dir : Table, entry : Entries]
      <3>1. file \in [open : BOOLEAN, dir : Table, entry : Entries]
        BY <1>1 DEF OpenInv
      <3> QED
        BY <1>1, <2>2, <3>1 DEF Entries
    <2>4. OpenInv'
      <3>1. PICK i \in Slots : OpenEntry(file.dir, i)
        BY <1>1 DEF OpenInv
      <3>2. file.dir \in Dirs /\ Dirs' = Dirs /\ dirs' = dirs
        BY <1>1, <1>3, DirsStay DEF OpenInv
      <3>3. OpenEntry(file.dir, i)'
        <4>1. FirstAt(file.dir, i, file.entry.sfn)'
          BY <2>3, <3>1, <3>2 DEF OpenEntry, FirstAt, Answers
        <4>2. dirs'[file.dir][i].start = 0 /\ dirs'[file.dir][i].kind = "file"
          BY <1>1, <3>1, <3>2 DEF OpenEntry
        <4>3. Loose(c)'
          BY <2>1 DEF Unlinked
        <4> QED
          BY <2>3, <4>1, <4>2, <4>3 DEF OpenEntry
      <3>4. Proper(file.entry)'
        BY <1>1, <2>1, <2>3, TableSize DEF OpenInv, Proper, FREE
      <3> QED
        BY <2>3, <3>2, <3>3, <3>4 DEF OpenInv
    <2>5. /\ op' \in Frame /\ op'.call = call /\ op'.pc = "data" /\ op'.cluster = c
          /\ op'.written <= op'.size /\ op'.offset < UnitsPerCluster
      <3>1. /\ op' \in Frame /\ op'.call = call /\ op'.pc = "data" /\ op'.cluster = c
            /\ op'.written = 0 /\ op'.size = size /\ op'.offset \in {0, 0}
        BY <2>2, BeginFrame
      <3> QED
        BY <3>1, Fat32Assumption
    <2>6. Held(c)' /\ fat'[c] = EOF
      <3>1. Loose(c)' /\ fat'[c] = EOF
        BY <2>1 DEF Unlinked
      <3>2. (c \notin Dirs)'
        BY <3>1, LooseNoDir, PTL
      <3> QED
        BY <2>1, <3>1, <3>2, TableSize DEF Held
    <2>7. OpInv'
      <3>1. c # 0
        BY <2>1, TableSize DEF FREE
      <3> QED
        BY <2>3, <2>5, <2>6, <3>1 DEF OpInv, WritingInv, CreatingInv, RemovalInv, Writing, Creating, Removal
    <2> QED
      BY <1>3, <2>4, <2>7 DEF Volume
  <1> QED
    BY <1>4, <1>5

LEMMA WriteFileStep ==
    ASSUME Volume, NEW size \in Nat, WriteFile(size)
    PROVE  Volume'
  <1>1. CanWrite /\ UNCHANGED dirs
    BY DEF WriteFile
  <1>2. CASE file.entry.start = 0 /\ size > 0
    BY <1>1, <1>2, BeginFirstStep DEF WriteFile
  <1>3. CASE ~(file.entry.start = 0 /\ size > 0)
    <2>1. /\ FatInv /\ DirInv /\ HeadInv /\ OpenInv /\ OpInv /\ ~Removal
          /\ file.open /\ file.entry.kind = "file"
      BY <1>1, CallOf DEF Volume, CanWrite, Ready
    <2>2. /\ UNCHANGED <<fat, file>>
          /\ op' = Begin("write", IF size > 0 THEN "data" ELSE "trim", file.entry.start, size)
      BY <1>3 DEF WriteFile
    <2>3. FatInv' /\ DirInv' /\ HeadInv' /\ SameDirs /\ \A x : Origin(x) => Origin(x)'
      BY <1>1, <2>1, <2>2, DiskStays
    <2>4. OpenInv'
      BY <2>1, <2>2, <2>3, OpenStays DEF Loose
    <2>5. PICK s \in {0} \cup Table : s = file.entry.start
      BY <2>1 DEF OpenInv, Entries
    <2>6. op' \in Frame /\ op'.call = "write" /\ op'.cluster = s /\ op'.written = 0
          /\ op'.pc = (IF size > 0 THEN "data" ELSE "trim") /\ op'.size = size /\ op'.offset \in {0, 0}
      <3>1. CASE size > 0
        BY <2>2, <2>5, <3>1, BeginFrame
      <3>2. CASE ~(size > 0)
        BY <2>2, <2>5, <3>2, BeginFrame
      <3> QED
        BY <3>1, <3>2
    <2>7. s # 0 => Held(s)'
      <3>1. s # 0 => Origin(s) /\ s \in Table /\ s \notin Dirs
        BY <2>1, <2>5, OpenStart
      <3>2. Dirs' = Dirs
        BY <2>1, <2>3, DirsStay
      <3> QED
        BY <2>3, <3>1, <3>2 DEF Held, Origin
    <2>8. OpInv'
      <3>1. op'.written <= op'.size /\ op'.offset < UnitsPerCluster
        BY <2>6, Fat32Assumption
      <3>2. op'.pc \in {"data", "trim"} /\ (op'.pc = "data" => s # 0)
        BY <1>3, <2>5, <2>6
      <3> QED
        BY <2>1, <2>2, <2>5, <2>6, <2>7, <3>1, <3>2 DEF OpInv, WritingInv, CreatingInv, RemovalInv, Writing, Creating, Removal
    <2> QED
      BY <2>3, <2>4, <2>8 DEF Volume
  <1> QED
    BY <1>2, <1>3

\* The last cluster of a file's chain: AppendFile follows the chain to its end mark.
LEMMA LastOfChain ==
    ASSUME FatInv, NEW s, Origin(s)
    PROVE  LET c == Last(Chain(s))
           IN  c \in Table /\ fat[c] = EOF /\ (c = s \/ \E a \in Table : fat[a] = c)
  <1> DEFINE ch == Chain(s)
  <1>1. /\ ch \in Seq(Table) /\ Len(ch) >= 1 /\ ch[1] = s
        /\ \A k \in 2..Len(ch) : ch[k] = fat[ch[k - 1]]
        /\ fat[ch[Len(ch)]] = EOF
    BY OriginChain
  <1> HIDE DEF ch
  <1>2. PICK L \in Nat : L = Len(ch) /\ L >= 1
    BY <1>1
  <1>3. ch[L] \in Table /\ Last(ch) = ch[L]
    BY <1>1, <1>2 DEF Last
  <1>4. CASE L = 1
    BY <1>1, <1>2, <1>3, <1>4 DEF ch
  <1>5. CASE L # 1
    <2>1. L \in 2..Len(ch) /\ L - 1 \in 1..Len(ch)
      BY <1>2, <1>5
    <2>2. ch[L - 1] \in Table /\ ch[L] = fat[ch[L - 1]]
      BY <1>1, <2>1
    <2> QED
      BY <1>1, <1>2, <1>3, <2>2 DEF ch
  <1> QED
    BY <1>4, <1>5

LEMMA AppendFileStep ==
    ASSUME Volume, NEW size \in Nat, AppendFile(size)
    PROVE  Volume'
  <1>1. CanWrite /\ UNCHANGED dirs
    BY DEF AppendFile
  <1>2. CASE file.entry.start = 0
    <2>1. BeginFirst("append", size)
      BY <1>2 DEF AppendFile
    <2> QED
      BY <1>1, <1>2, <2>1, BeginFirstStep
  <1>3. CASE file.entry.start # 0
    <2>1. /\ FatInv /\ DirInv /\ HeadInv /\ OpenInv /\ OpInv /\ ~Removal
          /\ file.open /\ file.entry.kind = "file"
      BY <1>1, CallOf DEF Volume, CanWrite, Ready
    <2> DEFINE s == file.entry.start
               offset == file.entry.size % UnitsPerCluster
               full == offset = 0 /\ file.entry.size > 0
    <2>2. /\ UNCHANGED <<fat, file>>
          /\ op' = [Begin("append", IF full THEN "extend" ELSE "data", Last(Chain(s)), size) EXCEPT !.offset = offset]
      BY <1>3 DEF AppendFile
    <2>3. FatInv' /\ DirInv' /\ HeadInv' /\ SameDirs /\ \A x : Origin(x) => Origin(x)'
      BY <1>1, <2>1, <2>2, DiskStays
    <2>4. OpenInv'
      BY <2>1, <2>2, <2>3, OpenStays DEF Loose
    <2>5. Origin(s) /\ s \notin Dirs
      BY <1>3, <2>1, OpenStart
    <2>6. PICK c \in Table : c = Last(Chain(s)) /\ fat[c] = EOF /\ (c = s \/ \E a \in Table : fat[a] = c)
      BY <2>1, <2>5, LastOfChain
    <2>7. c \notin Dirs
      <3>1. c = s \/ ~Origin(c)
        BY <2>6 DEF Origin
      <3> QED
        BY <2>1, <2>5, <3>1, DirsHead
    <2>8. Held(c)' /\ fat'[c] = EOF
      <3>1. Dirs' = Dirs
        BY <2>1, <2>3, DirsStay
      <3> QED
        BY <2>2, <2>6, <2>7, <3>1, TableSize DEF Held
    <2>9. offset \in Nat /\ offset < UnitsPerCluster
      BY <2>1, Fat32Assumption DEF OpenInv, Entries
    <2>10. PICK pc \in {"data", "extend", "trim"} : pc = (IF full THEN "extend" ELSE "data")
      OBVIOUS
    <2>11. /\ op' \in Frame /\ op'.call = "append" /\ op'.pc = pc /\ op'.cluster = c
           /\ op'.written <= op'.size /\ op'.offset < UnitsPerCluster
      <3> HIDE DEF offset, full
      <3>1. /\ op' \in Frame /\ op'.call = "append" /\ op'.pc = pc /\ op'.cluster = c
            /\ op'.written = 0 /\ op'.size = size /\ op'.offset \in {0, offset}
        BY <2>2, <2>6, <2>9, <2>10, BeginFrame
      <3> QED
        BY <2>9, <3>1, Fat32Assumption
    <2>12. pc # "trim"
      BY <2>10
    <2>13. OpInv'
      <3> HIDE DEF offset, full
      <3> QED
        BY <1>3, <2>1, <2>2, <2>8, <2>11, <2>12
        DEF OpInv, WritingInv, CreatingInv, RemovalInv, Writing, Creating, Removal
    <2> QED
      BY <2>3, <2>4, <2>13 DEF Volume
  <1> QED
    BY <1>2, <1>3

-----------------------------------------------------------------------------
\* Assignments to the locals of the call under way.
SetPc(x, v) == [x EXCEPT !.pc = v]
SetNext(x, v) == [x EXCEPT !.next = v]
SetCluster(x, v) == [x EXCEPT !.cluster = v]
SetWritten(x, v) == [x EXCEPT !.written = v]
SetOffset(x, v) == [x EXCEPT !.offset = v]

LEMMA SetPcFrame ==
    ASSUME NEW x \in Frame, NEW v \in PCs
    PROVE  /\ SetPc(x, v) \in Frame /\ SetPc(x, v).pc = v /\ SetPc(x, v).call = x.call
           /\ SetPc(x, v).d = x.d /\ SetPc(x, v).n = x.n /\ SetPc(x, v).cluster = x.cluster
           /\ SetPc(x, v).next = x.next /\ SetPc(x, v).size = x.size /\ SetPc(x, v).written = x.written
           /\ SetPc(x, v).offset = x.offset
  BY DEF Frame, SetPc

LEMMA SetNextFrame ==
    ASSUME NEW x \in Frame, NEW v \in {0} \cup Table
    PROVE  /\ SetNext(x, v) \in Frame /\ SetNext(x, v).next = v /\ SetNext(x, v).call = x.call
           /\ SetNext(x, v).pc = x.pc /\ SetNext(x, v).d = x.d /\ SetNext(x, v).n = x.n
           /\ SetNext(x, v).cluster = x.cluster /\ SetNext(x, v).size = x.size /\ SetNext(x, v).written = x.written
           /\ SetNext(x, v).offset = x.offset
  BY DEF Frame, SetNext

LEMMA SetClusterFrame ==
    ASSUME NEW x \in Frame, NEW v \in {0} \cup Table
    PROVE  /\ SetCluster(x, v) \in Frame /\ SetCluster(x, v).cluster = v /\ SetCluster(x, v).call = x.call
           /\ SetCluster(x, v).pc = x.pc /\ SetCluster(x, v).d = x.d /\ SetCluster(x, v).n = x.n
           /\ SetCluster(x, v).next = x.next /\ SetCluster(x, v).size = x.size /\ SetCluster(x, v).written = x.written
           /\ SetCluster(x, v).offset = x.offset
  BY DEF Frame, SetCluster

LEMMA SetWrittenFrame ==
    ASSUME NEW x \in Frame, NEW v \in Nat
    PROVE  /\ SetWritten(x, v) \in Frame /\ SetWritten(x, v).written = v /\ SetWritten(x, v).call = x.call
           /\ SetWritten(x, v).pc = x.pc /\ SetWritten(x, v).d = x.d /\ SetWritten(x, v).n = x.n
           /\ SetWritten(x, v).cluster = x.cluster /\ SetWritten(x, v).next = x.next /\ SetWritten(x, v).size = x.size
           /\ SetWritten(x, v).offset = x.offset
  BY DEF Frame, SetWritten

LEMMA SetOffsetFrame ==
    ASSUME NEW x \in Frame, NEW v \in Nat
    PROVE  /\ SetOffset(x, v) \in Frame /\ SetOffset(x, v).offset = v /\ SetOffset(x, v).call = x.call
           /\ SetOffset(x, v).pc = x.pc /\ SetOffset(x, v).d = x.d /\ SetOffset(x, v).n = x.n
           /\ SetOffset(x, v).cluster = x.cluster /\ SetOffset(x, v).next = x.next /\ SetOffset(x, v).size = x.size
           /\ SetOffset(x, v).written = x.written
  BY DEF Frame, SetOffset

LEMMA WrittenFrame ==
    ASSUME NEW x \in Frame, NEW a \in Nat, NEW v \in PCs, NEW y, y = SetPc(SetWritten(x, a), v)
    PROVE  /\ y \in Frame /\ y.written = a /\ y.pc = v /\ y.call = x.call /\ y.cluster = x.cluster
           /\ y.size = x.size /\ y.offset = x.offset
  <1>1. PICK z \in Frame : z = SetWritten(x, a)
    BY SetWrittenFrame
  <1>2. /\ z.written = a /\ z.call = x.call /\ z.cluster = x.cluster
        /\ z.size = x.size /\ z.offset = x.offset
    BY <1>1, SetWrittenFrame
  <1>3. y = SetPc(z, v)
    BY <1>1
  <1> QED
    BY <1>2, <1>3, SetPcFrame

-----------------------------------------------------------------------------
\* A cluster that is no directory is written.
LEMMA OutsideWrite ==
    ASSUME FatInv, DirInv, HeadInv, ~Removal, UNCHANGED fat,
           NEW c \in Table, c \notin Dirs, NEW v \in [Slots -> SlotValues],
           dirs' = dirs \/ dirs' = [dirs EXCEPT ![c] = v]
    PROVE  /\ FatInv' /\ DirInv' /\ HeadInv' /\ SameDirs
           /\ \A x : Origin(x) => Origin(x)'
  <1>1. FatInv' /\ \A x : Origin(x) => Origin(x)'
    BY DEF FatInv, FatTypes, Origin
  <1>2. SameDirs
    BY DEF SameDirs, DirInv
  <1>3. DirInv'
    BY <1>2, DirsStay DEF DirInv
  <1>4. HeadInv'
    BY <1>1, <1>2, HeadsStay DEF DoomedAt
  <1> QED
    BY <1>1, <1>2, <1>3, <1>4

LEMMA BlankSlots == Blank \in [Slots -> SlotValues] /\ NewDir \in [Slots -> SlotValues]
  BY DEF Blank, NewDir, Slots, SlotValues

\* Writing the data of a cluster.
LEMMA RoundSize ==
    ASSUME OpInv, Writing
    PROVE  Written \in Nat /\ Written <= op.size
  <1>1. /\ op.size \in Nat /\ op.written \in Nat /\ op.offset \in Nat
        /\ op.written <= op.size /\ op.offset < UnitsPerCluster
    BY DEF OpInv, WritingInv, Frame
  <1> QED
    BY <1>1, Fat32Assumption DEF Written, ToWrite

LEMMA WriteDataStep ==
    ASSUME Volume, WriteData
    PROVE  Volume'
  <1>1. FatInv /\ DirInv /\ HeadInv /\ OpenInv /\ OpInv
    BY DEF Volume
  <1>2. op.pc = "data" /\ Writing /\ ~Removal
    BY <1>1, CallOf DEF WriteData
  <1>3. PICK c \in Table : c = op.cluster /\ c \notin Dirs /\ fat[c] # FREE /\ (op.call = "append" => fat[c] = EOF)
    BY <1>1, <1>2 DEF OpInv, WritingInv, Held
  <1>4. file.open /\ file.entry.kind = "file" /\ file.entry.start # 0 /\ op \in Frame /\ op.offset < UnitsPerCluster
    BY <1>1, <1>2 DEF OpInv, WritingInv
  <1>5. UNCHANGED <<fat, file>> /\ (op' = Idle \/ op' = WriteRound) /\ (dirs' = dirs \/ dirs' = [dirs EXCEPT ![c] = Blank])
    BY <1>3 DEF WriteData, AsData, Info
  <1>6. FatInv' /\ DirInv' /\ HeadInv' /\ SameDirs /\ \A x : Origin(x) => Origin(x)'
    BY <1>1, <1>2, <1>3, <1>5, BlankSlots, OutsideWrite
  <1>7. OpenInv'
    BY <1>1, <1>5, <1>6, OpenStays DEF Loose
  <1>8. Dirs' = Dirs
    BY <1>1, <1>6, DirsStay
  <1>9. CASE op' = Idle
    BY <1>6, <1>7, <1>9, Returned DEF Volume
  <1>10. CASE op' = WriteRound
    <2>1. Written \in Nat /\ Written <= op.size
      BY <1>1, <1>2, RoundSize
    <2>2. fat[c] \in Table \/ fat[c] = EOF
      BY <1>1, <1>3 DEF FatInv, FatTypes
    <2>3. Held(c)'
      BY <1>3, <1>5, <1>8 DEF Held
    <2>4. CASE Written >= op.size
      <3>1. PICK v \in {"trim", "entry"} : v = (IF op.call = "write" THEN "trim" ELSE "entry")
        OBVIOUS
      <3>2. op' = [op EXCEPT !.written = Written, !.pc = v]
        BY <1>10, <2>4, <3>1 DEF WriteRound
      <3>3. /\ op' \in Frame /\ op'.written = Written /\ op'.pc = v /\ op'.call = op.call /\ op'.cluster = c
            /\ op'.size = op.size /\ op'.offset = op.offset
        <4>1. v \in PCs
          BY DEF PCs
        <4>2. op' = SetPc(SetWritten(op, Written), v)
          BY <3>2 DEF SetPc, SetWritten
        <4> QED
          BY <1>3, <1>4, <2>1, <4>1, <4>2, WrittenFrame
      <3> QED
        BY <1>2, <1>4, <1>5, <1>6, <1>7, <2>1, <2>3, <3>3
        DEF Volume, OpInv, WritingInv, CreatingInv, RemovalInv, Writing, Creating, Removal
    <2>5. CASE ~(Written >= op.size) /\ (op.call = "append" \/ fat[c] >= EOF)
      <3>1. op' = [op EXCEPT !.written = Written, !.pc = "extend"]
        BY <1>3, <1>10, <2>5 DEF WriteRound
      <3>2. /\ op' \in Frame /\ op'.written = Written /\ op'.pc = "extend" /\ op'.call = op.call /\ op'.cluster = c
            /\ op'.size = op.size /\ op'.offset = op.offset
        <4>1. "extend" \in PCs
          BY DEF PCs
        <4>2. op' = SetPc(SetWritten(op, Written), "extend")
          BY <3>1 DEF SetPc, SetWritten
        <4> QED
          BY <1>3, <1>4, <2>1, <4>1, <4>2, WrittenFrame
      <3>3. fat'[c] = EOF
        BY <1>3, <1>5, <2>2, <2>5, TableSize
      <3> QED
        BY <1>2, <1>4, <1>5, <1>6, <1>7, <2>1, <2>3, <3>2, <3>3
        DEF Volume, OpInv, WritingInv, CreatingInv, RemovalInv, Writing, Creating, Removal
    <2>6. CASE ~(Written >= op.size) /\ ~(op.call = "append" \/ fat[c] >= EOF)
      <3>1. PICK b \in Table : b = fat[c]
        <4>1. EOF >= EOF
          BY TableSize
        <4> QED
          BY <2>2, <2>6, <4>1
      <3>2. op' = [op EXCEPT !.written = Written, !.cluster = b]
        BY <1>3, <1>10, <2>6, <3>1 DEF WriteRound
      <3>3. /\ op' \in Frame /\ op'.written = Written /\ op'.pc = "data" /\ op'.call = op.call /\ op'.cluster = b
            /\ op'.size = op.size /\ op'.offset = op.offset
        <4>1. op' = SetCluster(SetWritten(op, Written), b)
          BY <3>2 DEF SetCluster, SetWritten
        <4>2. PICK z \in Frame : z = SetWritten(op, Written)
          BY <1>4, <2>1, SetWrittenFrame
        <4>3. z.written = Written /\ z.call = op.call /\ z.pc = op.pc /\ z.size = op.size /\ z.offset = op.offset
          BY <1>4, <2>1, <4>2, SetWrittenFrame
        <4>4. op' = SetCluster(z, b)
          BY <4>1, <4>2
        <4> QED
          BY ZenonT(60), <1>2, <4>3, <4>4, SetClusterFrame
      <3>4. Held(b)'
        <4>1. fat[b] # FREE /\ ~Origin(b)
          BY <1>1, <1>3, <3>1 DEF FatInv, Origin
        <4>2. b \notin Dirs
          BY <1>1, <1>2, <4>1, DirsHead
        <4> QED
          BY <1>5, <1>8, <4>1, <4>2 DEF Held
      <3> QED
        BY <1>2, <1>4, <1>5, <1>6, <1>7, <2>1, <2>6, <3>3, <3>4
        DEF Volume, OpInv, WritingInv, CreatingInv, RemovalInv, Writing, Creating, Removal
    <2> QED
      BY <2>4, <2>5, <2>6
  <1> QED
    BY <1>5, <1>9, <1>10

\* Extending a file.
LEMMA NextFrame ==
    ASSUME NEW x \in Frame, NEW a \in {0} \cup Table, NEW v \in PCs, NEW y, y = SetNext(SetPc(x, v), a)
    PROVE  /\ y \in Frame /\ y.next = a /\ y.pc = v /\ y.call = x.call /\ y.cluster = x.cluster
           /\ y.d = x.d /\ y.n = x.n
           /\ y.size = x.size /\ y.offset = x.offset /\ y.written = x.written
  <1>1. PICK z \in Frame : z = SetPc(x, v)
    BY SetPcFrame
  <1>2. /\ z.pc = v /\ z.call = x.call /\ z.cluster = x.cluster /\ z.d = x.d /\ z.n = x.n
        /\ z.size = x.size /\ z.offset = x.offset /\ z.written = x.written
    BY <1>1, SetPcFrame
  <1>3. y = SetNext(z, a)
    BY <1>1
  <1> QED
    BY <1>2, <1>3, SetNextFrame

LEMMA ExtendStep ==
    ASSUME Volume, Extend
    PROVE  Volume'
  <1>1. FatInv /\ DirInv /\ HeadInv /\ OpenInv /\ OpInv
    BY DEF Volume
  <1>2. op.pc = "extend" /\ Writing /\ ~Removal /\ UNCHANGED dirs
    BY <1>1, CallOf DEF Extend
  <1>3. PICK w \in Outcomes :
           /\ FAT32_AllocCluster(w)
           /\ IF Allocated(w)
              THEN op' = [op EXCEPT !.pc = "link", !.next = Picked] /\ UNCHANGED file
              ELSE NoCluster
    BY DEF Extend
  <1>4. /\ FatInv' /\ DirInv' /\ HeadInv' /\ SameDirs
        /\ \A x : Origin(x) => Origin(x)'
        /\ \A x \in Table : fat[x] # FREE => fat'[x] = fat[x]
        /\ Allocated(w) => \A c : c = Picked => Unlinked(c)' /\ c \in Table /\ fat[c] = FREE
    BY <1>1, <1>2, <1>3, Allocation
  <1>5. UNCHANGED file
    BY <1>3 DEF NoCluster, Return
  <1>6. OpenInv'
    BY <1>1, <1>4, <1>5, OpenStays DEF Loose
  <1>7. CASE ~Allocated(w)
    <2>1. op' = Idle \/ op' = [Idle EXCEPT !.pc = "hung"]
      BY <1>3, <1>7 DEF NoCluster, Return
    <2> QED
      BY <1>4, <1>6, <2>1, Returned DEF Volume
  <1>8. CASE Allocated(w)
    <2>1. PICK c \in Table : c = Picked /\ Unlinked(c)' /\ fat[c] = FREE
      BY <1>4, <1>8
    <2>2. op' = SetNext(SetPc(op, "link"), c)
      BY <1>3, <1>8, <2>1 DEF SetNext, SetPc
    <2>3. op \in Frame /\ "link" \in PCs /\ c \in {0} \cup Table
      BY <1>1 DEF OpInv, PCs
    <2>4. /\ op' \in Frame /\ op'.next = c /\ op'.pc = "link" /\ op'.call = op.call /\ op'.cluster = op.cluster
          /\ op'.size = op.size /\ op'.offset = op.offset /\ op'.written = op.written
      BY <2>2, <2>3, NextFrame
    <2>5. PICK a \in Table : a = op.cluster /\ a \notin Dirs /\ fat[a] = EOF
      BY <1>1, <1>2 DEF OpInv, WritingInv, Held
    <2>6. /\ file.open /\ file.entry.kind = "file" /\ file.entry.start # 0
          /\ op.written <= op.size /\ op.offset < UnitsPerCluster
      BY <1>1, <1>2 DEF OpInv, WritingInv
    <2>7. Origin(file.entry.start)
      BY <1>1, <1>2, <2>6, OpenStart
    <2>8. c # a /\ c # file.entry.start
      BY <2>1, <2>5, <2>7, TableSize DEF Origin
    <2>9. Held(a)' /\ fat'[a] = EOF
      <3>1. Dirs' = Dirs
        BY <1>1, <1>4, DirsStay
      <3> QED
        BY <1>4, <2>5, <3>1, TableSize DEF Held
    <2> QED
      BY <1>2, <1>4, <1>5, <1>6, <2>1, <2>4, <2>5, <2>6, <2>8, <2>9
      DEF Volume, OpInv, WritingInv, CreatingInv, RemovalInv, Writing, Creating, Removal
  <1> QED
    BY <1>7, <1>8

LEMMA LinkedFrame ==
    ASSUME NEW x \in Frame, NEW c \in Table, NEW v \in PCs, 0 < UnitsPerCluster, NEW y,
           y = SetOffset(SetNext(SetCluster(SetPc(x, v), c), 0), 0)
    PROVE  /\ y \in Frame /\ y.pc = v /\ y.call = x.call /\ y.cluster = c
           /\ y.size = x.size /\ y.offset < UnitsPerCluster /\ y.written = x.written
  <1>1. PICK z1 \in Frame : z1 = SetPc(x, v)
    BY SetPcFrame
  <1>2. z1.pc = v /\ z1.call = x.call /\ z1.size = x.size /\ z1.written = x.written
    BY <1>1, SetPcFrame
  <1>0. c \in {0} \cup Table /\ 0 \in {0} \cup Table
    OBVIOUS
  <1>3. PICK z2 \in Frame : z2 = SetCluster(z1, c)
    BY <1>0, SetClusterFrame
  <1>4. z2.pc = v /\ z2.call = x.call /\ z2.size = x.size /\ z2.written = x.written /\ z2.cluster = c
    BY <1>0, <1>2, <1>3, SetClusterFrame
  <1>5. PICK z3 \in Frame : z3 = SetNext(z2, 0)
    BY SetNextFrame
  <1>6. z3.pc = v /\ z3.call = x.call /\ z3.size = x.size /\ z3.written = x.written /\ z3.cluster = c
    BY <1>4, <1>5, SetNextFrame
  <1>7. y = SetOffset(z3, 0)
    BY <1>1, <1>3, <1>5
  <1> QED
    BY <1>6, <1>7, SetOffsetFrame

LEMMA LinkStep ==
    ASSUME Volume, Link
    PROVE  Volume'
  <1>1. FatInv /\ DirInv /\ HeadInv /\ OpenInv /\ OpInv
    BY DEF Volume
  <1>2. op.pc = "link" /\ Writing /\ ~Removal /\ UNCHANGED <<dirs, file>>
    BY <1>1, CallOf DEF Link
  <1>3. PICK a \in Table : a = op.cluster /\ a \notin Dirs /\ fat[a] = EOF
    BY <1>1, <1>2 DEF OpInv, WritingInv, Held
  <1>4. /\ Unlinked(op.next) /\ op.next # op.cluster /\ op.next # file.entry.start
        /\ file.open /\ file.entry.kind = "file" /\ file.entry.start # 0
        /\ op \in Frame /\ op.written <= op.size
    BY <1>1, <1>2 DEF OpInv, WritingInv
  <1>5. PICK b \in Table : b = op.next /\ Loose(b) /\ fat[b] = EOF /\ b \notin Dirs /\ Origin(b)
    <2>1. Loose(op.next) /\ fat[op.next] = EOF
      BY <1>4 DEF Unlinked
    <2> QED
      BY <2>1, LooseNoDir
  <1>6. fat' = fat \/ fat' = [fat EXCEPT ![a] = b]
    BY <1>3, <1>5 DEF Link, FAT32_WriteFATEntry
  <1>7. /\ FatInv'
        /\ \A x : Origin(x) /\ x # b => Origin(x)'
        /\ \A x \in Table : x # a => fat'[x] = fat[x]
    <2>1. CASE fat' = fat
      BY <1>1, <2>1 DEF FatInv, FatTypes, Origin
    <2>2. CASE fat' = [fat EXCEPT ![a] = b]
      BY <1>1, <1>3, <1>5, <2>2, FatLink
    <2> QED
      BY <1>6, <2>1, <2>2
  <1>8. SameDirs
    BY <1>1, <1>2 DEF SameDirs, DirInv
  <1>9. DirInv' /\ Dirs' = Dirs
    <2>1. \A d \in Dirs : fat'[d] \notin Table
      BY <1>1, <1>3, <1>7 DEF DirInv
    <2> QED
      BY <1>1, <1>8, <2>1, DirsStay
  <1>10. HeadInv'
    <2>1. \A c : Origin(c) /\ ~Loose(c) => Origin(c)'
      BY <1>5, <1>7
    <2>2. \A d \in Dirs, i \in Slots : ~DoomedAt(d, i)
      BY <1>2 DEF DoomedAt
    <2> QED
      BY <1>1, <1>8, <2>1, <2>2, HeadsStay
  <1>11. OpenInv'
    <2>1. Loose(file.entry.start) => Origin(file.entry.start)'
      <3>1. PICK x : x = file.entry.start
        OBVIOUS
      <3>2. Loose(x) => Origin(x)'
        BY <1>4, <1>5, <1>7, <3>1 DEF Loose
      <3> QED
        BY <1>2, <3>1, <3>2
    <2> QED
      BY <1>1, <1>2, <1>8, <2>1, OpenStays
  <1>12. CASE op' = Idle
    BY <1>7, <1>9, <1>10, <1>11, <1>12, Returned DEF Volume
  <1>13. CASE op' # Idle
    <2>1. op' = SetOffset(SetNext(SetCluster(SetPc(op, "data"), b), 0), 0)
      BY <1>5, <1>13 DEF Link, SetOffset, SetNext, SetCluster, SetPc
    <2>2. "data" \in PCs /\ 0 < UnitsPerCluster
      BY Fat32Assumption DEF PCs
    <2>3. /\ op' \in Frame /\ op'.pc = "data" /\ op'.call = op.call /\ op'.cluster = b
          /\ op'.size = op.size /\ op'.offset < UnitsPerCluster /\ op'.written = op.written
      BY <1>4, <2>1, <2>2, LinkedFrame
    <2>4. fat'[b] = EOF
      BY <1>3, <1>4, <1>5, <1>7
    <2>5. Held(b)'
      BY <1>5, <1>9, <2>4, TableSize DEF Held
    <2> QED
      BY <1>2, <1>4, <1>7, <1>9, <1>10, <1>11, <2>3, <2>4, <2>5
      DEF Volume, OpInv, WritingInv, CreatingInv, RemovalInv, Writing, Creating, Removal
  <1> QED
    BY <1>12, <1>13

\* Cutting off what is behind the last cluster written.
LEMMA NoSurplus ==
    ASSUME OpenInv, OpInv, Writing, file.entry.start = 0
    PROVE  ~Surplus
  <1>1. op.written = 0 /\ file.open
    BY DEF OpInv, WritingInv
  <1>2. file.entry.size = 0
    BY <1>1 DEF OpenInv, Proper
  <1>3. UnitsPerCluster \in Nat \ {0}
    BY Fat32Assumption
  <1>4. (0 + UnitsPerCluster - 1) \div UnitsPerCluster = 0
    <2>1. 0 + UnitsPerCluster - 1 \in Nat /\ 0 + UnitsPerCluster - 1 < UnitsPerCluster
      BY <1>3
    <2>2. \A x, u \in Nat : u > 0 /\ x < u => x \div u = 0
      OBVIOUS
    <2> QED
      BY <1>3, <2>1, <2>2
  <1>5. old_clusters * UnitsPerCluster = 0
    BY <1>2, <1>3, <1>4 DEF old_clusters
  <1> QED
    BY <1>1, <1>5 DEF Surplus

\* A successor is nobody's head: what is cut off, or comes behind a freed head, is loose.
LEMMA SuccessorLoose ==
    ASSUME DirInv, HeadInv, SameDirs, NEW b \in Table, ~Origin(b), Origin(b)',
           \A d \in Dirs, i \in Slots : DoomedAt(d, i) => ~Refers(d, i, b)
    PROVE  Loose(b)'
  <1>1. b # root_cluster /\ b # 0
    BY TableSize DEF HeadInv, FREE
  <1>2. \A d \in Dirs, i \in Slots : ~Refers(d, i, b)
    BY <1>1 DEF HeadInv, Refers
  <1>3. Dirs' = Dirs /\ \A d \in Dirs, i \in Slots : Refers(d, i, b)' <=> Refers(d, i, b)
    BY DirsStay
  <1> QED
    BY <1>1, <1>2, <1>3 DEF Loose

LEMMA TrimStep ==
    ASSUME Volume, Trim \/ TrimUnread, "torn" \notin mishap'
    PROVE  Volume'
  <1>1. FatInv /\ DirInv /\ HeadInv /\ OpenInv /\ OpInv
    BY DEF Volume
  <1>2. op.pc = "trim" /\ Writing /\ ~Removal /\ UNCHANGED <<dirs, file>>
    BY <1>1, CallOf DEF Trim, TrimUnread, disk
  <1>3. op \in Frame /\ file.open /\ file.entry.kind = "file" /\ op.written <= op.size /\ op.offset < UnitsPerCluster
        /\ (file.entry.start = 0 => op.call = "write" /\ op.written = 0)
    BY <1>1, <1>2 DEF OpInv, WritingInv
  <1>4. CASE op' = [op EXCEPT !.pc = "entry"] /\ UNCHANGED fat
    <2>1. op' = SetPc(op, "entry") /\ "entry" \in PCs
      BY <1>4 DEF SetPc, PCs
    <2>2. op' \in Frame /\ op'.pc = "entry" /\ op'.call = op.call /\ op'.written = op.written
          /\ op'.size = op.size /\ op'.offset = op.offset
      BY <1>3, <2>1, SetPcFrame
    <2>3. FatInv' /\ DirInv' /\ HeadInv' /\ SameDirs /\ \A x : Origin(x) => Origin(x)'
      BY <1>1, <1>2, <1>4, DiskStays
    <2>4. OpenInv'
      BY <1>1, <1>2, <2>3, OpenStays DEF Loose
    <2> QED
      BY <1>2, <1>3, <2>2, <2>3, <2>4
      DEF Volume, OpInv, WritingInv, CreatingInv, RemovalInv, Writing, Creating, Removal
  <1>5. CASE ~(op' = [op EXCEPT !.pc = "entry"] /\ UNCHANGED fat)
    <2>1. PICK w \in Outcomes :
              /\ fat' = FAT32_WriteFATEntry(fat, op.cluster, EndMark, w)
              /\ op' = [op EXCEPT !.pc = "free", !.next = fat[op.cluster]]
              /\ w # "fail"
      BY <1>5 DEF Trim, TrimUnread, disk
    <2>2. Surplus
      BY <1>5 DEF Trim, TrimUnread, disk
    <2>3. file.entry.start # 0
      BY <1>1, <1>2, <2>2, NoSurplus
    <2>4. PICK a \in Table : a = op.cluster /\ fat[a] # FREE
      BY <1>1, <1>2, <2>3 DEF OpInv, WritingInv, Held
    <2>5. PICK b \in Table : b = fat[a]
      <3>1. fat[a] \in Table \/ fat[a] = EOF
        BY <1>1, <2>4 DEF FatInv, FatTypes
      <3>2. fat[a] # EOF
        <4>1. ~(EOF < EOF)
          BY TableSize
        <4> QED
          BY <2>2, <2>4, <4>1 DEF Surplus
      <3> QED
        BY <3>1, <3>2
    <2>6. fat' = [fat EXCEPT ![a] = EOF]
      BY <2>1, <2>4 DEF FAT32_WriteFATEntry, EndMark
    <2>7. /\ FatInv' /\ Origin(b)' /\ ~Origin(b)
          /\ \A x : Origin(x) => Origin(x)'
          /\ \A x \in Table : x # a => fat'[x] = fat[x]
      BY <1>1, <2>5, <2>6, FatCut
    <2>8. SameDirs
      BY <1>1, <1>2 DEF SameDirs, DirInv
    <2>9. DirInv'
      <3>1. fat'[a] = EOF
        BY <1>1, <2>6 DEF FatInv, FatTypes
      <3>2. \A d \in Dirs : fat'[d] \notin Table
        BY <1>1, <2>7, <3>1, TableSize DEF DirInv
      <3> QED
        BY <1>1, <2>8, <3>2, DirsStay
    <2>10. \A d \in Dirs, i \in Slots : ~DoomedAt(d, i)
      BY <1>2 DEF DoomedAt
    <2>11. HeadInv'
      BY <1>1, <2>7, <2>8, <2>10, HeadsStay
    <2>12. OpenInv'
      BY <1>1, <1>2, <2>7, <2>8, OpenStays DEF Loose
    <2>13. Loose(b)'
      BY <1>1, <2>7, <2>8, <2>10, SuccessorLoose
    <2>14. b # file.entry.start
      BY <1>1, <1>2, <1>3, <2>3, <2>7, OpenStart
    <2>15. /\ op' \in Frame /\ op'.next = b /\ op'.pc = "free" /\ op'.call = op.call
           /\ op'.size = op.size /\ op'.offset = op.offset /\ op'.written = op.written
      <3>1. op' = SetNext(SetPc(op, "free"), b)
        BY <2>1, <2>4, <2>5 DEF SetNext, SetPc
      <3>2. "free" \in PCs /\ b \in {0} \cup Table
        BY DEF PCs
      <3> QED
        BY <1>3, <3>1, <3>2, NextFrame
    <2> QED
      BY <1>2, <1>3, <2>3, <2>7, <2>9, <2>11, <2>12, <2>13, <2>14, <2>15
      DEF Volume, OpInv, WritingInv, CreatingInv, RemovalInv, Writing, Creating, Removal
  <1> QED
    BY <1>4, <1>5

-----------------------------------------------------------------------------
\* Freeing a chain: for WriteFile,
LEMMA FreedFrame ==
    ASSUME OpInv, op.pc = "free", FreeClusterChain, NEW b \in Table, b = op.next, fat[b] \in Table \/ fat[b] = EOF
    PROVE  /\ UNCHANGED <<dirs, file>>
           /\ op' = Idle \/ (op' \in Frame /\ op'.call = op.call /\ op'.d = op.d /\ op'.n = op.n
                             /\ op'.size = op.size /\ op'.offset = op.offset /\ op'.written = op.written
                             /\ (op'.pc = After \/ (op'.pc = "free" /\ op'.next \in Table /\ op'.next = fat[b]
                                                    /\ fat' = [fat EXCEPT ![b] = FREE])))
           /\ fat' = fat \/ fat' = [fat EXCEPT ![b] = FREE]
           /\ op' # Idle /\ Removal => fat' = [fat EXCEPT ![b] = FREE]
           /\ op' = Idle /\ op # Idle => Removal /\ ("torn" \notin mishap' => TornBy(fat') = {})
  <1>1. op \in Frame
    BY DEF OpInv
  <1>2. PICK w \in Outcomes :
         /\ fat' = FAT32_WriteFATEntry(fat, op.next, FREE, w)
         /\ IF w = "ok"
            THEN /\ op' = IF ChainEnds(NextToFree)
                          THEN [op EXCEPT !.pc = After, !.next = 0]
                          ELSE [op EXCEPT !.next = NextToFree]
            ELSE /\ mishap' = mishap \cup {"error"} \cup TornBy(fat')
                 /\ op' = IF Removal THEN Idle ELSE [op EXCEPT !.pc = After, !.next = 0]
    BY DEF FreeClusterChain
  <1>3. UNCHANGED <<dirs, file>>
    BY DEF FreeClusterChain
  <1>4. fat' = fat \/ fat' = [fat EXCEPT ![b] = FREE]
    BY <1>2 DEF FAT32_WriteFATEntry
  <1>5. After \in PCs /\ 0 \in {0} \cup Table
    BY DEF After, PCs
  <1>6. LET y == SetNext(SetPc(op, After), 0)
        IN  /\ y \in Frame /\ y.pc = After /\ y.call = op.call /\ y.d = op.d /\ y.n = op.n
            /\ y.size = op.size /\ y.offset = op.offset /\ y.written = op.written
    BY <1>1, <1>5, NextFrame
  <1>7. op.pc # "idle" /\ After # "idle"
    BY DEF After
  <1>8. CASE w = "ok" /\ ~ChainEnds(NextToFree)
    <2>1. PICK c \in Table : c = fat[b]
      <3>1. ChainEnds(EOF)
        BY TableSize DEF ChainEnds
      <3> QED
        BY <1>8, <3>1 DEF NextToFree
    <2>2. op' = SetNext(op, c)
      BY <1>2, <1>8, <2>1 DEF SetNext, NextToFree
    <2>3. c \in {0} \cup Table
      OBVIOUS
    <2>4. /\ op' \in Frame /\ op'.next = c /\ op'.pc = "free" /\ op'.call = op.call /\ op'.d = op.d /\ op'.n = op.n
          /\ op'.size = op.size /\ op'.offset = op.offset /\ op'.written = op.written
      BY <1>1, <2>2, <2>3, SetNextFrame
    <2>5. op' # Idle /\ fat' = [fat EXCEPT ![b] = FREE]
      BY <1>2, <1>8, <2>4, IdleFrame DEF FAT32_WriteFATEntry
    <2> QED
      BY <1>3, <2>1, <2>4, <2>5
  <1>9. CASE (w = "ok" /\ ChainEnds(NextToFree)) \/ (w # "ok" /\ ~Removal)
    <2>1. op' = SetNext(SetPc(op, After), 0)
      BY <1>2, <1>9 DEF SetNext, SetPc
    <2>2. op' # Idle
      BY <1>6, <1>7, <2>1, IdleFrame
    <2>3. Removal => fat' = [fat EXCEPT ![b] = FREE]
      BY <1>2, <1>9 DEF FAT32_WriteFATEntry
    <2> QED
      BY <1>3, <1>4, <1>6, <2>1, <2>2, <2>3
  <1>10. CASE w # "ok" /\ Removal
    <2>1. op' = Idle /\ mishap' = mishap \cup {"error"} \cup TornBy(fat')
      BY <1>2, <1>10
    <2>2. TornBy(fat') \in {{}, {"torn"}}
      BY DEF TornBy
    <2> QED
      BY <1>3, <1>4, <1>10, <2>1, <2>2
  <1> QED
    BY <1>8, <1>9, <1>10

LEMMA FreeWriting ==
    ASSUME Volume, FreeClusterChain, Writing
    PROVE  Volume'
  <1>1. FatInv /\ DirInv /\ HeadInv /\ OpenInv /\ OpInv
    BY DEF Volume
  <1>2. op.pc = "free" /\ ~Removal
    BY <1>1, CallOf DEF FreeClusterChain
  <1>3. /\ Loose(op.next) /\ op.next # file.entry.start /\ file.open /\ file.entry.kind = "file"
        /\ file.entry.start # 0 /\ op.written <= op.size /\ op.offset < UnitsPerCluster
    BY <1>1, <1>2 DEF OpInv, WritingInv
  <1>4. PICK b \in Table : b = op.next /\ Loose(b) /\ Origin(b) /\ b \notin Dirs
    BY <1>3, LooseNoDir
  <1>5. fat[b] \in Table \/ fat[b] = EOF
    BY <1>1, <1>4 DEF FatInv, FatTypes, Origin
  <1>6. /\ UNCHANGED <<dirs, file>>
        /\ op' \in Frame /\ op'.call = op.call
        /\ op'.size = op.size /\ op'.offset = op.offset /\ op'.written = op.written
        /\ op'.pc = "entry" \/ (op'.pc = "free" /\ op'.next \in Table /\ op'.next = fat[b] /\ fat' = [fat EXCEPT ![b] = FREE])
        /\ fat' = fat \/ fat' = [fat EXCEPT ![b] = FREE]
    <2>1. op # Idle /\ After = "entry"
      BY <1>2, IdleFrame DEF After
    <2> QED
      BY <1>1, <1>2, <1>4, <1>5, <2>1, FreedFrame
  <1>7. /\ FatInv'
        /\ \A x : Origin(x) /\ x # b => Origin(x)'
        /\ \A x \in Table : x # b => fat'[x] = fat[x]
        /\ fat' = [fat EXCEPT ![b] = FREE] => \A c \in Table : c = fat[b] => Origin(c)' /\ ~Origin(c)
    <2>1. CASE fat' = fat
      BY <1>1, <1>4, <2>1 DEF FatInv, FatTypes, Origin
    <2>2. CASE fat' = [fat EXCEPT ![b] = FREE]
      BY <1>1, <1>4, <2>2, FatFree
    <2> QED
      BY <1>6, <2>1, <2>2
  <1>8. SameDirs
    BY <1>1, <1>6 DEF SameDirs, DirInv
  <1>9. DirInv'
    <2>1. \A d \in Dirs : fat'[d] \notin Table
      BY <1>1, <1>4, <1>7 DEF DirInv
    <2> QED
      BY <1>1, <1>8, <2>1, DirsStay
  <1>10. \A d \in Dirs, i \in Slots : ~DoomedAt(d, i)
    BY <1>2 DEF DoomedAt
  <1>11. HeadInv'
    BY <1>1, <1>4, <1>7, <1>8, <1>10, HeadsStay
  <1>12. OpenInv'
    <2>1. Loose(file.entry.start) => Origin(file.entry.start)'
      <3>1. PICK x : x = file.entry.start
        OBVIOUS
      <3>2. Loose(x) => Origin(x)'
        BY <1>3, <1>4, <1>7, <3>1 DEF Loose
      <3> QED
        BY <1>6, <3>1, <3>2
    <2> QED
      BY <1>1, <1>6, <1>8, <2>1, OpenStays
  <1>13. CASE op'.pc = "entry"
    BY <1>3, <1>6, <1>7, <1>9, <1>11, <1>12, <1>13
    DEF Volume, OpInv, WritingInv, CreatingInv, RemovalInv, Writing, Creating, Removal
  <1>14. CASE op'.pc = "free"
    <2>1. PICK c \in Table : c = op'.next /\ c = fat[b] /\ fat' = [fat EXCEPT ![b] = FREE]
      BY <1>6, <1>14
    <2>2. Origin(c)' /\ ~Origin(c)
      BY <1>7, <2>1
    <2>3. Loose(c)'
      BY <1>1, <1>8, <1>10, <2>2, SuccessorLoose
    <2>4. c # file.entry.start
      BY <1>1, <1>2, <1>3, <2>2, OpenStart
    <2> QED
      BY <1>3, <1>6, <1>7, <1>9, <1>11, <1>12, <1>14, <2>1, <2>3, <2>4
      DEF Volume, OpInv, WritingInv, CreatingInv, RemovalInv, Writing, Creating, Removal
  <1> QED
    BY <1>6, <1>13, <1>14

\* and for the removals, which keep the entry until the chain is gone.
LEMMA RemovalTarget ==
    ASSUME Volume, Removal
    PROVE  \E i \in Slots :
             /\ FirstAt(op.d, i, name_to_83[op.n]) /\ op.d \in Dirs /\ op.n \in Names
             /\ First(Hits(op.d, op.n)) = <<1, i>>
             /\ FAT32_FindEntryAny(op.d, op.n) = dirs[op.d][i]
             /\ Slot(op.d, <<1, i>>) = dirs[op.d][i] /\ Chain(op.d) = <<op.d>>
             /\ IsEntry(dirs[op.d][i])
             /\ \A d \in Dirs, j \in Slots : DoomedAt(d, j) <=> d = op.d /\ j = i
             /\ op.pc = "free" => /\ dirs[op.d][i].start # 0
                                  /\ \/ op.next = dirs[op.d][i].start /\ Origin(dirs[op.d][i].start)
                                     \/ fat[dirs[op.d][i].start] = FREE /\ Loose(op.next)
             /\ op.pc = "mark" /\ dirs[op.d][i].start # 0 => fat[dirs[op.d][i].start] = FREE
  <1>1. FatInv /\ DirInv /\ OpInv /\ op.d \in Dirs /\ op.n \in Names
    BY DEF Volume, OpInv, RemovalInv
  <1>2. PICK i \in Slots :
             /\ FirstAt(op.d, i, name_to_83[op.n])
             /\ op.pc = "free" => /\ dirs[op.d][i].start # 0
                                  /\ \/ op.next = dirs[op.d][i].start /\ Origin(dirs[op.d][i].start)
                                     \/ fat[dirs[op.d][i].start] = FREE /\ Loose(op.next)
             /\ op.pc = "mark" /\ dirs[op.d][i].start # 0 => fat[dirs[op.d][i].start] = FREE
    BY <1>1 DEF OpInv, RemovalInv
  <1>3. \A d \in Dirs, j \in Slots : DoomedAt(d, j) <=> d = op.d /\ j = i
    BY <1>2, FirstUnique DEF DoomedAt, FirstAt
  <1>4. First(Hits(op.d, op.n)) = <<1, i>> /\ FAT32_FindEntryAny(op.d, op.n) = dirs[op.d][i]
    BY <1>1, <1>2, Lookup
  <1>5. Slot(op.d, <<1, i>>) = dirs[op.d][i] /\ Chain(op.d) = <<op.d>>
    BY <1>1, DirSlots
  <1>6. IsEntry(dirs[op.d][i])
    BY <1>2 DEF FirstAt, Answers
  <1> QED
    BY <1>1, <1>2, <1>3, <1>4, <1>5, <1>6

\* A removal given up before anything was freed.
LEMMA HeadsBack ==
    ASSUME FatInv, DirInv, HeadInv, UNCHANGED <<fat, dirs>>, ~Removal',
           \A d \in Dirs, i \in Slots : DoomedAt(d, i) /\ dirs[d][i].start # 0 => Origin(dirs[d][i].start)
    PROVE  FatInv' /\ DirInv' /\ HeadInv'
  <1>1. FatInv' /\ DirInv' /\ Dirs' = Dirs
    BY DEF FatInv, FatTypes, DirInv, Dirs
  <1>2. /\ \A x : Origin(x)' <=> Origin(x)
        /\ \A d, i, c : Refers(d, i, c)' <=> Refers(d, i, c)
    BY DEF Origin, Refers
  <1>3. ASSUME NEW d \in Dirs, NEW i \in Slots, IsEntry(dirs'[d][i]), dirs'[d][i].start # 0
        PROVE  Origin(dirs[d][i].start)'
    <2>1. Origin(dirs[d][i].start)
      BY <1>3 DEF HeadInv
    <2>2. PICK x : x = dirs[d][i].start
      OBVIOUS
    <2> QED
      BY <1>2, <2>1, <2>2
  <1> QED
    BY <1>1, <1>2, <1>3 DEF HeadInv

LEMMA FreeRemoval ==
    ASSUME Volume, FreeClusterChain, Removal, "torn" \notin mishap'
    PROVE  Volume'
  <1>1. FatInv /\ DirInv /\ HeadInv /\ OpenInv /\ OpInv
    BY DEF Volume
  <1>2. op.pc = "free" /\ ~file.open /\ op # Idle
    BY <1>1, IdleFrame DEF FreeClusterChain, OpInv, RemovalInv
  <1>3. PICK i \in Slots :
             /\ FirstAt(op.d, i, name_to_83[op.n]) /\ op.d \in Dirs /\ op.n \in Names
             /\ FAT32_FindEntryAny(op.d, op.n) = dirs[op.d][i]
             /\ IsEntry(dirs[op.d][i])
             /\ \A d \in Dirs, j \in Slots : DoomedAt(d, j) <=> d = op.d /\ j = i
             /\ dirs[op.d][i].start # 0
             /\ \/ op.next = dirs[op.d][i].start /\ Origin(dirs[op.d][i].start)
                \/ fat[dirs[op.d][i].start] = FREE /\ Loose(op.next)
    BY <1>2, RemovalTarget
  <1>4. PICK s \in Table : s = dirs[op.d][i].start
    <2>1. dirs[op.d][i] \in SlotValues
      BY <1>1, <1>3 DEF DirInv
    <2>2. dirs[op.d][i] \in Entries
      BY <1>3, <2>1, SlotKinds
    <2> QED
      BY <1>3, <2>2 DEF Entries
  <1>5. PICK b \in Table : b = op.next /\ Origin(b)
    BY <1>3, <1>4 DEF Loose, Origin
  <1>6. (b = s /\ Origin(s)) \/ (fat[s] = FREE /\ Loose(b) /\ b # s)
    BY <1>3, <1>4, <1>5 DEF Origin
  <1>7. fat[b] \in Table \/ fat[b] = EOF
    BY <1>1, <1>5 DEF FatInv, FatTypes, Origin
  <1>8. Refers(op.d, i, s)
    BY <1>3, <1>4 DEF Refers
  <1>9. /\ UNCHANGED <<dirs, file>>
        /\ op' = Idle \/ (op' \in Frame /\ op'.call = op.call /\ op'.d = op.d /\ op'.n = op.n
                          /\ (op'.pc = "mark" \/ (op'.pc = "free" /\ op'.next \in Table /\ op'.next = fat[b])))
        /\ fat' = fat \/ fat' = [fat EXCEPT ![b] = FREE]
        /\ op' # Idle => fat' = [fat EXCEPT ![b] = FREE]
        /\ op' = Idle => TornBy(fat') = {}
    <2>1. After = "mark"
      BY DEF After
    <2> QED
      BY <1>1, <1>2, <1>5, <1>7, <2>1, FreedFrame
  <1>10. OpenInv'
    BY <1>2, <1>9 DEF OpenInv
  <1>11. CASE op' = Idle
    <2>1. fat'[s] # FREE
      <3>1. TornBy(fat') = (IF s # 0 /\ fat'[s] = FREE THEN {"torn"} ELSE {})
        BY <1>3, <1>4 DEF TornBy
      <3>2. s # 0
        BY <1>3, <1>4
      <3> QED
        BY <1>9, <1>11, <3>1, <3>2
    <2>2. fat' = fat /\ b = s
      <3>1. CASE fat' = fat
        BY <1>6, <2>1, <3>1
      <3>2. CASE fat' = [fat EXCEPT ![b] = FREE]
        <4>1. fat'[b] = FREE /\ (b # s => fat'[s] = fat[s])
          BY <1>1, <3>2 DEF FatInv, FatTypes
        <4> QED
          BY <1>6, <2>1, <4>1
      <3> QED
        BY <1>9, <3>1, <3>2
    <2>3. FatInv' /\ DirInv' /\ HeadInv'
      <3>1. ~Removal'
        BY <1>11, Returned
      <3> QED
        BY <1>1, <1>3, <1>4, <1>5, <1>9, <2>2, <3>1, HeadsBack
    <2> QED
      BY <1>10, <1>11, <2>3, Returned DEF Volume
  <1>12. CASE op' # Idle
    <2>1. fat' = [fat EXCEPT ![b] = FREE]
      BY <1>9, <1>12
    <2>2. /\ FatInv' /\ fat'[b] = FREE
          /\ \A c \in Table : c = fat[b] => Origin(c)' /\ ~Origin(c) /\ c # b
          /\ \A x : Origin(x) /\ x # b => Origin(x)'
          /\ \A x \in Table : x # b => fat'[x] = fat[x]
      BY <1>1, <1>5, <2>1, FatFree
    <2>3. SameDirs
      BY <1>1, <1>9 DEF SameDirs, DirInv
    <2>4. /\ Dirs' = Dirs
          /\ \A d \in Dirs, j \in Slots : \A t : FirstAt(d, j, t)' <=> FirstAt(d, j, t)
      BY <1>1, <2>3, DirsStay
    <2>5. DirInv'
      <3>1. \A d \in Dirs : fat'[d] \notin Table
        BY <1>1, <2>2, TableSize DEF DirInv
      <3> QED
        BY <1>1, <2>3, <3>1, DirsStay
    <2>6. Removal' /\ \A d \in Dirs, j \in Slots : DoomedAt(d, j) => DoomedAt(d, j)'
      BY <1>9, <1>12 DEF Removal, DoomedAt, FirstAt, Answers
    <2>7. HeadInv'
      <3>1. ASSUME NEW c, Origin(c), ~Loose(c)
            PROVE  Origin(c)' \/ \E d \in Dirs, j \in Slots : Refers(d, j, c) /\ DoomedAt(d, j)
        <4>1. CASE c # b
          BY <2>2, <3>1, <4>1
        <4>2. CASE c = b
          BY <1>3, <1>6, <1>8, <3>1, <4>2
        <4> QED
          BY <4>1, <4>2
      <3> QED
        BY <1>1, <2>3, <2>6, <3>1, HeadsStay
    <2>8. fat'[s] = FREE /\ dirs'[op.d][i].start = s /\ s # 0
      BY <1>3, <1>4, <1>6, <1>9, <2>2
    <2>9. FirstAt(op.d, i, name_to_83[op.n])'
      BY <1>3, <1>9, <1>12 DEF FirstAt, Answers
    <2>10. op'.pc = "free" => Loose(op.next)'
      <3> SUFFICES ASSUME op'.pc = "free" PROVE Loose(op.next)'
        OBVIOUS
      <3>1. PICK c \in Table : c = op'.next /\ c = fat[b]
        BY <1>9, <1>12
      <3>2. Origin(c)' /\ ~Origin(c) /\ c # b
        BY <2>2, <3>1
      <3>3. c # s
        BY <1>1, <1>5, <1>6, <3>1, <3>2 DEF FatInv
      <3>4. \A d \in Dirs, j \in Slots : DoomedAt(d, j) => ~Refers(d, j, c)
        BY <1>3, <1>4, <3>3 DEF Refers
      <3>5. Loose(c)'
        BY <1>1, <2>3, <3>2, <3>4, SuccessorLoose
      <3> QED
        BY <3>1, <3>5
    <2>11. op'.d = op.d /\ op'.n = op.n /\ op' \in Frame /\ op'.call = op.call /\ op'.pc \in {"free", "mark"}
      BY <1>9, <1>12
    <2>12. RemovalInv'
      BY <1>2, <1>3, <1>9, <2>4, <2>8, <2>9, <2>10, <2>11 DEF RemovalInv
    <2>13. OpInv'
      BY <2>11, <2>12 DEF OpInv, WritingInv, CreatingInv, Writing, Creating, Removal
    <2> QED
      BY <1>10, <2>2, <2>5, <2>7, <2>13 DEF Volume
  <1> QED
    BY <1>11, <1>12

-----------------------------------------------------------------------------
\* One slot of a directory is written,
LEMMA SlotWrite ==
    ASSUME DirInv, NEW d \in Dirs, NEW i \in Slots, NEW v \in SlotValues, dirs' = [dirs EXCEPT ![d][i] = v]
    PROVE  /\ dirs' \in [Table -> [Slots -> SlotValues]] /\ d \in Table
           /\ dirs'[d][i] = v
           /\ \A e \in Table, j \in Slots : e # d \/ j # i => dirs'[e][j] = dirs[e][j]
  <1>1. d \in Table /\ dirs \in [Table -> [Slots -> SlotValues]]
    BY DEF DirInv
  <1> QED
    BY <1>1

\* with the same kind of entry,
LEMMA SlotRewrite ==
    ASSUME FatInv, DirInv, HeadInv, ~Removal, ~Removal', UNCHANGED fat,
           NEW d \in Dirs, NEW i \in Slots, NEW v \in Entries, Proper(v), dirs' = [dirs EXCEPT ![d][i] = v],
           IsEntry(dirs[d][i]), v.kind = dirs[d][i].kind,
           v.start = dirs[d][i].start \/ (v.kind = "file" /\ Loose(v.start))
    PROVE  FatInv' /\ DirInv' /\ HeadInv' /\ Dirs' = Dirs
  <1>1. v \in SlotValues /\ IsEntry(v) /\ v # End /\ v.kind \in {"file", "dir"}
    <2>1. v \in SlotValues
      BY DEF SlotValues
    <2> QED
      BY <2>1, SlotKinds DEF Entries, IsEntry
  <1>2. /\ dirs' \in [Table -> [Slots -> SlotValues]] /\ d \in Table
        /\ dirs'[d][i] = v
        /\ \A e \in Table, j \in Slots : e # d \/ j # i => dirs'[e][j] = dirs[e][j]
    BY ZenonT(60), <1>1, SlotWrite
  <1>3. FatInv' /\ \A x : Origin(x)' <=> Origin(x)
    BY DEF FatInv, FatTypes, Origin
  <1>4. \A e \in Table, j \in Slots : /\ IsEntry(dirs'[e][j]) <=> IsEntry(dirs[e][j])
                                      /\ dirs'[e][j].kind = dirs[e][j].kind
                                      /\ dirs[e][j].kind = "dir" => dirs'[e][j].start = dirs[e][j].start
    BY <1>1, <1>2
  <1>5. root_cluster \in Table /\ root_cluster \in Dirs /\ Dirs \subseteq Table
    BY TableSize DEF Dirs, DirInv
  <1>6. Dirs' = Dirs
    <2> DEFINE J == {j \in Slots : dirs[root_cluster][j].kind = "dir"}
               L == {dirs'[root_cluster][j].start : j \in J}
               R == {dirs[root_cluster][j].start : j \in J}
    <2>1. J = {j \in Slots : dirs'[root_cluster][j].kind = "dir"}
      BY <1>4, <1>5
    <2>2. \A j \in J : dirs'[root_cluster][j].start = dirs[root_cluster][j].start
      BY <1>4, <1>5
    <2>3. L = R
      BY <2>2
    <2> QED
      BY <2>1, <2>3 DEF Dirs
  <1>7. DirInv'
    <2>1. \A e \in Dirs : e \in Table /\ fat'[e] \notin Table
      BY DEF DirInv
    <2>2. ASSUME NEW e \in Dirs, NEW j \in Slots, NEW k \in Slots, j <= k, dirs'[e][j] = End
          PROVE  dirs'[e][k] = End
      <3>1. e # d \/ j # i
        BY <1>1, <1>2, <2>2
      <3>2. dirs[e][j] = End
        BY <1>2, <1>5, <2>2, <3>1
      <3>3. dirs[e][k] = End
        BY <2>2, <3>2 DEF DirInv
      <3>4. e # d \/ k # i
        BY <3>3, SlotKinds DEF SlotValues
      <3> QED
        BY <1>2, <1>5, <3>3, <3>4
    <2>3. ASSUME NEW e \in Dirs, NEW j \in Slots, IsEntry(dirs'[e][j]) PROVE Proper(dirs'[e][j])
      BY <1>2, <1>5, <2>3 DEF DirInv
    <2>4. ASSUME NEW e \in Dirs, NEW j \in Slots, e # root_cluster PROVE dirs'[e][j].kind # "dir"
      BY <1>4, <1>5, <2>4 DEF DirInv
    <2> QED
      BY <1>2, <1>6, <2>1, <2>2, <2>3, <2>4 DEF DirInv
  <1>8. \A e \in Dirs, j \in Slots : IsEntry(dirs[e][j]) /\ dirs[e][j].start # 0 => Origin(dirs[e][j].start)
    BY DEF HeadInv, DoomedAt
  <1>9. ASSUME NEW e \in Dirs, NEW j \in Slots, IsEntry(dirs'[e][j]), dirs'[e][j].start # 0
        PROVE  Origin(dirs'[e][j].start) /\ dirs'[e][j].start # root_cluster
    <2>1. CASE e # d \/ j # i
      <3>1. dirs'[e][j] = dirs[e][j]
        BY <1>2, <1>5, <2>1
      <3> QED
        BY <1>8, <1>9, <3>1 DEF HeadInv, Refers
    <2>2. CASE e = d /\ j = i
      <3>1. dirs'[e][j] = v
        BY <1>2, <2>2
      <3> QED
        BY <1>8, <1>9, <2>2, <3>1 DEF HeadInv, Refers, Loose
    <2> QED
      BY <2>1, <2>2
  <1>10. ASSUME NEW e \in Dirs, NEW f \in Dirs, NEW j \in Slots, NEW k \in Slots, NEW c \in Table,
                Refers(e, j, c)', Refers(f, k, c)'
         PROVE  e = f /\ j = k
    <2>1. IsEntry(dirs'[e][j]) /\ dirs'[e][j].start = c /\ IsEntry(dirs'[f][k]) /\ dirs'[f][k].start = c
      BY <1>10 DEF Refers
    <2>2. CASE v.start = dirs[d][i].start
      <3>1. Refers(e, j, c) /\ Refers(f, k, c)
        BY <1>2, <1>5, <2>1, <2>2 DEF Refers
      <3> QED
        BY <3>1 DEF HeadInv
    <2>3. CASE Loose(v.start)
      <3>1. (e # d \/ j # i) => Refers(e, j, c)
        BY <1>2, <1>5, <2>1 DEF Refers
      <3>2. (f # d \/ k # i) => Refers(f, k, c)
        BY <1>2, <1>5, <2>1 DEF Refers
      <3>3. (e = d /\ j = i) \/ (f = d /\ k = i) => c = v.start
        BY <1>2, <2>1
      <3> QED
        BY <2>3, <3>1, <3>2, <3>3 DEF HeadInv, Loose
    <2> QED
      BY <2>2, <2>3
  <1>11. HeadInv'
    <2>1. Origin(root_cluster)'
      BY <1>3 DEF HeadInv
    <2>2. \A e \in Dirs, j \in Slots : ~Refers(e, j, root_cluster)'
      BY <1>5, <1>9, TableSize DEF Refers, FREE
    <2>3. ASSUME NEW e \in Dirs, NEW j \in Slots, IsEntry(dirs'[e][j]), dirs'[e][j].start # 0
          PROVE  Origin(dirs[e][j].start)'
      <3>1. PICK x : x = dirs'[e][j].start
        OBVIOUS
      <3>2. Origin(x)'
        BY <1>3, <1>9, <2>3, <3>1
      <3> QED
        BY <3>1, <3>2
    <2> QED
      BY <1>6, <1>10, <2>1, <2>2, <2>3 DEF HeadInv
  <1> QED
    BY <1>3, <1>6, <1>7, <1>11

\* with a new entry,
LEMMA NewDirSlots ==
    ASSUME NEW j \in Slots, NEW k \in Slots
    PROVE  /\ ~IsEntry(NewDir[j]) /\ NewDir[j].kind # "dir"
           /\ j <= k /\ NewDir[j] = End => NewDir[k] = End
  <1>1. NewDir[j] = (IF j = 1 THEN Dots ELSE End) /\ NewDir[k] = (IF k = 1 THEN Dots ELSE End)
    BY DEF NewDir, Blank, Slots
  <1>2. Dots # End /\ ~IsEntry(Dots) /\ ~IsEntry(End) /\ Dots.kind # "dir" /\ End.kind # "dir"
    BY SMT DEF Dots, End, IsEntry
  <1>3. j <= k /\ k = 1 => j = 1
    BY DEF Slots
  <1> QED
    BY <1>1, <1>2, <1>3

LEMMA SlotFill ==
    ASSUME FatInv, DirInv, HeadInv, ~Removal, ~Removal', UNCHANGED fat,
           NEW d \in Dirs, NEW i \in Slots, NEW v \in Entries, Proper(v), dirs' = [dirs EXCEPT ![d][i] = v],
           Usable(dirs[d][i]), \A j \in 1..(i - 1) : ~Usable(dirs[d][j]),
           v.start = 0 \/ Loose(v.start),
           v.kind = "dir" => d = root_cluster /\ Loose(v.start) /\ fat[v.start] \notin Table /\ dirs[v.start] = NewDir
    PROVE  FatInv' /\ DirInv' /\ HeadInv'
  <1>1. v \in SlotValues /\ IsEntry(v) /\ v # End /\ v.kind \in {"file", "dir"} /\ ~IsEntry(dirs[d][i])
    <2>1. v \in SlotValues /\ dirs[d][i] \in SlotValues
      BY DEF SlotValues, DirInv
    <2> QED
      BY <2>1, SlotKinds DEF Entries, IsEntry
  <1>2. /\ dirs' \in [Table -> [Slots -> SlotValues]] /\ d \in Table
        /\ dirs'[d][i] = v
        /\ \A e \in Table, j \in Slots : e # d \/ j # i => dirs'[e][j] = dirs[e][j]
    <2>1. v \in SlotValues
      BY <1>1
    <2>2. d \in Table /\ dirs \in [Table -> [Slots -> SlotValues]]
      BY DEF DirInv
    <2>3. dirs' = [dirs EXCEPT ![d] = [dirs[d] EXCEPT ![i] = v]]
      OBVIOUS
    <2> QED
      BY <2>1, <2>2, <2>3
  <1>3. FatInv' /\ \A x : Origin(x)' <=> Origin(x)
    BY DEF FatInv, FatTypes, Origin
  <1>4. root_cluster \in Table /\ root_cluster \in Dirs /\ Dirs \subseteq Table
    BY TableSize DEF Dirs, DirInv
  <1>5. \A e \in Dirs' : e \in Dirs \/ (v.kind = "dir" /\ e = v.start)
    <2> SUFFICES ASSUME NEW e \in Dirs', e # root_cluster, e \notin Dirs PROVE v.kind = "dir" /\ e = v.start
      BY <1>4
    <2>1. PICK j \in Slots : dirs'[root_cluster][j].kind = "dir" /\ e = dirs'[root_cluster][j].start
      BY DEF Dirs
    <2>2. dirs'[root_cluster][j] # dirs[root_cluster][j]
      BY <2>1 DEF Dirs
    <2>3. d = root_cluster /\ j = i
      BY <1>2, <1>4, <2>2
    <2> QED
      BY <1>2, <2>1, <2>3
  <1>6. v.kind = "dir" => v.start \in Table /\ v.start \notin Dirs /\ \A j \in Slots : dirs'[v.start][j] = NewDir[j]
    <2> SUFFICES ASSUME v.kind = "dir"
                 PROVE  v.start \in Table /\ v.start \notin Dirs /\ \A j \in Slots : dirs'[v.start][j] = NewDir[j]
      OBVIOUS
    <2>1. v.start \in Table /\ v.start \notin Dirs
      BY LooseNoDir
    <2>2. v.start # d
      BY <2>1
    <2> QED
      BY <1>2, <2>1, <2>2
  <1>7. \A e \in Dirs', j \in Slots : e \notin Dirs => ~IsEntry(dirs'[e][j])
    BY <1>5, <1>6, NewDirSlots
  <1>8. Dirs' \subseteq Table
    BY <1>4, <1>5, <1>6
  <1>9. DirInv'
    <2>1. \A e \in Dirs' : e \in Table /\ fat'[e] \notin Table
      BY <1>5, <1>8 DEF DirInv
    <2>2. ASSUME NEW e \in Dirs', NEW j \in Slots, NEW k \in Slots, j <= k, dirs'[e][j] = End
          PROVE  dirs'[e][k] = End
      <3>1. CASE e \notin Dirs
        BY <1>5, <1>6, <2>2, <3>1, NewDirSlots
      <3>2. CASE e \in Dirs
        <4>1. e # d \/ j # i
          BY <1>1, <1>2, <2>2
        <4>2. dirs[e][j] = End
          BY <1>2, <1>4, <2>2, <3>2, <4>1
        <4>3. dirs[e][k] = End
          BY <2>2, <3>2, <4>2 DEF DirInv
        <4>4. e # d \/ k # i
          <5> SUFFICES ASSUME e = d, k = i PROVE FALSE
            OBVIOUS
          <5>1. Usable(dirs[d][j])
            BY <4>2 DEF Usable
          <5>2. j \in 1..(i - 1)
            BY <2>2, <4>1 DEF Slots
          <5> QED
            BY <5>1, <5>2
        <4> QED
          BY <1>2, <1>4, <3>2, <4>3, <4>4
      <3> QED
        BY <3>1, <3>2
    <2>3. ASSUME NEW e \in Dirs', NEW j \in Slots, IsEntry(dirs'[e][j]) PROVE Proper(dirs'[e][j])
      <3>1. e \in Dirs
        BY <1>7, <2>3
      <3> QED
        BY <1>2, <1>4, <2>3, <3>1 DEF DirInv
    <2>4. ASSUME NEW e \in Dirs', NEW j \in Slots, e # root_cluster PROVE dirs'[e][j].kind # "dir"
      <3>1. CASE e \in Dirs
        BY <1>2, <1>4, <2>4, <3>1 DEF DirInv
      <3>2. CASE e \notin Dirs
        BY <1>5, <1>6, <3>2, NewDirSlots
      <3> QED
        BY <3>1, <3>2
    <2> QED
      BY <1>2, <2>1, <2>2, <2>3, <2>4 DEF DirInv
  <1>10. \A e \in Dirs, j \in Slots : IsEntry(dirs[e][j]) /\ dirs[e][j].start # 0 => Origin(dirs[e][j].start)
    BY DEF HeadInv, DoomedAt
  <1>11. ASSUME NEW e \in Dirs', NEW j \in Slots, IsEntry(dirs'[e][j])
         PROVE  /\ e \in Dirs
                /\ (e # d \/ j # i) => dirs'[e][j] = dirs[e][j]
                /\ (e = d /\ j = i) => dirs'[e][j] = v
    BY <1>2, <1>4, <1>7, <1>11
  <1>12. ASSUME NEW e \in Dirs', NEW j \in Slots, IsEntry(dirs'[e][j]), dirs'[e][j].start # 0
         PROVE  Origin(dirs'[e][j].start) /\ dirs'[e][j].start # root_cluster
    <2>1. CASE e # d \/ j # i
      BY <1>10, <1>11, <1>12, <2>1 DEF HeadInv, Refers
    <2>2. CASE e = d /\ j = i
      BY <1>11, <1>12, <2>2 DEF Loose
    <2> QED
      BY <2>1, <2>2
  <1>13. ASSUME NEW e \in Dirs', NEW f \in Dirs', NEW j \in Slots, NEW k \in Slots, NEW c \in Table,
                Refers(e, j, c)', Refers(f, k, c)'
         PROVE  e = f /\ j = k
    <2>1. IsEntry(dirs'[e][j]) /\ dirs'[e][j].start = c /\ IsEntry(dirs'[f][k]) /\ dirs'[f][k].start = c
      BY <1>13 DEF Refers
    <2>2. e \in Dirs /\ f \in Dirs
      BY <1>11, <2>1
    <2>3. (e # d \/ j # i) => Refers(e, j, c)
      BY <1>11, <2>1 DEF Refers
    <2>4. (f # d \/ k # i) => Refers(f, k, c)
      BY <1>11, <2>1 DEF Refers
    <2>5. (e = d /\ j = i) \/ (f = d /\ k = i) => Loose(c)
      <3>1. c # 0
        BY TableSize DEF FREE
      <3> QED
        BY <1>2, <2>1, <3>1
    <2> QED
      BY <2>2, <2>3, <2>4, <2>5 DEF HeadInv, Loose
  <1>14. HeadInv'
    <2>1. Origin(root_cluster)'
      BY <1>3 DEF HeadInv
    <2>2. \A e \in Dirs', j \in Slots : ~Refers(e, j, root_cluster)'
      BY <1>4, <1>12, TableSize DEF Refers, FREE
    <2>3. ASSUME NEW e \in Dirs', NEW j \in Slots, IsEntry(dirs'[e][j]), dirs'[e][j].start # 0
          PROVE  Origin(dirs[e][j].start)'
      <3>1. PICK x : x = dirs'[e][j].start
        OBVIOUS
      <3>2. Origin(x)'
        BY <1>3, <1>12, <2>3, <3>1
      <3> QED
        BY <3>1, <3>2
    <2> QED
      BY <1>13, <2>1, <2>2, <2>3 DEF HeadInv
  <1> QED
    BY <1>3, <1>9, <1>14

\* or with the mark of a deleted one.
LEMMA SlotDelete ==
    ASSUME FatInv, DirInv, HeadInv, ~Removal', UNCHANGED fat,
           NEW d \in Dirs, NEW i \in Slots, dirs' = [dirs EXCEPT ![d][i] = Deleted], IsEntry(dirs[d][i]),
           \A e \in Dirs, j \in Slots : DoomedAt(e, j) => e = d /\ j = i
    PROVE  FatInv' /\ DirInv' /\ HeadInv'
  <1>1. /\ Deleted \in SlotValues /\ ~IsEntry(Deleted) /\ Deleted # End /\ Deleted.kind # "dir"
        /\ dirs[d][i] # End
    BY SMT DEF SlotValues, Deleted, End, IsEntry
  <1>2. /\ dirs' \in [Table -> [Slots -> SlotValues]] /\ d \in Table
        /\ dirs'[d][i] = Deleted
        /\ \A e \in Table, j \in Slots : e # d \/ j # i => dirs'[e][j] = dirs[e][j]
    BY ZenonT(60), <1>1, SlotWrite
  <1>3. FatInv' /\ \A x : Origin(x)' <=> Origin(x)
    BY DEF FatInv, FatTypes, Origin
  <1>4. root_cluster \in Table /\ root_cluster \in Dirs /\ Dirs \subseteq Table
    BY TableSize DEF Dirs, DirInv
  <1>5. \A e \in Dirs' : e \in Dirs
    <2> SUFFICES ASSUME NEW e \in Dirs', e # root_cluster PROVE e \in Dirs
      BY <1>4
    <2>1. PICK j \in Slots : dirs'[root_cluster][j].kind = "dir" /\ e = dirs'[root_cluster][j].start
      BY DEF Dirs
    <2>2. dirs'[root_cluster][j] = dirs[root_cluster][j]
      BY <1>1, <1>2, <1>4, <2>1
    <2> QED
      BY <2>1, <2>2 DEF Dirs
  <1>6. ASSUME NEW e \in Dirs', NEW j \in Slots, IsEntry(dirs'[e][j])
        PROVE  e \in Dirs /\ dirs'[e][j] = dirs[e][j] /\ (e # d \/ j # i)
    BY <1>1, <1>2, <1>4, <1>5, <1>6
  <1>7. DirInv'
    <2>1. \A e \in Dirs' : e \in Table /\ fat'[e] \notin Table
      BY <1>5 DEF DirInv
    <2>2. ASSUME NEW e \in Dirs', NEW j \in Slots, NEW k \in Slots, j <= k, dirs'[e][j] = End
          PROVE  dirs'[e][k] = End
      <3>1. e # d \/ j # i
        BY <1>1, <1>2, <2>2
      <3>2. dirs[e][j] = End
        BY <1>2, <1>4, <1>5, <2>2, <3>1
      <3>3. dirs[e][k] = End
        BY <1>5, <2>2, <3>2 DEF DirInv
      <3>4. e # d \/ k # i
        BY <1>1, <3>3
      <3> QED
        BY <1>2, <1>4, <1>5, <3>3, <3>4
    <2>3. ASSUME NEW e \in Dirs', NEW j \in Slots, IsEntry(dirs'[e][j]) PROVE Proper(dirs'[e][j])
      BY <1>6, <2>3 DEF DirInv
    <2>4. ASSUME NEW e \in Dirs', NEW j \in Slots, e # root_cluster PROVE dirs'[e][j].kind # "dir"
      BY <1>1, <1>2, <1>4, <1>5, <2>4 DEF DirInv
    <2> QED
      BY <1>2, <2>1, <2>2, <2>3, <2>4 DEF DirInv
  <1>8. HeadInv'
    <2>1. Origin(root_cluster)'
      BY <1>3 DEF HeadInv
    <2>2. \A e \in Dirs', j \in Slots : \A c : Refers(e, j, c)' => Refers(e, j, c) /\ e \in Dirs
      BY <1>6 DEF Refers
    <2>3. ASSUME NEW e \in Dirs', NEW j \in Slots, IsEntry(dirs'[e][j]), dirs'[e][j].start # 0
          PROVE  Origin(dirs[e][j].start)'
      <3>1. e \in Dirs /\ dirs'[e][j] = dirs[e][j] /\ ~DoomedAt(e, j)
        BY <1>6, <2>3
      <3>2. PICK x : x = dirs'[e][j].start
        OBVIOUS
      <3>3. Origin(x)
        BY <2>3, <3>1, <3>2 DEF HeadInv
      <3>4. Origin(x)'
        BY <1>3, <3>3
      <3> QED
        BY <3>2, <3>4
    <2>4. \A e \in Dirs', j \in Slots : ~Refers(e, j, root_cluster)'
      BY <2>2 DEF HeadInv
    <2>5. \A e, f \in Dirs', j, k \in Slots, c \in Table : Refers(e, j, c)' /\ Refers(f, k, c)' => e = f /\ j = k
      BY <2>2 DEF HeadInv
    <2> QED
      BY <2>1, <2>3, <2>4, <2>5 DEF HeadInv
  <1> QED
    BY <1>3, <1>7, <1>8

-----------------------------------------------------------------------------
\* FAT32_WriteDirEntry at the end of a write.
LEMMA EntryWritten ==
    ASSUME Volume, WriteEntry
    PROVE  \E d \in Dirs, i \in Slots, v \in Entries :
             /\ d = file.dir /\ OpenEntry(d, i)
             /\ v = file'.entry /\ Proper(v) /\ v.kind = "file" /\ v.sfn = file.entry.sfn /\ v.start = file.entry.start
             /\ file' \in [open : BOOLEAN, dir : Table, entry : Entries] /\ file'.open /\ file'.dir = d
             /\ IsEntry(dirs[d][i]) /\ dirs[d][i].kind = v.kind /\ dirs[d][i].sfn = v.sfn
             /\ dirs[d][i].start \in {0, v.start} /\ (dirs[d][i].start # v.start => Loose(v.start))
             /\ (dirs' = dirs /\ "error" \in mishap') \/ dirs' = [dirs EXCEPT ![d][i] = v]
  <1>1. FatInv /\ DirInv /\ HeadInv /\ OpenInv /\ OpInv
    BY DEF Volume
  <1>2. op.pc = "entry" /\ Writing /\ ~Removal /\ UNCHANGED fat /\ op' = Idle
    BY <1>1, CallOf DEF WriteEntry
  <1>3. /\ file.open /\ file.entry.kind = "file" /\ op.written \in Nat
        /\ file.entry.start = 0 => op.call = "write" /\ op.written = 0
    BY <1>1, <1>2 DEF OpInv, WritingInv, Frame
  <1>4. /\ file \in [open : BOOLEAN, dir : Table, entry : Entries]
        /\ file.dir \in Dirs /\ Proper(file.entry)
    BY <1>1, <1>3 DEF OpenInv
  <1>5. PICK i \in Slots : OpenEntry(file.dir, i)
    BY <1>1, <1>3 DEF OpenInv
  <1>6. PICK size \in Nat : size = NewSize /\ (file.entry.start = 0 => size = 0)
    <2>1. file.entry.size \in Nat
      BY <1>4 DEF Entries
    <2>2. NewSize \in Nat
      BY <1>3, <2>1 DEF NewSize
    <2>3. file.entry.start = 0 => NewSize = 0
      BY <1>3, <1>4 DEF NewSize, Proper
    <2> QED
      BY <2>2, <2>3
  <1>7. file' = [file EXCEPT !.entry.size = size]
    BY <1>6 DEF WriteEntry
  <1>8. /\ file' \in [open : BOOLEAN, dir : Table, entry : Entries] /\ file'.open /\ file'.dir = file.dir
        /\ file'.entry \in Entries /\ file'.entry.sfn = file.entry.sfn /\ file'.entry.long = file.entry.long
        /\ file'.entry.start = file.entry.start /\ file'.entry.kind = "file" /\ file'.entry.size = size
    BY <1>3, <1>4, <1>7 DEF Entries
  <1>9. PICK v \in Entries : v = file'.entry
    BY <1>8
  <1>10. Proper(v) /\ v.kind = "file"
    BY <1>4, <1>6, <1>8, <1>9 DEF Proper
  <1>11. (dirs' = dirs /\ "error" \in mishap') \/ dirs' = [dirs EXCEPT ![file.dir][i] = v]
    <2>1. (dirs' = dirs /\ "error" \in mishap') \/ dirs' = Overwritten(file.dir, file'.entry)
      BY DEF WriteEntry, Noted
    <2>2. FirstAt(file.dir, i, v.sfn)
      BY <1>5, <1>8, <1>9 DEF OpenEntry
    <2>3. Overwritten(file.dir, v) = [dirs EXCEPT ![file.dir][i] = v]
      BY <1>1, <1>4, <2>2, Rewriting
    <2> QED
      BY <1>9, <2>1, <2>3
  <1>12. IsEntry(dirs[file.dir][i]) /\ dirs[file.dir][i].kind = v.kind /\ dirs[file.dir][i].sfn = v.sfn
    BY <1>3, <1>5, <1>8, <1>9, <1>10 DEF OpenEntry, FirstAt, Answers
  <1>13. dirs[file.dir][i].start \in {0, v.start} /\ (dirs[file.dir][i].start # v.start => Loose(v.start))
    BY <1>5, <1>8, <1>9 DEF OpenEntry
  <1>14. v.sfn = file.entry.sfn /\ v.start = file.entry.start
    BY <1>8, <1>9
  <1> QED
    BY <1>4, <1>5, <1>8, <1>9, <1>10, <1>11, <1>12, <1>13, <1>14

LEMMA WriteEntryStep ==
    ASSUME Volume, WriteEntry
    PROVE  Volume'
  <1>1. FatInv /\ DirInv /\ HeadInv /\ OpenInv /\ OpInv
    BY DEF Volume
  <1>2. ~Removal /\ UNCHANGED fat /\ op' = Idle
    BY <1>1, CallOf DEF WriteEntry
  <1>3. PICK d \in Dirs, i \in Slots, v \in Entries :
             /\ d = file.dir /\ OpenEntry(d, i)
             /\ v = file'.entry /\ Proper(v) /\ v.kind = "file" /\ v.sfn = file.entry.sfn /\ v.start = file.entry.start
             /\ file' \in [open : BOOLEAN, dir : Table, entry : Entries] /\ file'.open /\ file'.dir = d
             /\ IsEntry(dirs[d][i]) /\ dirs[d][i].kind = v.kind /\ dirs[d][i].sfn = v.sfn
             /\ dirs[d][i].start \in {0, v.start} /\ (dirs[d][i].start # v.start => Loose(v.start))
             /\ dirs' = dirs \/ dirs' = [dirs EXCEPT ![d][i] = v]
    BY EntryWritten
  <1>4. ~Removal' /\ OpInv'
    BY <1>2, Returned
  <1>5. CASE dirs' = dirs
    <2>1. FatInv' /\ DirInv' /\ HeadInv' /\ SameDirs /\ \A x : Origin(x) => Origin(x)'
      BY <1>1, <1>2, <1>5, DiskStays
    <2>2. Dirs' = Dirs /\ \A x : Loose(x) => Loose(x)'
      BY <1>1, <2>1, DirsStay DEF Loose
    <2>3. \A j \in 1..(i - 1) : ~Answers(d, j, v.sfn)'
      BY <1>3, <1>5 DEF OpenEntry, FirstAt, Answers
    <2>4. FirstAt(d, i, v.sfn)'
      BY <1>3, <1>5, <2>3 DEF FirstAt, Answers
    <2>5. OpenEntry(d, i)'
      BY <1>3, <1>5, <2>2, <2>4 DEF OpenEntry
    <2> QED
      BY <1>3, <1>4, <2>1, <2>2, <2>5 DEF Volume, OpenInv
  <1>6. CASE dirs' = [dirs EXCEPT ![d][i] = v]
    <2>1. v.start = dirs[d][i].start \/ (v.kind = "file" /\ Loose(v.start))
      BY <1>3
    <2>2. FatInv' /\ DirInv' /\ HeadInv' /\ Dirs' = Dirs
      BY <1>1, <1>2, <1>3, <1>4, <1>6, <2>1, SlotRewrite
    <2>3. v \in SlotValues /\ IsEntry(v)
      BY <1>3 DEF SlotValues, IsEntry
    <2>4. dirs'[d][i] = v /\ \A e \in Table, j \in Slots : e # d \/ j # i => dirs'[e][j] = dirs[e][j]
      BY ZenonT(60), <1>1, <1>6, <2>3, SlotWrite
    <2>5. FirstAt(d, i, v.sfn)'
      <3>1. \A j \in 1..(i - 1) : j \in Slots /\ j # i
        BY Fat32Assumption DEF Slots
      <3>2. d \in Table /\ FirstAt(d, i, v.sfn)
        BY <1>1, <1>3 DEF DirInv, OpenEntry
      <3> QED
        BY <2>3, <2>4, <3>1, <3>2 DEF FirstAt, Answers
    <2>6. OpenEntry(d, i)'
      BY <1>3, <2>4, <2>5 DEF OpenEntry
    <2> QED
      BY <1>3, <1>4, <2>2, <2>6 DEF Volume, OpenInv
  <1> QED
    BY <1>3, <1>5, <1>6

-----------------------------------------------------------------------------
\* Creating a file or a directory.
LEMMA TargetFrame ==
    ASSUME NEW call \in Calls, NEW pc \in PCs, NEW d \in Table, NEW n \in Names, NEW fr, fr = Target(call, pc, d, n)
    PROVE  /\ fr \in Frame /\ fr.call = call /\ fr.pc = pc /\ fr.d = d /\ fr.n = n
           /\ fr.cluster = 0 /\ fr.next = 0
  <1> DEFINE b1 == [Idle EXCEPT !.call = call]
             b2 == [b1 EXCEPT !.pc = pc]
             b3 == [b2 EXCEPT !.d = d]
             b4 == [b3 EXCEPT !.n = n]
  <1>1. Idle \in Frame /\ Idle.cluster = 0 /\ Idle.next = 0
    BY IdleFrame, SMT DEF Idle
  <1>2. b1 \in Frame /\ b1.call = call /\ b1.cluster = 0 /\ b1.next = 0
    BY <1>1 DEF Frame
  <1> HIDE DEF b1
  <1>3. b2 \in Frame /\ b2.call = call /\ b2.pc = pc /\ b2.cluster = 0 /\ b2.next = 0
    BY <1>2 DEF Frame
  <1> HIDE DEF b2
  <1>4. b3 \in Frame /\ b3.call = call /\ b3.pc = pc /\ b3.d = d /\ b3.cluster = 0 /\ b3.next = 0
    BY <1>3 DEF Frame
  <1> HIDE DEF b3
  <1>5. b4 \in Frame /\ b4.call = call /\ b4.pc = pc /\ b4.d = d /\ b4.n = n /\ b4.cluster = 0 /\ b4.next = 0
    BY <1>4 DEF Frame
  <1>6. fr = b4
    BY DEF Target, b1, b2, b3
  <1> QED
    BY <1>5, <1>6

LEMMA UnlinkedStays ==
    ASSUME DirInv, SameDirs, NEW x, Unlinked(x), Origin(x)', fat'[x] = fat[x]
    PROVE  Unlinked(x)'
  BY DirsStay DEF Unlinked

LEMMA CreateStep ==
    ASSUME Volume, NEW d \in Dirs, NEW n \in Names,
           CreateFile(d, n) \/ (d = root_cluster /\ CreateDir(d, n))
    PROVE  Volume'
  <1>1. FatInv /\ DirInv /\ HeadInv /\ OpenInv /\ OpInv /\ ~Removal /\ ~file.open /\ UNCHANGED <<fat, dirs, file>>
    BY CallOf DEF Volume, CreateFile, CreateDir, Ready, disk
  <1>2. PICK call \in {"create", "mkdir"} : LET pc == IF call = "create" THEN "slot" ELSE "mkdir"
                                            IN  op' = Target(call, pc, d, n) /\ (call = "mkdir" => d = root_cluster)
    BY DEF CreateFile, CreateDir
  <1>3. PICK pc \in {"slot", "mkdir"} : op' = Target(call, pc, d, n) /\ (pc = "slot" <=> call = "create")
    BY <1>2
  <1>4. d \in Table /\ call \in Calls /\ pc \in PCs
    BY <1>1 DEF DirInv, Calls, PCs
  <1>5. /\ op' \in Frame /\ op'.call = call /\ op'.pc = pc /\ op'.d = d /\ op'.n = n
        /\ op'.cluster = 0
    BY <1>3, <1>4, TargetFrame
  <1>6. FatInv' /\ DirInv' /\ HeadInv' /\ SameDirs
    BY <1>1, DiskStays
  <1>7. OpenInv'
    BY <1>1 DEF OpenInv
  <1>8. d \in Dirs'
    BY <1>1, <1>6, DirsStay
  <1> QED
    BY <1>1, <1>2, <1>3, <1>5, <1>6, <1>7, <1>8
    DEF Volume, OpInv, WritingInv, CreatingInv, RemovalInv, Writing, Creating, Removal

LEMMA MakeDirStep ==
    ASSUME Volume, MakeDirCluster
    PROVE  Volume'
  <1>1. FatInv /\ DirInv /\ HeadInv /\ OpenInv /\ OpInv
    BY DEF Volume
  <1>2. op.pc = "mkdir" /\ Creating /\ ~Removal /\ UNCHANGED dirs
    BY <1>1, CallOf DEF MakeDirCluster
  <1>3. /\ ~file.open /\ op.d \in Dirs /\ op.n \in Names /\ op \in Frame /\ op.call = "mkdir" /\ op.d = root_cluster
    BY <1>1, <1>2 DEF OpInv, CreatingInv, Creating
  <1>4. PICK w \in Outcomes :
           /\ FAT32_AllocCluster(w)
           /\ IF Allocated(w)
              THEN op' = [op EXCEPT !.pc = "fill", !.cluster = Picked] /\ UNCHANGED file
              ELSE NoCluster
    BY DEF MakeDirCluster
  <1>5. /\ FatInv' /\ DirInv' /\ HeadInv' /\ SameDirs
        /\ Allocated(w) => \A c : c = Picked => Unlinked(c)' /\ c \in Table
    BY <1>1, <1>2, <1>4, Allocation
  <1>6. UNCHANGED file
    BY <1>4 DEF NoCluster, Return
  <1>7. OpenInv'
    BY <1>3, <1>6 DEF OpenInv
  <1>8. CASE ~Allocated(w)
    <2>1. op' = Idle \/ op' = [Idle EXCEPT !.pc = "hung"]
      BY <1>4, <1>8 DEF NoCluster, Return
    <2> QED
      BY <1>5, <1>7, <2>1, Returned DEF Volume
  <1>9. CASE Allocated(w)
    <2>1. PICK c \in Table : c = Picked /\ Unlinked(c)'
      BY <1>5, <1>9
    <2>2. op' = SetCluster(SetPc(op, "fill"), c)
      BY <1>4, <1>9, <2>1 DEF SetCluster, SetPc
    <2>3. "fill" \in PCs /\ c \in {0} \cup Table
      BY DEF PCs
    <2>4. PICK z \in Frame : z = SetPc(op, "fill") /\ z.pc = "fill" /\ z.call = op.call /\ z.d = op.d /\ z.n = op.n
      BY <1>3, <2>3, SetPcFrame
    <2>5. /\ op' \in Frame /\ op'.cluster = c /\ op'.pc = "fill" /\ op'.call = "mkdir"
          /\ op'.d = root_cluster /\ op'.n = op.n
      BY <1>3, <2>2, <2>3, <2>4, SetClusterFrame
    <2>6. root_cluster \in Dirs'
      BY DEF Dirs
    <2> QED
      BY <1>3, <1>5, <1>6, <1>7, <2>1, <2>5, <2>6
      DEF Volume, OpInv, WritingInv, CreatingInv, RemovalInv, Writing, Creating, Removal
  <1> QED
    BY <1>8, <1>9

LEMMA FillDirStep ==
    ASSUME Volume, FillDirCluster
    PROVE  Volume'
  <1>1. FatInv /\ DirInv /\ HeadInv /\ OpenInv /\ OpInv
    BY DEF Volume
  <1>2. op.pc = "fill" /\ Creating /\ ~Removal /\ UNCHANGED <<fat, file>>
    BY <1>1, CallOf DEF FillDirCluster
  <1>3. /\ ~file.open /\ op.n \in Names /\ op \in Frame /\ op.call = "mkdir" /\ op.d = root_cluster
        /\ Unlinked(op.cluster)
    BY <1>1, <1>2 DEF OpInv, CreatingInv, Creating
  <1>4. PICK c \in Table : c = op.cluster /\ Unlinked(c) /\ c \notin Dirs /\ Origin(c)
    <2>1. Loose(op.cluster)
      BY <1>3 DEF Unlinked
    <2> QED
      BY <1>3, <2>1, LooseNoDir
  <1>5. dirs' = dirs \/ dirs' = [dirs EXCEPT ![c] = NewDir]
    BY <1>4 DEF FillDirCluster
  <1>6. FatInv' /\ DirInv' /\ HeadInv' /\ SameDirs /\ \A x : Origin(x) => Origin(x)'
    BY <1>1, <1>2, <1>4, <1>5, BlankSlots, OutsideWrite
  <1>7. OpenInv'
    BY <1>2, <1>3 DEF OpenInv
  <1>8. CASE op' = Idle
    BY <1>6, <1>7, <1>8, Returned DEF Volume
  <1>9. CASE op' # Idle
    <2>1. op' = SetPc(op, "slot") /\ dirs' = [dirs EXCEPT ![c] = NewDir] /\ "slot" \in PCs
      BY <1>4, <1>9 DEF FillDirCluster, SetPc, PCs
    <2>2. /\ op' \in Frame /\ op'.cluster = c /\ op'.pc = "slot" /\ op'.call = "mkdir"
          /\ op'.d = root_cluster /\ op'.n = op.n
      BY <1>3, <1>4, <2>1, SetPcFrame
    <2>3. dirs'[c] = NewDir
      BY <1>1, <2>1 DEF DirInv
    <2>4. Unlinked(c)' /\ root_cluster \in Dirs'
      BY <1>1, <1>2, <1>4, <1>6, UnlinkedStays DEF Dirs
    <2> QED
      BY <1>2, <1>3, <1>6, <1>7, <2>2, <2>3, <2>4
      DEF Volume, OpInv, WritingInv, CreatingInv, RemovalInv, Writing, Creating, Removal
  <1> QED
    BY <1>8, <1>9

\* The entry that is created.
LEMMA EntryMade ==
    ASSUME OpInv, Creating, op.pc \in {"slot", "grow", "attach"}
    PROVE  \E v \in Entries :
             /\ v = NewEntry /\ Proper(v) /\ v.sfn = name_to_83[op.n]
             /\ v.start = 0 \/ Unlinked(v.start)
             /\ v.kind = "dir" => op.d = root_cluster /\ Unlinked(v.start) /\ dirs[v.start] = NewDir
  <1>1. /\ op \in Frame /\ op.n \in Names
        /\ op.call = "create" => op.cluster = 0
        /\ op.call = "mkdir" => op.d = root_cluster /\ Unlinked(op.cluster) /\ dirs[op.cluster] = NewDir
        /\ op.call \in {"create", "mkdir"}
    BY DEF OpInv, CreatingInv, Creating
  <1>2. op.cluster \in {0} \cup Table
    BY <1>1 DEF Frame
  <1>3. name_to_83[op.n] \in ShortNames /\ op.n # NoName
    BY <1>1, Fat32Assumption
  <1>4. PICK k \in {"file", "dir"} : k = IF op.call = "mkdir" THEN "dir" ELSE "file"
    OBVIOUS
  <1>5. PICK v : v = NewEntry
    OBVIOUS
  <1>6. v = [kind |-> k, long |-> op.n, sfn |-> name_to_83[op.n], start |-> op.cluster, size |-> 0]
    BY <1>4, <1>5 DEF NewEntry
  <1>7. /\ v \in Entries /\ v.kind = k /\ v.long = op.n /\ v.sfn = name_to_83[op.n]
        /\ v.start = op.cluster /\ v.size = 0
    BY <1>1, <1>2, <1>3, <1>6 DEF Entries
  <1>8. op.call = "mkdir" => op.cluster # 0
    BY <1>1, LooseNoDir, TableSize DEF Unlinked, FREE
  <1>9. Proper(v)
    BY <1>4, <1>7, <1>8 DEF Proper
  <1> QED
    BY <1>1, <1>4, <1>5, <1>7, <1>9

LEMMA SlotWritten ==
    ASSUME Volume, WriteSlot, FreePlaces(op.d) # {}
    PROVE  \E d \in Dirs, i \in Slots, v \in Entries :
             /\ d = op.d /\ Usable(dirs[d][i]) /\ \A j \in 1..(i - 1) : ~Usable(dirs[d][j])
             /\ v = NewEntry /\ Proper(v) /\ v.sfn = name_to_83[op.n]
             /\ v.start = op.cluster /\ v.size = 0 /\ (v.start = 0 \/ Loose(v.start))
             /\ v.kind = "dir" => d = root_cluster /\ Loose(v.start) /\ fat[v.start] \notin Table /\ dirs[v.start] = NewDir
             /\ (dirs' = dirs /\ "error" \in mishap') \/ dirs' = [dirs EXCEPT ![d][i] = v]
  <1>1. FatInv /\ DirInv /\ OpInv
    BY DEF Volume
  <1>2. op.pc = "slot" /\ Creating
    BY <1>1, CallOf DEF WriteSlot
  <1>3. PICK d \in Dirs : d = op.d
    BY <1>1, <1>2 DEF OpInv, CreatingInv
  <1>4. PICK i \in Slots : /\ First(FreePlaces(d)) = <<1, i>>
                           /\ Usable(dirs[d][i])
                           /\ \A j \in 1..(i - 1) : ~Usable(dirs[d][j])
    BY <1>1, <1>3, FreeSlot
  <1>5. Chain(d) = <<d>>
    BY <1>1, DirSlots
  <1>6. PICK v \in Entries :
           /\ v = NewEntry /\ Proper(v) /\ v.sfn = name_to_83[op.n]
           /\ v.start = 0 \/ Unlinked(v.start)
           /\ v.kind = "dir" => op.d = root_cluster /\ Unlinked(v.start) /\ dirs[v.start] = NewDir
    BY <1>1, <1>2, EntryMade
  <1>7. (dirs' = dirs /\ "error" \in mishap') \/ dirs' = [dirs EXCEPT ![Chain(d)[First(FreePlaces(d))[1]]][First(FreePlaces(d))[2]] = v]
    BY <1>3, <1>6 DEF WriteSlot, Noted
  <1>8. Chain(d)[First(FreePlaces(d))[1]] = d /\ First(FreePlaces(d))[2] = i
    BY <1>4, <1>5
  <1>9. (dirs' = dirs /\ "error" \in mishap') \/ dirs' = [dirs EXCEPT ![d][i] = v]
    BY <1>7, <1>8
  <1>10. v.start = op.cluster /\ v.size = 0 /\ (v.start = 0 \/ Loose(v.start))
    BY <1>6 DEF Unlinked, NewEntry
  <1>11. v.kind = "dir" => d = root_cluster /\ Loose(v.start) /\ fat[v.start] \notin Table /\ dirs[v.start] = NewDir
    BY <1>3, <1>6, TableSize DEF Unlinked
  <1> QED
    BY <1>3, <1>4, <1>6, <1>9, <1>10, <1>11

LEMMA WriteSlotStep ==
    ASSUME Volume, WriteSlot
    PROVE  Volume'
  <1>1. FatInv /\ DirInv /\ HeadInv /\ OpenInv /\ OpInv
    BY DEF Volume
  <1>2. op.pc = "slot" /\ Creating /\ ~Removal /\ UNCHANGED <<fat, file>>
    BY <1>1, CallOf DEF WriteSlot
  <1>3. ~file.open /\ op.n \in Names /\ op \in Frame /\ op.d \in Dirs
    BY <1>1, <1>2 DEF OpInv, CreatingInv, Creating
  <1>4. OpenInv'
    BY <1>2, <1>3 DEF OpenInv
  <1>5. PICK d \in Dirs : d = op.d
    BY <1>3
  <1>6. CASE FreePlaces(op.d) # {}
    <2>1. op' = Idle /\ OpInv' /\ ~Removal'
      BY <1>6, Returned DEF WriteSlot
    <2>2. PICK e \in Dirs, i \in Slots, v \in Entries :
             /\ Usable(dirs[e][i]) /\ \A j \in 1..(i - 1) : ~Usable(dirs[e][j])
             /\ Proper(v)
             /\ v.start = 0 \/ Loose(v.start)
             /\ v.kind = "dir" => e = root_cluster /\ Loose(v.start) /\ fat[v.start] \notin Table /\ dirs[v.start] = NewDir
             /\ dirs' = dirs \/ dirs' = [dirs EXCEPT ![e][i] = v]
      BY <1>6, SlotWritten
    <2>3. CASE dirs' = dirs
      BY <1>1, <1>2, <1>4, <2>1, <2>3, DiskStays DEF Volume
    <2>4. CASE dirs' = [dirs EXCEPT ![e][i] = v]
      <3>1. FatInv' /\ DirInv' /\ HeadInv'
        BY <1>1, <1>2, <2>1, <2>2, <2>4, SlotFill
      <3> QED
        BY <1>4, <2>1, <3>1 DEF Volume
    <2> QED
      BY <2>2, <2>3, <2>4
  <1>7. CASE FreePlaces(op.d) = {}
    <2>1. op' = SetPc(op, "grow") /\ UNCHANGED dirs /\ "grow" \in PCs
      BY <1>7 DEF WriteSlot, SetPc, PCs
    <2>2. /\ op' \in Frame /\ op'.cluster = op.cluster /\ op'.pc = "grow" /\ op'.call = op.call
          /\ op'.d = op.d /\ op'.n = op.n
      BY <1>3, <2>1, SetPcFrame
    <2>3. FatInv' /\ DirInv' /\ HeadInv' /\ SameDirs /\ \A x : Origin(x) => Origin(x)'
      BY <1>1, <1>2, <2>1, DiskStays
    <2>4. PICK a : a = op.cluster
      OBVIOUS
    <2>5. Unlinked(a) => Unlinked(a)'
      BY <1>1, <1>2, <2>3, UnlinkedStays DEF Unlinked, Loose
    <2>6. d \in Dirs'
      BY <1>1, <2>3, DirsStay
    <2>7. /\ op.call = "create" => op.cluster = 0
          /\ op.call = "mkdir" => op.d = root_cluster /\ Unlinked(a) /\ dirs[a] = NewDir
      BY <1>1, <1>2, <2>4 DEF OpInv, CreatingInv, Creating
    <2> QED
      BY <1>2, <1>3, <1>4, <1>5, <2>1, <2>2, <2>3, <2>4, <2>5, <2>6, <2>7
      DEF Volume, OpInv, WritingInv, CreatingInv, RemovalInv, Writing, Creating, Removal
  <1> QED
    BY <1>6, <1>7

\* A directory that is full: the new cluster is linked to nothing.
LEMMA GrowDirStep ==
    ASSUME Volume, GrowDir
    PROVE  Volume'
  <1>1. FatInv /\ DirInv /\ HeadInv /\ OpenInv /\ OpInv
    BY DEF Volume
  <1>2. op.pc = "grow" /\ Creating /\ ~Removal /\ UNCHANGED dirs
    BY <1>1, CallOf DEF GrowDir
  <1>3. ~file.open /\ op.n \in Names /\ op \in Frame /\ op.d \in Dirs
    BY <1>1, <1>2 DEF OpInv, CreatingInv, Creating
  <1>4. PICK w \in Outcomes :
           /\ FAT32_AllocCluster(w)
           /\ IF Allocated(w)
              THEN op' = [op EXCEPT !.pc = "attach", !.next = Picked] /\ UNCHANGED file
              ELSE NoCluster
    BY DEF GrowDir
  <1>5. /\ FatInv' /\ DirInv' /\ HeadInv' /\ SameDirs
        /\ \A x : Origin(x) => Origin(x)'
        /\ \A x \in Table : fat[x] # FREE => fat'[x] = fat[x]
        /\ Allocated(w) => \A c : c = Picked => Unlinked(c)' /\ c \in Table /\ fat[c] = FREE
    BY <1>1, <1>2, <1>4, Allocation
  <1>6. UNCHANGED file
    BY <1>4 DEF NoCluster, Return
  <1>7. OpenInv'
    BY <1>3, <1>6 DEF OpenInv
  <1>8. CASE ~Allocated(w)
    <2>1. op' = Idle \/ op' = [Idle EXCEPT !.pc = "hung"]
      BY <1>4, <1>8 DEF NoCluster, Return
    <2> QED
      BY <1>5, <1>7, <2>1, Returned DEF Volume
  <1>9. CASE Allocated(w)
    <2>1. PICK c \in Table : c = Picked /\ Unlinked(c)' /\ fat[c] = FREE
      BY <1>5, <1>9
    <2>2. op' = SetNext(SetPc(op, "attach"), c)
      BY <1>4, <1>9, <2>1 DEF SetNext, SetPc
    <2>3. "attach" \in PCs /\ c \in {0} \cup Table
      BY DEF PCs
    <2>4. /\ op' \in Frame /\ op'.next = c /\ op'.pc = "attach" /\ op'.call = op.call /\ op'.cluster = op.cluster
          /\ op'.d = op.d /\ op'.n = op.n
      BY <1>3, <2>2, <2>3, NextFrame
    <2>5. PICK a : a = op.cluster
      OBVIOUS
    <2>6. Unlinked(a) => Unlinked(a)' /\ a # c
      <3> SUFFICES ASSUME Unlinked(a) PROVE Unlinked(a)' /\ a # c
        OBVIOUS
      <3>1. Origin(a) /\ a \in Table /\ fat[a] = EOF /\ fat[a] # FREE
        BY TableSize DEF Unlinked, Loose, Origin
      <3>2. Origin(a)' /\ fat'[a] = fat[a]
        BY <1>5, <3>1
      <3> QED
        BY <1>1, <1>5, <2>1, <3>1, <3>2, UnlinkedStays
    <2>7. op.d \in Dirs'
      BY <1>1, <1>3, <1>5, DirsStay
    <2>8. /\ op.call = "create" => op.cluster = 0
          /\ op.call = "mkdir" => op.d = root_cluster /\ Unlinked(a) /\ dirs[a] = NewDir
          /\ op.call \in {"create", "mkdir"}
      BY <1>1, <1>2, <2>5 DEF OpInv, CreatingInv, Creating
    <2>9. c # 0
      BY TableSize DEF FREE
    <2> QED
      BY <1>2, <1>3, <1>5, <1>6, <1>7, <2>1, <2>4, <2>5, <2>6, <2>7, <2>8, <2>9
      DEF Volume, OpInv, WritingInv, CreatingInv, RemovalInv, Writing, Creating, Removal
  <1> QED
    BY <1>8, <1>9

LEMMA AttachStep ==
    ASSUME Volume, AttachToDir
    PROVE  Volume'
  <1>1. FatInv /\ DirInv /\ HeadInv /\ OpenInv /\ OpInv
    BY DEF Volume
  <1>2. op.pc = "attach" /\ Creating /\ ~Removal /\ op' = Idle /\ UNCHANGED file
    BY <1>1, CallOf DEF AttachToDir, Return
  <1>3. ~file.open /\ op.d \in Dirs /\ Unlinked(op.next)
    BY <1>1, <1>2 DEF OpInv, CreatingInv, Creating
  <1>4. UNCHANGED fat
    <2>1. EOF \notin Table
      BY TableSize
    <2> QED
      BY <2>1 DEF AttachToDir, FAT32_WriteFATEntry, LinkedFrom
  <1>5. PICK c \in Table : c = op.next /\ c \notin Dirs
    BY <1>3, LooseNoDir DEF Unlinked
  <1>6. PICK d \in Dirs : d = op.d
    BY <1>3
  <1>7. PICK v \in Entries : v = NewEntry
    BY <1>1, <1>2, EntryMade
  <1>8. Last(Chain(d)) = d
    BY SMTT(30), <1>1, DirSlots DEF Last
  <1>9. d \in Table /\ dirs[d] \in [Slots -> SlotValues] /\ v \in SlotValues
    BY <1>1 DEF DirInv, SlotValues
  <1>10. PICK b \in [Slots -> SlotValues] : b = [dirs[d] EXCEPT ![1] = v]
    BY <1>9
  <1>11. dirs' = dirs \/ dirs' = [dirs EXCEPT ![c] = b]
    <2>1. dirs' = dirs \/ dirs' = [dirs EXCEPT ![op.next] = [dirs[Last(Chain(op.d))] EXCEPT ![1] = NewEntry]]
      BY DEF AttachToDir
    <2> QED
      BY <1>5, <1>6, <1>7, <1>8, <1>10, <2>1
  <1>12. FatInv' /\ DirInv' /\ HeadInv'
    BY <1>1, <1>2, <1>4, <1>5, <1>11, OutsideWrite
  <1>13. OpenInv'
    BY <1>2, <1>3 DEF OpenInv
  <1> QED
    BY <1>2, <1>12, <1>13, Returned DEF Volume

-----------------------------------------------------------------------------
\* Removing: the entry stays while its chain is freed,
LEMMA RemovingStep ==
    ASSUME Volume, NEW d \in Dirs, NEW n \in Names, DeleteFile(d, n) \/ RemoveDir(d, n)
    PROVE  Volume'
  <1>1. FatInv /\ DirInv /\ HeadInv /\ OpenInv /\ OpInv /\ ~Removal /\ ~file.open /\ Found(d, n)
    BY CallOf DEF Volume, DeleteFile, RemoveDir, Ready
  <1>2. PICK call \in {"delete", "rmdir"} : Removing(call, d, n)
    BY DEF DeleteFile, RemoveDir
  <1>3. UNCHANGED <<fat, dirs, file>>
    BY <1>2 DEF Removing, disk
  <1>4. PICK i \in Slots : /\ FirstAt(d, i, name_to_83[n]) /\ FAT32_FindEntryAny(d, n) = dirs[d][i]
                           /\ IsEntry(dirs[d][i])
    BY <1>1, Lookup DEF FirstAt, Answers
  <1>5. d \in Table /\ dirs[d][i] \in SlotValues
    BY <1>1 DEF DirInv
  <1>6. dirs[d][i] \in Entries
    BY <1>4, <1>5, SlotKinds
  <1>7. PICK s \in {0} \cup Table : s = dirs[d][i].start
    BY <1>6 DEF Entries
  <1>8. s # 0 => Origin(s)
    BY <1>1, <1>4, <1>7, HeadFacts DEF DoomedAt
  <1>9. PICK pc \in {"free", "mark"} : pc = IF s # 0 THEN "free" ELSE "mark"
    OBVIOUS
  <1>10. op' = SetNext(Target(call, pc, d, n), s)
    BY <1>2, <1>4, <1>7, <1>9 DEF Removing, SetNext
  <1>11. call \in Calls /\ pc \in PCs
    BY DEF Calls, PCs
  <1>12. PICK z \in Frame : /\ z = Target(call, pc, d, n) /\ z.call = call /\ z.pc = pc /\ z.d = d /\ z.n = n
    BY <1>5, <1>11, TargetFrame
  <1>13. op' \in Frame /\ op'.call = call /\ op'.pc = pc /\ op'.d = d /\ op'.n = n /\ op'.next = s
    BY <1>10, <1>12, SetNextFrame
  <1>14. /\ FatInv' /\ DirInv' /\ HeadInv' /\ SameDirs
         /\ \A x : Origin(x) => Origin(x)'
    BY <1>1, <1>3, DiskStays
  <1>15. OpenInv'
    BY <1>1, <1>3 DEF OpenInv
  <1>16. d \in Dirs' /\ FirstAt(d, i, name_to_83[n])' /\ (s # 0 => Origin(s)')
    BY <1>1, <1>4, <1>8, <1>14, DirsStay
  <1>17. dirs'[d][i].start = s
    BY <1>3, <1>7
  <1> QED
    BY <1>1, <1>3, <1>9, <1>13, <1>14, <1>15, <1>16, <1>17
    DEF Volume, OpInv, WritingInv, CreatingInv, RemovalInv, Writing, Creating, Removal

\* and is marked at the end.
LEMMA MarkWritten ==
    ASSUME Volume, MarkDeleted
    PROVE  \E d \in Dirs, i \in Slots :
             /\ d = op.d /\ IsEntry(dirs[d][i]) /\ Removal /\ op.pc = "mark"
             /\ First(Hits(op.d, op.n)) = <<1, i>> /\ FirstAt(d, i, name_to_83[op.n])
             /\ \A e \in Dirs, j \in Slots : DoomedAt(e, j) <=> e = d /\ j = i
             /\ \/ dirs' = [dirs EXCEPT ![d][i] = Deleted]
                \/ dirs' = dirs /\ (dirs[d][i].start # 0 => "torn" \in mishap')
  <1>1. Removal /\ op.pc = "mark"
    BY CallOf DEF Volume, MarkDeleted
  <1>2. PICK i \in Slots :
             /\ op.d \in Dirs
             /\ First(Hits(op.d, op.n)) = <<1, i>> /\ FirstAt(op.d, i, name_to_83[op.n])
             /\ Slot(op.d, <<1, i>>) = dirs[op.d][i] /\ Chain(op.d) = <<op.d>>
             /\ IsEntry(dirs[op.d][i])
             /\ \A e \in Dirs, j \in Slots : DoomedAt(e, j) <=> e = op.d /\ j = i
    BY <1>1, RemovalTarget
  <1>3. PICK d \in Dirs : d = op.d
    BY <1>2
  <1>4. \/ dirs' = [dirs EXCEPT ![d][i] = Deleted]
        \/ dirs' = dirs /\ (dirs[d][i].start # 0 => "torn" \in mishap')
    <2>1. PICK w \in Outcomes :
             LET p == First(Hits(op.d, op.n))
             IN  /\ dirs' = IF w # "fail" THEN [dirs EXCEPT ![Chain(op.d)[p[1]]][p[2]] = Deleted] ELSE dirs
                 /\ mishap' = mishap \cup Noted(w)
                              \cup (IF w = "fail" /\ Slot(op.d, p).start # 0 THEN {"torn"} ELSE {})
      BY DEF MarkDeleted
    <2>2. Chain(op.d)[First(Hits(op.d, op.n))[1]] = d /\ First(Hits(op.d, op.n))[2] = i
      BY <1>2, <1>3
    <2>3. CASE w # "fail"
      BY <2>1, <2>2, <2>3
    <2>4. CASE w = "fail"
      BY <1>2, <1>3, <2>1, <2>4
    <2> QED
      BY <2>3, <2>4
  <1> QED
    BY <1>1, <1>2, <1>3, <1>4

LEMMA MarkDeletedStep ==
    ASSUME Volume, MarkDeleted, "torn" \notin mishap'
    PROVE  Volume'
  <1>1. FatInv /\ DirInv /\ HeadInv /\ OpenInv /\ OpInv
    BY DEF Volume
  <1>2. Removal /\ op' = Idle /\ UNCHANGED <<fat, file>>
    BY <1>1, CallOf DEF MarkDeleted
  <1>3. ~Removal' /\ OpInv'
    BY <1>2, Returned
  <1>4. OpenInv'
    BY <1>1, <1>2 DEF OpInv, RemovalInv, OpenInv
  <1>5. PICK d \in Dirs, i \in Slots :
             /\ IsEntry(dirs[d][i])
             /\ \A e \in Dirs, j \in Slots : DoomedAt(e, j) <=> e = d /\ j = i
             /\ \/ dirs' = [dirs EXCEPT ![d][i] = Deleted]
                \/ dirs' = dirs /\ dirs[d][i].start = 0
    BY MarkWritten
  <1>6. CASE dirs' = [dirs EXCEPT ![d][i] = Deleted]
    <2>1. FatInv' /\ DirInv' /\ HeadInv'
      BY <1>1, <1>2, <1>3, <1>5, <1>6, SlotDelete
    <2> QED
      BY <1>3, <1>4, <2>1 DEF Volume
  <1>7. CASE dirs' = dirs /\ dirs[d][i].start = 0
    <2>1. FatInv' /\ DirInv' /\ HeadInv'
      BY <1>1, <1>2, <1>3, <1>5, <1>7, HeadsBack
    <2> QED
      BY <1>3, <1>4, <2>1 DEF Volume
  <1> QED
    BY <1>5, <1>6, <1>7

\* Renaming.
LEMMA NameWritten ==
    ASSUME Volume, NEW d \in Dirs, NEW n \in Names, NEW m \in Names, RenameFile(d, n, m)
    PROVE  \E i \in Slots, v \in Entries :
             /\ Proper(v) /\ v.sfn = name_to_83[m] /\ v.long \in {m, NoName}
             /\ dirs[d][i].sfn = name_to_83[n]
             /\ IsEntry(dirs[d][i]) /\ dirs[d][i].kind = v.kind /\ dirs[d][i].start = v.start /\ dirs[d][i].size = v.size
             /\ dirs' = dirs \/ dirs' = [dirs EXCEPT ![d][i] = v]
  <1>1. FatInv /\ DirInv /\ Found(d, n)
    BY DEF Volume, RenameFile
  <1>2. PICK i \in Slots :
           First(Hits(d, n)) = <<1, i>> /\ IsEntry(dirs[d][i]) /\ dirs[d][i].sfn = name_to_83[n]
    BY <1>1, Lookup DEF FirstAt, Answers
  <1>3. Chain(d) = <<d>> /\ d \in Table /\ dirs[d][i] \in SlotValues
    BY <1>1, DirSlots DEF DirInv
  <1>4. PICK e \in Entries : e = dirs[d][i] /\ Proper(e)
    BY <1>1, <1>2, <1>3, SlotKinds DEF DirInv
  <1>5. PICK v : v = Renamed(e, m)
    OBVIOUS
  <1>6. /\ v \in Entries /\ v.kind = e.kind /\ v.start = e.start /\ v.size = e.size
        /\ Proper(v) /\ v.sfn = name_to_83[m] /\ v.long \in {m, NoName}
    <2>1. PICK l \in Names \cup {NoName} : /\ l = IF e.long # NoName /\ Pieces[e.long] = Pieces[m] THEN m ELSE NoName
                                           /\ l \in {m, NoName}
      OBVIOUS
    <2>2. name_to_83[m] \in ShortNames
      BY Fat32Assumption
    <2>3. v = [[e EXCEPT !.sfn = name_to_83[m]] EXCEPT !.long = l]
      BY <1>4, <1>5, <2>1 DEF Renamed, Entries
    <2>4. /\ v \in Entries /\ v.kind = e.kind /\ v.start = e.start /\ v.size = e.size
          /\ v.long = l /\ v.sfn = name_to_83[m]
      BY <2>2, <2>3 DEF Entries
    <2> QED
      BY <1>4, <2>1, <2>4 DEF Proper
  <1>7. dirs' = dirs \/ dirs' = [dirs EXCEPT ![d][i] = v]
    <2> DEFINE p == First(Hits(d, n))
    <2>1. dirs' = dirs \/ dirs' = [dirs EXCEPT ![Chain(d)[p[1]]][p[2]] = Renamed(@, m)]
      BY DEF RenameFile
    <2>2. Chain(d)[p[1]] = d /\ p[2] = i
      BY <1>2, <1>3
    <2>3. dirs' = dirs \/ dirs' = [dirs EXCEPT ![d][i] = Renamed(@, m)]
      BY <2>1, <2>2
    <2>4. dirs \in [Table -> [Slots -> SlotValues]]
      BY <1>1 DEF DirInv
    <2>5. [dirs EXCEPT ![d][i] = Renamed(@, m)] = [dirs EXCEPT ![d][i] = v]
      BY <1>3, <1>4, <1>5, <2>4
    <2> QED
      BY <2>3, <2>5
  <1> QED
    BY <1>2, <1>4, <1>6, <1>7

LEMMA RenameStep ==
    ASSUME Volume, NEW d \in Dirs, NEW n \in Names, NEW m \in Names, RenameFile(d, n, m)
    PROVE  Volume'
  <1>1. FatInv /\ DirInv /\ HeadInv /\ OpenInv /\ OpInv /\ ~Removal /\ ~file.open /\ op' = Idle /\ UNCHANGED <<fat, file>>
    BY CallOf DEF Volume, RenameFile, Ready
  <1>2. OpInv' /\ ~Removal' /\ OpenInv'
    BY <1>1, Returned DEF OpenInv
  <1>3. PICK i \in Slots, v \in Entries :
             /\ Proper(v)
             /\ IsEntry(dirs[d][i]) /\ dirs[d][i].kind = v.kind /\ dirs[d][i].start = v.start
             /\ dirs' = dirs \/ dirs' = [dirs EXCEPT ![d][i] = v]
    BY NameWritten
  <1>4. CASE dirs' = dirs
    BY <1>1, <1>2, <1>4, DiskStays DEF Volume
  <1>5. CASE dirs' = [dirs EXCEPT ![d][i] = v]
    <2>1. FatInv' /\ DirInv' /\ HeadInv'
      BY <1>1, <1>2, <1>3, <1>5, SlotRewrite
    <2> QED
      BY <1>2, <2>1 DEF Volume
  <1> QED
    BY <1>3, <1>4, <1>5

LEMMA CloseStep ==
    ASSUME Volume, CloseFile
    PROVE  Volume'
  <1>1. FatInv /\ DirInv /\ HeadInv /\ OpInv /\ ~Removal /\ op' = Idle /\ file' = Closed /\ UNCHANGED <<fat, dirs>>
    BY CallOf DEF Volume, CloseFile, disk
  <1> QED
    BY <1>1, ClosedFile, Returned, DiskStays DEF Volume

\* A restart.
LEMMA PowerLossStep ==
    ASSUME Volume, PowerLoss, "torn" \notin mishap'
    PROVE  Volume'
  <1>1. FatInv /\ DirInv /\ HeadInv /\ OpInv /\ op' = Idle /\ file' = Closed /\ UNCHANGED <<fat, dirs>>
    BY DEF Volume, PowerLoss, disk
  <1>2. OpenInv' /\ OpInv' /\ ~Removal'
    BY <1>1, ClosedFile, Returned
  <1>3. CASE ~Removal
    BY <1>1, <1>2, <1>3, DiskStays DEF Volume
  <1>4. CASE Removal
    <2>1. PICK i \in Slots :
             /\ op.d \in Dirs
             /\ FAT32_FindEntryAny(op.d, op.n) = dirs[op.d][i]
             /\ \A d \in Dirs, j \in Slots : DoomedAt(d, j) <=> d = op.d /\ j = i
             /\ op.pc = "free" => /\ dirs[op.d][i].start # 0
                                  /\ \/ op.next = dirs[op.d][i].start /\ Origin(dirs[op.d][i].start)
                                     \/ fat[dirs[op.d][i].start] = FREE /\ Loose(op.next)
             /\ op.pc = "mark" /\ dirs[op.d][i].start # 0 => fat[dirs[op.d][i].start] = FREE
      BY <1>4, RemovalTarget
    <2>2. op.pc \in {"free", "mark"}
      BY <1>1, <1>4 DEF OpInv, RemovalInv
    <2>3. TornBy(fat) = {}
      <3>1. TornBy(fat) \in {{}, {"torn"}}
        BY DEF TornBy
      <3> QED
        BY <3>1 DEF PowerLoss
    <2>4. dirs[op.d][i].start # 0 => fat[dirs[op.d][i].start] # FREE
      BY <1>4, <2>1, <2>3 DEF TornBy
    <2>5. dirs[op.d][i].start # 0 => Origin(dirs[op.d][i].start)
      BY <2>1, <2>2, <2>4
    <2>6. FatInv' /\ DirInv' /\ HeadInv'
      BY <1>1, <1>2, <2>1, <2>5, HeadsBack
    <2> QED
      BY <1>2, <2>6 DEF Volume
  <1> QED
    BY <1>3, <1>4

-----------------------------------------------------------------------------
\* What went wrong is never forgotten.
LEMMA MishapStays ==
    ASSUME [Next]_vars
    PROVE  mishap \subseteq mishap'
  <1>1. ASSUME NEW w, FAT32_AllocCluster(w) PROVE mishap \subseteq mishap'
    BY <1>1 DEF FAT32_AllocCluster
  <1>2. CASE Step
    <2>1. CASE Extend \/ MakeDirCluster \/ GrowDir
      BY <1>1, <2>1 DEF Extend, MakeDirCluster, GrowDir
    <2>2. CASE WriteData \/ Link \/ WriteEntry \/ FillDirCluster
      BY <2>2 DEF WriteData, Link, WriteEntry, FillDirCluster
    <2>3. CASE Trim
      BY <2>3 DEF Trim
    <2>4. CASE TrimUnread
      BY <2>4 DEF TrimUnread
    <2>5. CASE FreeClusterChain
      BY <2>5 DEF FreeClusterChain
    <2>6. CASE WriteSlot
      BY <2>6 DEF WriteSlot
    <2>7. CASE AttachToDir
      BY <2>7 DEF AttachToDir
    <2>8. CASE MarkDeleted
      BY <2>8 DEF MarkDeleted
    <2> QED
      BY <1>2, <2>1, <2>2, <2>3, <2>4, <2>5, <2>6, <2>7, <2>8 DEF Step
  <1>3. CASE Command
    <2>1. ASSUME NEW d, NEW n, CreateFile(d, n) \/ CreateDir(d, n) PROVE mishap \subseteq mishap'
      BY <2>1 DEF CreateFile, CreateDir, NoteMisread
    <2>2. ASSUME NEW d, NEW n, DeleteFile(d, n) \/ RemoveDir(d, n) PROVE mishap \subseteq mishap'
      BY <2>2 DEF DeleteFile, RemoveDir, Removing
    <2>3. ASSUME NEW d, NEW n, NEW m, RenameFile(d, n, m) PROVE mishap \subseteq mishap'
      BY <2>3 DEF RenameFile, NoteMisread
    <2> QED
      BY <1>3, <2>1, <2>2, <2>3, Zenon DEF Command
  <1>4. ASSUME NEW size \in Sizes, WriteFile(size) \/ AppendFile(size) PROVE mishap \subseteq mishap'
    BY <1>1, <1>4 DEF WriteFile, AppendFile, BeginFirst
  <1>5. ASSUME NEW d, NEW n, OpenFile(d, n) PROVE mishap \subseteq mishap'
    BY <1>5 DEF OpenFile
  <1>6. CASE CloseFile \/ PowerLoss \/ UNCHANGED vars
    BY <1>6 DEF CloseFile, PowerLoss, vars
  <1> QED
    BY <1>2, <1>3, <1>4, <1>5, <1>6, Zenon DEF Next

LEMMA InitVolume == Init => VolumeInv
  <1> SUFFICES ASSUME Init PROVE Volume
    BY DEF VolumeInv
  <1> USE TableSize
  <1>1. /\ fat = [c \in Table |-> IF c = root_cluster THEN EOF ELSE FREE]
        /\ dirs = [c \in Table |-> Blank] /\ op = Idle /\ file = Closed
    BY DEF Init
  <1>2. FatInv
    BY <1>1 DEF FatInv, FatTypes
  <1>3. \A d \in Table, i \in Slots : dirs[d][i] = End
    BY <1>1 DEF Blank, Slots
  <1>4. ~IsEntry(End) /\ End.kind # "dir"
    BY SMT DEF End, IsEntry
  <1>5. Dirs = {root_cluster}
    BY <1>3, <1>4 DEF Dirs
  <1>6. dirs \in [Table -> [Slots -> SlotValues]]
    BY <1>1, BlankSlots
  <1>7. fat[root_cluster] \notin Table
    BY <1>1
  <1>8. DirInv
    BY <1>3, <1>4, <1>5, <1>6, <1>7 DEF DirInv
  <1>9. Origin(root_cluster)
    BY <1>1 DEF Origin
  <1>10. HeadInv
    BY <1>3, <1>4, <1>5, <1>9 DEF HeadInv, Refers
  <1>11. OpenInv
    BY <1>1 DEF OpenInv, Closed
  <1>12. OpInv
    BY <1>1, IdleFrame DEF OpInv, WritingInv, CreatingInv, RemovalInv, Writing, Creating, Removal
  <1> QED
    BY <1>2, <1>8, <1>10, <1>11, <1>12 DEF Volume

LEMMA SameVolume ==
    ASSUME Volume, UNCHANGED vars
    PROVE  Volume'
  <1>1. UNCHANGED <<fat, dirs, file, op>>
    BY DEF vars, disk
  <1>2. FatInv' /\ Dirs' = Dirs /\ \A c : Origin(c)' <=> Origin(c)
    BY <1>1 DEF Volume, FatInv, FatTypes, Dirs, Origin
  <1>3. /\ \A d, i, c : Refers(d, i, c)' <=> Refers(d, i, c)
        /\ \A d, i, s : FirstAt(d, i, s)' <=> FirstAt(d, i, s)
        /\ \A d, i : DoomedAt(d, i)' <=> DoomedAt(d, i)
    BY <1>1 DEF Refers, FirstAt, Answers, DoomedAt, Removal
  <1>4. \A c : (Loose(c)' <=> Loose(c)) /\ (Unlinked(c)' <=> Unlinked(c)) /\ (Held(c)' <=> Held(c))
    BY <1>1, <1>2, <1>3 DEF Loose, Unlinked, Held
  <1>5. DirInv' /\ HeadInv'
    BY <1>1, <1>2, <1>3 DEF Volume, DirInv, HeadInv, Origin
  <1>6. OpenInv'
    BY <1>1, <1>2, <1>3, <1>4 DEF Volume, OpenInv, OpenEntry
  <1>7. OpInv'
    BY <1>1, <1>2, <1>3, <1>4 DEF Volume, OpInv, WritingInv, CreatingInv, RemovalInv, Writing, Creating, Removal, Origin
  <1> QED
    BY <1>2, <1>5, <1>6, <1>7 DEF Volume

LEMMA VolumeStep ==
    ASSUME Volume, [Next]_vars, "torn" \notin mishap'
    PROVE  Volume'
  <1>1. Volume
    OBVIOUS
  <1>2. FatInv /\ DirInv /\ OpInv /\ OpenDirs \subseteq Dirs /\ root_cluster \in Dirs
    BY <1>1, DirsNamed DEF Volume
  <1>3. CASE Step
    <2>1. CASE FreeClusterChain
      <3>1. Writing \/ Removal
        BY <1>2, <2>1, CallOf DEF FreeClusterChain
      <3> QED
        BY <1>1, <2>1, <3>1, FreeWriting, FreeRemoval
    <2>2. CASE Trim \/ TrimUnread
      BY <1>1, <2>2, TrimStep
    <2>3. CASE WriteData \/ Extend \/ Link \/ WriteEntry
      BY <1>1, <2>3, WriteDataStep, ExtendStep, LinkStep, WriteEntryStep
    <2>4. CASE MakeDirCluster \/ FillDirCluster \/ WriteSlot \/ GrowDir \/ AttachToDir
      BY <1>1, <2>4, MakeDirStep, FillDirStep, WriteSlotStep, GrowDirStep, AttachStep
    <2>5. CASE MarkDeleted
      BY <1>1, <2>5, MarkDeletedStep
    <2> QED
      BY <1>3, <2>1, <2>2, <2>3, <2>4, <2>5 DEF Step
  <1>4. CASE Command
    <2>1. ASSUME NEW d \in OpenDirs, NEW n \in Names, CreateFile(d, n) \/ DeleteFile(d, n) PROVE Volume'
      <3>1. d \in Dirs
        BY <1>2
      <3> QED
        BY <1>1, <2>1, <3>1, CreateStep, RemovingStep
    <2>2. ASSUME NEW n \in DirNames, CreateDir(root_cluster, n) \/ RemoveDir(root_cluster, n) PROVE Volume'
      <3>1. n \in Names
        BY Fat32Assumption
      <3> QED
        BY <1>1, <1>2, <2>2, <3>1, CreateStep, RemovingStep
    <2>3. ASSUME NEW d \in OpenDirs, NEW n \in Names, NEW m \in Names, RenameFile(d, n, m) PROVE Volume'
      <3>1. d \in Dirs
        BY <1>2
      <3> QED
        BY <1>1, <2>3, <3>1, RenameStep
    <2> QED
      BY <1>4, <2>1, <2>2, <2>3, Zenon DEF Command
  <1>5. ASSUME NEW size \in Sizes, WriteFile(size) \/ AppendFile(size) PROVE Volume'
    <2>1. size \in Nat
      BY Fat32Assumption
    <2> QED
      BY <1>1, <1>5, <2>1, WriteFileStep, AppendFileStep
  <1>6. ASSUME NEW d \in OpenDirs, NEW n \in Names, OpenFile(d, n) PROVE Volume'
    <2>1. d \in Dirs
      BY <1>2
    <2> QED
      BY <1>1, <1>6, <2>1, OpenFileStep
  <1>7. CASE CloseFile \/ PowerLoss \/ UNCHANGED vars
    BY <1>1, <1>7, CloseStep, PowerLossStep, SameVolume
  <1> QED
    BY <1>3, <1>4, <1>5, <1>6, <1>7, Zenon DEF Next

LEMMA NextVolume == VolumeInv /\ [Next]_vars => VolumeInv'
  BY MishapStays, VolumeStep DEF VolumeInv, Clean

\* The volume the driver maintains, through every interleaving of failed writes and power
\* losses, until a removal is cut short: the table is chains, each cluster follows one other
\* at most, every entry and every cluster a call holds heads a chain of its own, and the open
\* file is the entry it was opened from.
THEOREM VolumeInvariant == Spec => []VolumeInv
  BY InitVolume, NextVolume, PTL DEF Spec

-----------------------------------------------------------------------------
(***************************************************************************)
(* What the runs check of the volume follows from the invariant.           *)
(***************************************************************************)
LEMMA HeadsAre ==
    ASSUME Volume, NEW h
    PROVE  h \in Heads <=>
             \E d \in Dirs, i \in Slots :
                /\ h = <<d, <<1, i>>>> /\ IsEntry(dirs[d][i]) /\ dirs[d][i].start # 0 /\ ~DoomedAt(d, i)
                /\ Slot(h[1], h[2]) = dirs[d][i]
  <1>1. FatInv /\ DirInv /\ HeadInv /\ OpInv /\ AllDirs = Dirs
    BY DirsNamed DEF Volume
  <1>2. ASSUME NEW d \in Dirs, NEW i \in Slots
        PROVE  Doomed(d, <<1, i>>) <=> DoomedAt(d, i)
    <2>1. CASE ~Removal
      BY <2>1 DEF Doomed, DoomedAt
    <2>2. CASE Removal
      <3>1. PICK k \in Slots :
               /\ First(Hits(op.d, op.n)) = <<1, k>>
               /\ \A e \in Dirs, j \in Slots : DoomedAt(e, j) <=> e = op.d /\ j = k
        BY <2>2, RemovalTarget
      <3> QED
        BY <2>2, <3>1 DEF Doomed
    <2> QED
      BY <2>1, <2>2
  <1>3. ASSUME NEW d \in Dirs
        PROVE  /\ \A i \in Slots : Slot(d, <<1, i>>) = dirs[d][i]
               /\ \A p : p \in EntriesOf(d) <=> \E i \in Slots : p = <<1, i>> /\ IsEntry(dirs[d][i])
    <2>1. /\ \A i \in Slots : Slot(d, <<1, i>>) = dirs[d][i]
          /\ EntriesOf(d) = {<<1, i>> : i \in {j \in Slots : IsEntry(dirs[d][j])}}
      BY <1>1, DirSlots
    <2> QED
      BY <2>1
  <1>4. h \in Heads <=> \E d \in Dirs : \E p \in EntriesOf(d) : h = <<d, p>> /\ ~Doomed(d, p) /\ Slot(d, p).start # 0
    <2>1. h \in UNION {{d} \X EntriesOf(d) : d \in Dirs} <=> \E d \in Dirs : \E p \in EntriesOf(d) : h = <<d, p>>
      OBVIOUS
    <2>2. \A d, p : h = <<d, p>> => h[1] = d /\ h[2] = p
      OBVIOUS
    <2>3. h \in Heads <=> h \in UNION {{d} \X EntriesOf(d) : d \in Dirs} /\ ~Doomed(h[1], h[2]) /\ Slot(h[1], h[2]).start # 0
      BY <1>1 DEF Heads
    <2> QED
      BY <2>1, <2>2, <2>3
  <1>5. ASSUME h \in Heads
        PROVE  \E d \in Dirs, i \in Slots :
                /\ h = <<d, <<1, i>>>> /\ IsEntry(dirs[d][i]) /\ dirs[d][i].start # 0 /\ ~DoomedAt(d, i)
                /\ Slot(h[1], h[2]) = dirs[d][i]
    <2>1. PICK d \in Dirs : \E p \in EntriesOf(d) : h = <<d, p>> /\ ~Doomed(d, p) /\ Slot(d, p).start # 0
      BY <1>4, <1>5
    <2>2. PICK p \in EntriesOf(d) : h = <<d, p>> /\ ~Doomed(d, p) /\ Slot(d, p).start # 0
      BY <2>1
    <2>3. PICK i \in Slots : p = <<1, i>> /\ IsEntry(dirs[d][i])
      BY <1>3, <2>2
    <2>4. Slot(d, <<1, i>>) = dirs[d][i]
      BY <1>3
    <2>5. h[1] = d /\ h[2] = <<1, i>>
      BY <2>2, <2>3
    <2> QED
      BY <1>2, <2>2, <2>3, <2>4, <2>5
  <1>6. ASSUME NEW d \in Dirs, NEW i \in Slots,
               h = <<d, <<1, i>>>>, IsEntry(dirs[d][i]), dirs[d][i].start # 0, ~DoomedAt(d, i)
        PROVE  h \in Heads
    <2>1. <<1, i>> \in EntriesOf(d) /\ Slot(d, <<1, i>>) = dirs[d][i] /\ ~Doomed(d, <<1, i>>)
      BY <1>2, <1>3, <1>6
    <2> QED
      BY <1>4, <1>6, <2>1
  <1> QED
    BY <1>5, <1>6

\* The clusters of a chain, counted.
LEMMA ChainCount ==
    ASSUME NEW s \in Seq(Table), \A j, k \in 1..Len(s) : s[j] = s[k] => j = k
    PROVE  Cardinality(Clus(s)) = Len(s)
  <1>1. Len(s) \in Nat /\ s \in [1..Len(s) -> Table]
    OBVIOUS
  <1>2. s \in [1..Len(s) -> Clus(s)]
    BY <1>1 DEF Clus
  <1>3. s \in Bijection(1..Len(s), Clus(s))
    BY <1>2 DEF Clus, Bijection, Injection, Surjection, IsInjective
  <1>4. ExistsBijection(1..Len(s), Clus(s))
    BY <1>3 DEF ExistsBijection
  <1> QED
    BY <1>1, <1>4, FS_CountingElements

LEMMA VolumeChains == VolumeInv => ChainsIntact
  <1> SUFFICES ASSUME Volume
               PROVE  /\ \A h \in Heads : /\ root_cluster \notin Clus(HeadChain(h))
                                          /\ fat[Last(HeadChain(h))] = EOF
                                          /\ Cardinality(Clus(HeadChain(h))) = Len(HeadChain(h))
                      /\ \A g, h \in Heads : g # h => Clus(HeadChain(g)) \cap Clus(HeadChain(h)) = {}
    BY DEF VolumeInv, ChainsIntact
  <1>1. FatInv /\ DirInv /\ HeadInv
    BY DEF Volume
  <1>2. ASSUME NEW h \in Heads
        PROVE  \E d \in Dirs, i \in Slots, s \in Table :
                  /\ h = <<d, <<1, i>>>> /\ Origin(s) /\ Refers(d, i, s) /\ s # root_cluster
                  /\ HeadChain(h) = Chain(s)
    <2>1. PICK d \in Dirs, i \in Slots :
                /\ h = <<d, <<1, i>>>> /\ IsEntry(dirs[d][i]) /\ dirs[d][i].start # 0 /\ ~DoomedAt(d, i)
                /\ Slot(h[1], h[2]) = dirs[d][i]
      BY HeadsAre
    <2>2. PICK s : s = dirs[d][i].start
      OBVIOUS
    <2>3. Origin(s) /\ s \in Table /\ Refers(d, i, s) /\ s # root_cluster
      BY <1>1, <2>1, <2>2, HeadFacts
    <2>4. HeadChain(h) = Chain(s)
      BY <2>1, <2>2 DEF HeadChain
    <2> QED
      BY <2>1, <2>3, <2>4
  <1>3. ASSUME NEW h \in Heads
        PROVE  /\ root_cluster \notin Clus(HeadChain(h))
               /\ fat[Last(HeadChain(h))] = EOF
               /\ Cardinality(Clus(HeadChain(h))) = Len(HeadChain(h))
    <2>1. PICK s \in Table : Origin(s) /\ s # root_cluster /\ HeadChain(h) = Chain(s)
      BY <1>2, <1>3
    <2>2. PICK ch : ch = Chain(s)
      OBVIOUS
    <2>3. /\ ch \in Seq(Table) /\ Len(ch) >= 1
          /\ \A j, k \in 1..Len(ch) : ch[j] = ch[k] => j = k
          /\ fat[ch[Len(ch)]] = EOF
      BY <1>1, <2>1, <2>2, OriginChain
    <2>4. Cardinality(Clus(ch)) = Len(ch)
      BY <2>3, ChainCount
    <2>5. root_cluster \notin Clus(ch)
      <3>1. Origin(root_cluster)
        BY <1>1 DEF HeadInv
      <3>2. Clus(Chain(root_cluster)) \cap Clus(Chain(s)) = {}
        BY <1>1, <2>1, <3>1, OriginsApart
      <3>3. root_cluster \in Clus(Chain(root_cluster))
        <4>1. LET c == Chain(root_cluster) IN Len(c) >= 1 /\ c[1] = root_cluster /\ Len(c) \in Nat
          BY <1>1, <3>1, OriginChain
        <4> QED
          BY <4>1 DEF Clus
      <3> QED
        BY <2>2, <3>2, <3>3
    <2> QED
      BY <2>1, <2>2, <2>3, <2>4, <2>5 DEF Last
  <1>4. ASSUME NEW g \in Heads, NEW h \in Heads, g # h
        PROVE  Clus(HeadChain(g)) \cap Clus(HeadChain(h)) = {}
    <2>1. PICK d \in Dirs, i \in Slots, s \in Table :
                  g = <<d, <<1, i>>>> /\ Origin(s) /\ Refers(d, i, s) /\ HeadChain(g) = Chain(s)
      BY <1>2
    <2>2. PICK e \in Dirs, j \in Slots, t \in Table :
                  h = <<e, <<1, j>>>> /\ Origin(t) /\ Refers(e, j, t) /\ HeadChain(h) = Chain(t)
      BY <1>2
    <2>3. s # t
      BY <1>1, <1>4, <2>1, <2>2 DEF HeadInv
    <2> QED
      BY <1>1, <2>1, <2>2, <2>3, OriginsApart
  <1> QED
    BY <1>3, <1>4

\* No cluster is ever on two chains and every chain ends in an end mark, for every size of the
\* volume, whatever writes fail in FAT32_WriteFile, FAT32_AppendFile, FAT32_CreateFile,
\* FAT32_CreateDir and the removals and wherever the power is lost, until a removal is cut short.
THEOREM ChainsStayIntact == Spec => []ChainsIntact
  BY VolumeInvariant, VolumeChains, PTL

-----------------------------------------------------------------------------
(***************************************************************************)
(* Names.  A step leaves the directories as they are or writes one slot of *)
(* one of them: with the open file's entry, with a new name for an entry,  *)
(* with a new entry, or with the mark of a deleted one.                    *)
(***************************************************************************)
Rewrites(d, i, v) ==
    /\ IsEntry(dirs[d][i]) /\ v.sfn = dirs[d][i].sfn /\ v.kind = dirs[d][i].kind /\ dirs[d][i].start \in {0, v.start}
    /\ op.pc = "entry" /\ file'.open /\ v = file'.entry /\ v.start = file.entry.start
Renames(d, i, v) ==
    /\ IsEntry(dirs[d][i]) /\ v.kind = dirs[d][i].kind /\ v.start = dirs[d][i].start /\ v.size = dirs[d][i].size
    /\ op = Idle /\ ~file.open /\ UNCHANGED <<fat, file, op>>
    /\ "misread" \notin mishap' => \A j \in Slots : ~Answers(d, j, v.sfn)
Fills(d, i, v) ==
    /\ Usable(dirs[d][i]) /\ Creating /\ op.pc = "slot" /\ d = op.d /\ v.sfn = name_to_83[op.n] /\ v.size = 0
    /\ v.kind = "dir" => d = root_cluster /\ v.start \in Table /\ dirs[v.start] = NewDir
Deletes(d, i, v) ==
    /\ v = Deleted /\ IsEntry(dirs[d][i]) /\ op.pc = "mark" /\ UNCHANGED fat
    /\ Removal /\ d = op.d /\ FirstAt(d, i, name_to_83[op.n]) /\ First(Hits(op.d, op.n)) = <<1, i>>

LEMMA NotFound ==
    ASSUME FatInv, DirInv, NEW d \in Dirs, NEW n \in Names, ~Found(d, n), NEW j \in Slots
    PROVE  ~Answers(d, j, name_to_83[n])
  <1>1. Hits(d, n) = {<<1, i>> : i \in {k \in Slots : Answers(d, k, name_to_83[n])}}
    BY DirSlots
  <1> QED
    BY <1>1 DEF Found

LEMMA DirectoryStep ==
    ASSUME Volume, [Next]_vars
    PROVE  \/ SameDirs
           \/ \E d \in Dirs, i \in Slots, v \in SlotValues :
                /\ dirs' = [dirs EXCEPT ![d][i] = v]
                /\ Deletes(d, i, v) \/ (v \in Entries /\ (Rewrites(d, i, v) \/ Renames(d, i, v) \/ Fills(d, i, v)))
  <1> USE DEF disk
  <1>1. FatInv /\ DirInv /\ OpInv /\ OpenDirs \subseteq Dirs
    BY DirsNamed DEF Volume
  <1>2. ASSUME UNCHANGED dirs PROVE SameDirs
    BY <1>1, <1>2 DEF SameDirs, DirInv
  <1>3. ASSUME NEW c, c \notin Dirs, NEW b \in [Slots -> SlotValues], dirs' = [dirs EXCEPT ![c] = b] PROVE SameDirs
    BY <1>1, <1>3 DEF SameDirs, DirInv
  <1>4. Entries \subseteq SlotValues /\ Deleted \in SlotValues
    BY DEF SlotValues
  <1>5. CASE WriteData
    <2>1. op.cluster \notin Dirs
      BY <1>1, <1>5, CallOf DEF WriteData, OpInv, WritingInv, Held
    <2>2. dirs' = dirs \/ dirs' = [dirs EXCEPT ![op.cluster] = Blank]
      BY <1>5 DEF WriteData, AsData
    <2> QED
      BY <1>2, <1>3, <2>1, <2>2, BlankSlots
  <1>6. CASE FillDirCluster
    <2>1. Unlinked(op.cluster)
      BY <1>1, <1>6, CallOf DEF FillDirCluster, OpInv, CreatingInv, Creating
    <2>2. op.cluster \notin Dirs
      BY <2>1, LooseNoDir DEF Unlinked
    <2>3. dirs' = dirs \/ dirs' = [dirs EXCEPT ![op.cluster] = NewDir]
      BY <1>6 DEF FillDirCluster
    <2> QED
      BY <1>2, <1>3, <2>2, <2>3, BlankSlots
  <1>7. CASE AttachToDir
    <2>1. op.pc = "attach" /\ Creating
      BY <1>1, <1>7, CallOf DEF AttachToDir
    <2>2. op.next \notin Dirs /\ op.d \in Dirs
      BY <1>1, <2>1, LooseNoDir DEF OpInv, CreatingInv, Unlinked
    <2>3. PICK d \in Dirs : d = op.d
      BY <2>2
    <2>4. PICK v \in Entries : v = NewEntry
      BY <1>1, <2>1, EntryMade
    <2>5. Last(Chain(d)) = d /\ dirs[d] \in [Slots -> SlotValues] /\ v \in SlotValues
      <3>1. Last(Chain(d)) = d
        BY <1>1, DirSlots DEF Last
      <3>2. d \in Table /\ dirs \in [Table -> [Slots -> SlotValues]]
        BY <1>1 DEF DirInv
      <3> QED
        BY <1>4, <3>1, <3>2
    <2>6. [dirs[d] EXCEPT ![1] = v] \in [Slots -> SlotValues]
      BY <2>5
    <2>7. dirs' = dirs \/ dirs' = [dirs EXCEPT ![op.next] = [dirs[d] EXCEPT ![1] = v]]
      <3>1. dirs' = dirs \/ dirs' = [dirs EXCEPT ![op.next] = [dirs[Last(Chain(op.d))] EXCEPT ![1] = NewEntry]]
        BY <1>7 DEF AttachToDir
      <3> QED
        BY <2>3, <2>4, <2>5, <3>1
    <2> QED
      BY <1>2, <1>3, <2>2, <2>6, <2>7
  <1>8. CASE WriteEntry
    <2>1. PICK d \in Dirs, i \in Slots, v \in Entries :
             /\ v.kind = dirs[d][i].kind /\ v.sfn = dirs[d][i].sfn
             /\ file'.open /\ v = file'.entry /\ v.start = file.entry.start
             /\ IsEntry(dirs[d][i]) /\ dirs[d][i].start \in {0, v.start}
             /\ dirs' = dirs \/ dirs' = [dirs EXCEPT ![d][i] = v]
      BY <1>8, EntryWritten
    <2>2. Rewrites(d, i, v)
      BY <1>8, <2>1 DEF Rewrites, WriteEntry
    <2> QED
      BY <1>2, <1>4, <2>1, <2>2
  <1>9. CASE WriteSlot
    <2>1. CASE FreePlaces(op.d) = {}
      BY <1>2, <1>9, <2>1 DEF WriteSlot
    <2>2. CASE FreePlaces(op.d) # {}
      <3>1. PICK d \in Dirs, i \in Slots, v \in Entries :
             /\ d = op.d /\ Usable(dirs[d][i]) /\ v.sfn = name_to_83[op.n] /\ v.size = 0
             /\ v.kind = "dir" => d = root_cluster /\ Loose(v.start) /\ dirs[v.start] = NewDir
             /\ dirs' = dirs \/ dirs' = [dirs EXCEPT ![d][i] = v]
        BY <1>9, <2>2, SlotWritten
      <3>2. Fills(d, i, v)
        BY <1>1, <1>9, <3>1, CallOf, LooseNoDir DEF Fills, WriteSlot
      <3> QED
        BY <1>2, <1>4, <3>1, <3>2
    <2> QED
      BY <2>1, <2>2
  <1>10. CASE MarkDeleted
    <2>1. PICK d \in Dirs, i \in Slots :
             /\ d = op.d /\ IsEntry(dirs[d][i]) /\ Removal /\ op.pc = "mark"
             /\ First(Hits(op.d, op.n)) = <<1, i>> /\ FirstAt(d, i, name_to_83[op.n])
             /\ dirs' = dirs \/ dirs' = [dirs EXCEPT ![d][i] = Deleted]
      BY <1>10, MarkWritten
    <2>2. Deletes(d, i, Deleted)
      BY <1>10, <2>1 DEF Deletes, MarkDeleted
    <2> QED
      BY <1>2, <1>4, <2>1, <2>2
  <1>11. ASSUME NEW d \in OpenDirs, NEW n \in Names, NEW m \in Names, RenameFile(d, n, m)
         PROVE  \/ SameDirs
                \/ \E i \in Slots, v \in Entries : dirs' = [dirs EXCEPT ![d][i] = v] /\ Renames(d, i, v)
    <2>1. d \in Dirs
      BY <1>1
    <2>2. PICK i \in Slots, v \in Entries :
             /\ v.sfn = name_to_83[m]
             /\ IsEntry(dirs[d][i]) /\ dirs[d][i].kind = v.kind /\ dirs[d][i].start = v.start /\ dirs[d][i].size = v.size
             /\ dirs' = dirs \/ dirs' = [dirs EXCEPT ![d][i] = v]
      BY <1>11, <2>1, NameWritten
    <2>3. "misread" \notin mishap' => ~Found(d, m)
      BY <1>11 DEF RenameFile, NoteMisread
    <2>4. Renames(d, i, v)
      BY <1>1, <1>11, <2>1, <2>2, <2>3, NotFound DEF Renames, RenameFile, Ready
    <2> QED
      BY <1>2, <2>2, <2>4
  <1>12. CASE Step
    <2>1. CASE Extend \/ Link \/ Trim \/ TrimUnread \/ FreeClusterChain \/ MakeDirCluster \/ GrowDir
      BY <1>2, <2>1 DEF Extend, Link, Trim, TrimUnread, FreeClusterChain, MakeDirCluster, GrowDir
    <2> QED
      BY <1>5, <1>6, <1>7, <1>8, <1>9, <1>10, <1>12, <2>1 DEF Step
  <1>13. CASE Command
    <2>1. ASSUME NEW d, NEW n, CreateFile(d, n) \/ CreateDir(d, n) \/ DeleteFile(d, n) \/ RemoveDir(d, n) PROVE SameDirs
      BY <1>2, <2>1 DEF CreateFile, CreateDir, DeleteFile, RemoveDir, Removing
    <2>2. CASE \E d \in OpenDirs, n, m \in Names : RenameFile(d, n, m)
      BY <1>1, <1>4, <1>11, <2>2
    <2> QED
      BY <1>13, <2>1, <2>2 DEF Command
  <1>14. ASSUME NEW size \in Sizes, WriteFile(size) \/ AppendFile(size) PROVE SameDirs
    BY <1>2, <1>14 DEF WriteFile, AppendFile
  <1>15. ASSUME NEW d, NEW n, OpenFile(d, n) PROVE SameDirs
    BY <1>2, <1>15 DEF OpenFile
  <1>16. CASE CloseFile \/ PowerLoss \/ UNCHANGED vars
    BY <1>2, <1>16 DEF CloseFile, PowerLoss, vars
  <1> QED
    BY <1>12, <1>13, <1>14, <1>15, <1>16, Zenon DEF Next

\* The target of a creation or a removal is the one the call began with.
LEMMA TargetOf ==
    ASSUME NEW call, NEW pc, NEW d, NEW n, NEW c
    PROVE  /\ Target(call, pc, d, n).call = call /\ Target(call, pc, d, n).d = d /\ Target(call, pc, d, n).n = n
           /\ LET y == [Target(call, pc, d, n) EXCEPT !.next = c] IN y.call = call /\ y.d = d /\ y.n = n
  BY DEF Target, Idle

LEMMA BeginOf ==
    ASSUME NEW call, NEW pc, NEW c, NEW size, NEW o
    PROVE  Begin(call, pc, c, size).call = call /\ [Begin(call, pc, c, size) EXCEPT !.offset = o].call = call
  BY DEF Begin, Idle

SameTarget == op'.call = op.call /\ op'.d = op.d /\ op'.n = op.n

LEMMA TargetStep ==
    ASSUME Volume, [Next]_vars
    PROVE  /\ Creating' => \/ Creating /\ SameTarget /\ SameDirs
                           \/ \E d \in Dirs, n \in Names :
                                /\ op'.d = d /\ op'.n = n /\ UNCHANGED dirs
                                /\ "misread" \notin mishap' => ~Found(d, n)
           /\ Removal' => \/ Removal /\ SameTarget /\ UNCHANGED dirs
                          \/ \E d \in Dirs, n \in Names :
                                /\ op'.d = d /\ op'.n = n /\ UNCHANGED dirs /\ Found(d, n)
                                /\ op'.call = "delete" <=> FAT32_FindEntryAny(d, n).kind = "file"
                                /\ FAT32_FindEntryAny(d, n).kind # "file" => is_dir_empty(FAT32_FindEntryAny(d, n).start)
  <1> DEFINE Neither == ~Creating' /\ ~Removal'
             Carried == \/ Creating /\ ~Removal' /\ SameTarget /\ SameDirs
                        \/ Removal /\ ~Creating' /\ SameTarget /\ UNCHANGED dirs
  <1> USE DEF disk
  <1>1. FatInv /\ DirInv /\ OpInv /\ OpenDirs \subseteq Dirs /\ root_cluster \in Dirs /\ op \in Frame
    BY DirsNamed DEF Volume, OpInv
  <1>2. ASSUME op' = Idle \/ op' = [Idle EXCEPT !.pc = "hung"] PROVE Neither
    BY <1>2, Returned
  <1>3. ASSUME op'.call = op.call, Writing PROVE Neither
    BY <1>1, <1>3, CallOf DEF Writing, Creating, Removal
  <1>4. ASSUME UNCHANGED dirs PROVE SameDirs
    BY <1>1, <1>4 DEF SameDirs, DirInv
  <1>5. ASSUME SameTarget, Creating, SameDirs PROVE Carried
    BY <1>5 DEF SameTarget, Creating, Removal
  <1>6. ASSUME SameTarget, Removal, UNCHANGED dirs PROVE Carried
    BY <1>6 DEF SameTarget, Creating, Removal
  <1>7. CASE Step
    <2>1. CASE WriteData \/ Link
      <3>1. Writing
        BY <1>1, <2>1, CallOf DEF WriteData, Link
      <3>2. op' = Idle \/ op'.call = op.call
        <4>1. WriteRound.call = op.call
          BY <1>1 DEF WriteRound, Frame
        <4>2. [op EXCEPT !.pc = "data", !.cluster = op.next, !.next = 0, !.offset = 0].call = op.call
          BY <1>1 DEF Frame
        <4> QED
          BY <2>1, <4>1, <4>2 DEF WriteData, Link
      <3> QED
        BY <1>2, <1>3, <3>1, <3>2
    <2>2. CASE Extend
      <3>1. Writing
        BY <1>1, <2>2, CallOf DEF Extend
      <3>2. op' = Idle \/ op' = [Idle EXCEPT !.pc = "hung"] \/ op'.call = op.call
        <4>1. [op EXCEPT !.pc = "link", !.next = Picked].call = op.call
          BY <1>1 DEF Frame
        <4> QED
          BY <2>2, <4>1 DEF Extend, NoCluster, Return
      <3> QED
        BY <1>2, <1>3, <3>1, <3>2
    <2>3. CASE Trim \/ TrimUnread
      <3>1. Writing
        BY <1>1, <2>3, CallOf DEF Trim, TrimUnread
      <3>2. op'.call = op.call
        <4>1. [op EXCEPT !.pc = "free", !.next = fat[op.cluster]].call = op.call /\ [op EXCEPT !.pc = "entry"].call = op.call
          BY <1>1 DEF Frame
        <4> QED
          BY <2>3, <4>1 DEF Trim, TrimUnread
      <3> QED
        BY <1>3, <3>1, <3>2
    <2>4. CASE FreeClusterChain
      <3>1. Writing \/ Removal
        BY <1>1, <2>4, CallOf DEF FreeClusterChain
      <3>2. op' = Idle \/ SameTarget
        <4> DEFINE y == [op EXCEPT !.pc = After, !.next = 0]
                   z == [op EXCEPT !.next = NextToFree]
        <4>1. y.call = op.call /\ y.d = op.d /\ y.n = op.n /\ z.call = op.call /\ z.d = op.d /\ z.n = op.n
          BY <1>1 DEF Frame
        <4>2. op' = Idle \/ op' = y \/ op' = z
          BY <2>4 DEF FreeClusterChain
        <4> QED
          BY <4>1, <4>2 DEF SameTarget
      <3>3. UNCHANGED dirs
        BY <2>4 DEF FreeClusterChain
      <3> QED
        BY <1>2, <1>3, <1>6, <3>1, <3>2, <3>3 DEF SameTarget
    <2>5. CASE WriteEntry \/ MarkDeleted
      BY <1>2, <2>5 DEF WriteEntry, MarkDeleted
    <2>6. CASE MakeDirCluster \/ GrowDir
      <3>1. Creating /\ UNCHANGED dirs
        BY <1>1, <2>6, CallOf DEF MakeDirCluster, GrowDir
      <3>2. op' = Idle \/ op' = [Idle EXCEPT !.pc = "hung"] \/ SameTarget
        <4> DEFINE y == [op EXCEPT !.pc = "fill", !.cluster = Picked]
                   z == [op EXCEPT !.pc = "attach", !.next = Picked]
        <4>1. y.call = op.call /\ y.d = op.d /\ y.n = op.n /\ z.call = op.call /\ z.d = op.d /\ z.n = op.n
          BY <1>1 DEF Frame
        <4>2. op' = Idle \/ op' = [Idle EXCEPT !.pc = "hung"] \/ op' = y \/ op' = z
          BY <2>6 DEF MakeDirCluster, GrowDir, NoCluster, Return
        <4> QED
          BY <4>1, <4>2 DEF SameTarget
      <3> QED
        BY <1>2, <1>4, <1>5, <3>1, <3>2
    <2>7. CASE FillDirCluster
      <3>1. Creating /\ Unlinked(op.cluster)
        BY <1>1, <2>7, CallOf DEF FillDirCluster, OpInv, CreatingInv, Creating
      <3>2. op' = Idle \/ SameTarget
        <4> DEFINE y == [op EXCEPT !.pc = "slot"]
        <4>1. y.call = op.call /\ y.d = op.d /\ y.n = op.n
          BY <1>1 DEF Frame
        <4>2. op' = Idle \/ op' = y
          BY <2>7 DEF FillDirCluster
        <4> QED
          BY <4>1, <4>2 DEF SameTarget
      <3>3. dirs' = dirs \/ dirs' = [dirs EXCEPT ![op.cluster] = NewDir]
        BY <2>7 DEF FillDirCluster
      <3>4. SameDirs
        BY <1>1, <3>1, <3>3, LooseNoDir, BlankSlots DEF SameDirs, DirInv, Unlinked
      <3> QED
        BY <1>2, <1>5, <3>1, <3>2, <3>4
    <2>8. CASE WriteSlot
      <3>1. Creating
        BY <1>1, <2>8, CallOf DEF WriteSlot
      <3>2. op' = Idle \/ (SameTarget /\ UNCHANGED dirs)
        <4> DEFINE y == [op EXCEPT !.pc = "grow"]
        <4>1. y.call = op.call /\ y.d = op.d /\ y.n = op.n
          BY <1>1 DEF Frame
        <4>2. op' = Idle \/ (op' = y /\ UNCHANGED dirs)
          BY <2>8 DEF WriteSlot
        <4> QED
          BY <4>1, <4>2 DEF SameTarget
      <3> QED
        BY <1>2, <1>4, <1>5, <3>1, <3>2
    <2>9. CASE AttachToDir
      BY <1>2, <2>9 DEF AttachToDir, Return
    <2> QED
      BY <1>7, <2>1, <2>2, <2>3, <2>4, <2>5, <2>6, <2>7, <2>8, <2>9 DEF Step
  <1>8. ASSUME NEW d \in Dirs, NEW n \in Names, CreateFile(d, n) \/ CreateDir(d, n)
        PROVE  /\ ~Removal' /\ op'.d = d /\ op'.n = n /\ UNCHANGED dirs
               /\ "misread" \notin mishap' => ~Found(d, n)
    <2>1. op'.call \in {"create", "mkdir"} /\ op'.d = d /\ op'.n = n /\ UNCHANGED dirs
      BY <1>8, TargetOf DEF CreateFile, CreateDir
    <2>2. "misread" \notin mishap' => ~Found(d, n)
      BY <1>8 DEF CreateFile, CreateDir, NoteMisread
    <2> QED
      BY <2>1, <2>2 DEF Removal
  <1>9. ASSUME NEW d \in Dirs, NEW n \in Names, DeleteFile(d, n) \/ RemoveDir(d, n)
        PROVE  /\ ~Creating' /\ op'.d = d /\ op'.n = n /\ UNCHANGED dirs /\ Found(d, n)
               /\ op'.call = "delete" <=> FAT32_FindEntryAny(d, n).kind = "file"
               /\ FAT32_FindEntryAny(d, n).kind # "file" => is_dir_empty(FAT32_FindEntryAny(d, n).start)
    <2>1. PICK call \in {"delete", "rmdir"} :
             Removing(call, d, n) /\ Found(d, n)
             /\ (call = "delete" <=> FAT32_FindEntryAny(d, n).kind = "file")
             /\ (call = "rmdir" => is_dir_empty(FAT32_FindEntryAny(d, n).start))
      BY <1>9 DEF DeleteFile, RemoveDir
    <2>2. op'.call = call /\ op'.d = d /\ op'.n = n /\ UNCHANGED dirs
      <3>1. PICK pc, c : op' = [Target(call, pc, d, n) EXCEPT !.next = c]
        BY <2>1 DEF Removing
      <3> QED
        BY <2>1, <3>1, TargetOf DEF Removing
    <2> QED
      BY <2>1, <2>2 DEF Creating
  <1>10. CASE Command
    <2>1. CASE \E d \in OpenDirs, n, m \in Names : RenameFile(d, n, m)
      <3>1. Neither
        BY <1>2, <2>1 DEF RenameFile, Ready
      <3> QED
        BY <3>1
    <2>2. CASE \E d \in Dirs, n \in Names : CreateFile(d, n) \/ CreateDir(d, n)
      BY <1>8, <2>2
    <2>3. CASE \E d \in Dirs, n \in Names : DeleteFile(d, n) \/ RemoveDir(d, n)
      BY <1>9, <2>3
    <2>4. DirNames \subseteq Names
      BY Fat32Assumption
    <2>5. \/ \E d \in Dirs, n \in Names : CreateFile(d, n) \/ CreateDir(d, n)
          \/ \E d \in Dirs, n \in Names : DeleteFile(d, n) \/ RemoveDir(d, n)
          \/ \E d \in OpenDirs, n, m \in Names : RenameFile(d, n, m)
      BY <1>1, <1>10, <2>4, Zenon DEF Command
    <2> QED
      BY <2>1, <2>2, <2>3, <2>5
  <1>11. ASSUME NEW size \in Sizes, WriteFile(size) \/ AppendFile(size) PROVE Neither
    <2>1. op' = Idle \/ op' = [Idle EXCEPT !.pc = "hung"] \/ op'.call \in {"write", "append"}
      <3>1. CASE WriteFile(size)
        <4>1. \/ op' = Idle \/ op' = [Idle EXCEPT !.pc = "hung"]
              \/ \E pc, c : op' = Begin("write", pc, c, size)
          BY <3>1 DEF WriteFile, BeginFirst, NoCluster, Return
        <4> QED
          BY <4>1, BeginOf
      <3>2. CASE AppendFile(size)
        <4>1. \/ op' = Idle \/ op' = [Idle EXCEPT !.pc = "hung"]
              \/ \E pc, c : op' = Begin("append", pc, c, size)
              \/ \E pc, c, o : op' = [Begin("append", pc, c, size) EXCEPT !.offset = o]
          BY <3>2 DEF AppendFile, BeginFirst, NoCluster, Return
        <4>2. CASE \E pc, c, o : op' = [Begin("append", pc, c, size) EXCEPT !.offset = o]
          <5>1. PICK pc, c, o : op' = [Begin("append", pc, c, size) EXCEPT !.offset = o]
            BY <4>2
          <5> QED
            BY <5>1, BeginOf
        <4> QED
          BY <4>1, <4>2, BeginOf
      <3> QED
        BY <1>11, <3>1, <3>2
    <2>2. CASE op'.call \in {"write", "append"}
      BY <2>2 DEF Creating, Removal
    <2> QED
      BY <1>2, <2>1, <2>2
  <1>12. ASSUME NEW d, NEW n, OpenFile(d, n) PROVE Neither
    BY <1>2, <1>12 DEF OpenFile, Ready
  <1>13. CASE CloseFile \/ PowerLoss
    BY <1>2, <1>13 DEF CloseFile, PowerLoss
  <1>14. CASE UNCHANGED vars
    BY <1>4, <1>14 DEF vars, SameTarget, Creating, Removal
  <1> QED
    BY <1>7, <1>10, <1>11, <1>12, <1>13, <1>14 DEF Next

-----------------------------------------------------------------------------
\* The directories after a slot was written.
LEMMA DirsAfter ==
    ASSUME DirInv, NEW d \in Dirs, NEW i \in Slots, NEW v \in SlotValues, dirs' = [dirs EXCEPT ![d][i] = v],
           Deletes(d, i, v) \/ (v \in Entries /\ (Rewrites(d, i, v) \/ Renames(d, i, v) \/ Fills(d, i, v)))
    PROVE  /\ \A e \in Dirs' : e \in Dirs \/ (Fills(d, i, v) /\ e = v.start /\ dirs'[e] = NewDir)
           /\ \A e \in Dirs : e \in Dirs' \/ (Deletes(d, i, v) /\ d = root_cluster /\ dirs[d][i].kind = "dir" /\ e = dirs[d][i].start)
  <1>1. /\ dirs' \in [Table -> [Slots -> SlotValues]] /\ d \in Table
        /\ dirs'[d][i] = v
        /\ \A e \in Table, j \in Slots : e # d \/ j # i => dirs'[e][j] = dirs[e][j]
    BY ZenonT(60), SlotWrite
  <1>2. root_cluster \in Table /\ root_cluster \in Dirs /\ root_cluster \in Dirs'
    BY TableSize DEF Dirs
  <1>3. Deleted.kind # "dir"
    BY SMT DEF Deleted
  <1>4. ASSUME Rewrites(d, i, v) \/ Renames(d, i, v), v.kind = "dir" \/ dirs[d][i].kind = "dir"
        PROVE  v.kind = "dir" /\ dirs[d][i].kind = "dir" /\ v.start = dirs[d][i].start
    <2>1. v.kind = dirs[d][i].kind /\ IsEntry(dirs[d][i]) /\ dirs[d][i].start \in {0, v.start}
      BY <1>4 DEF Rewrites, Renames
    <2>2. Proper(dirs[d][i])
      BY <2>1 DEF DirInv
    <2> QED
      BY <1>4, <2>1, <2>2 DEF Proper
  <1>5. ASSUME Fills(d, i, v) PROVE dirs[d][i].kind # "dir"
    <2>1. dirs[d][i] \in SlotValues /\ Usable(dirs[d][i])
      BY <1>5 DEF DirInv, Fills
    <2> QED
      BY <2>1, SlotKinds DEF IsEntry
  <1>6. ASSUME NEW e \in Dirs', e \notin Dirs
        PROVE  Fills(d, i, v) /\ e = v.start /\ dirs'[e] = NewDir
    <2>1. PICK j \in Slots : dirs'[root_cluster][j].kind = "dir" /\ e = dirs'[root_cluster][j].start
      BY <1>2, <1>6 DEF Dirs
    <2>2. d = root_cluster /\ j = i
      BY <1>1, <1>2, <1>6, <2>1 DEF Dirs
    <2>3. v.kind = "dir" /\ e = v.start
      BY <1>1, <2>1, <2>2
    <2>4. Fills(d, i, v)
      BY <1>3, <1>4, <1>6, <2>2, <2>3 DEF Dirs, Deletes
    <2>5. v.start \in Table /\ dirs[v.start] = NewDir
      BY <2>3, <2>4 DEF Fills
    <2>6. dirs'[e] = dirs[e]
      BY <1>2, <1>6, <2>2, <2>3, <2>5 DEF DirInv
    <2> QED
      BY <2>3, <2>4, <2>5, <2>6
  <1>7. ASSUME NEW e \in Dirs, e \notin Dirs'
        PROVE  Deletes(d, i, v) /\ d = root_cluster /\ dirs[d][i].kind = "dir" /\ e = dirs[d][i].start
    <2>1. PICK j \in Slots : dirs[root_cluster][j].kind = "dir" /\ e = dirs[root_cluster][j].start
      BY <1>2, <1>7 DEF Dirs
    <2>2. d = root_cluster /\ j = i
      BY <1>1, <1>2, <1>7, <2>1 DEF Dirs
    <2>3. ~(v.kind = "dir" /\ v.start = e)
      BY <1>1, <1>7, <2>2 DEF Dirs
    <2> QED
      BY <1>4, <1>5, <2>1, <2>2, <2>3
  <1> QED
    BY <1>6, <1>7

\* In every directory the 8.3 names are different, and the name of an entry that is being
\* created is not among them.
OneEach(d) == \A i, j \in Slots : IsEntry(dirs[d][i]) /\ IsEntry(dirs[d][j]) /\ dirs[d][i].sfn = dirs[d][j].sfn => i = j
NamesApart == \A d \in Dirs : OneEach(d)
NewName == Creating => \A i \in Slots : ~Answers(op.d, i, name_to_83[op.n])
NamesInv == Clean({"torn", "misread"}) => NamesApart /\ NewName

LEMMA NamesStep ==
    ASSUME Volume, NamesApart, NewName, [Next]_vars, "misread" \notin mishap'
    PROVE  NamesApart' /\ NewName'
  <1>1. FatInv /\ DirInv /\ OpInv
    BY DEF Volume
  <1>2. NewName'
    <2> SUFFICES ASSUME Creating', NEW i \in Slots PROVE ~Answers(op.d, i, name_to_83[op.n])'
      BY DEF NewName
    <2>1. CASE Creating /\ SameTarget /\ SameDirs
      <3>1. op.d \in Dirs /\ ~Answers(op.d, i, name_to_83[op.n])
        BY <1>1, <2>1 DEF NewName, OpInv, CreatingInv
      <3>2. dirs'[op.d] = dirs[op.d]
        BY <2>1, <3>1 DEF SameDirs
      <3> QED
        BY <2>1, <3>1, <3>2 DEF SameTarget, Answers
    <2>2. CASE \E d \in Dirs, n \in Names :
                 /\ op'.d = d /\ op'.n = n /\ UNCHANGED dirs
                 /\ "misread" \notin mishap' => ~Found(d, n)
      <3>1. PICK d \in Dirs, n \in Names : op'.d = d /\ op'.n = n /\ UNCHANGED dirs /\ ~Found(d, n)
        BY <2>2
      <3>2. ~Answers(d, i, name_to_83[n])
        BY <1>1, <3>1, NotFound
      <3> QED
        BY <3>1, <3>2 DEF Answers
    <2> QED
      BY <2>1, <2>2, TargetStep
  <1>3. CASE SameDirs
    <2>1. Dirs' = Dirs
      BY <1>1, <1>3, DirsStay
    <2> QED
      BY <1>2, <1>3, <2>1 DEF SameDirs, NamesApart, OneEach
  <1>4. ASSUME NEW d \in Dirs, NEW i \in Slots, NEW v \in SlotValues, dirs' = [dirs EXCEPT ![d][i] = v],
               Deletes(d, i, v) \/ (v \in Entries /\ (Rewrites(d, i, v) \/ Renames(d, i, v) \/ Fills(d, i, v)))
        PROVE  NamesApart'
    <2>1. /\ dirs'[d][i] = v
          /\ \A e \in Table, j \in Slots : e # d \/ j # i => dirs'[e][j] = dirs[e][j]
      BY ZenonT(60), <1>1, <1>4, SlotWrite
    <2>2. ASSUME NEW e \in Dirs', e \notin Dirs PROVE OneEach(e)'
      <3>1. dirs'[e] = NewDir
        BY <1>1, <1>4, <2>2, DirsAfter
      <3> QED
        BY <3>1, NewDirSlots DEF OneEach
    <2>3. ASSUME NEW e \in Dirs, e # d PROVE OneEach(e)'
      <3>1. e \in Table /\ OneEach(e)
        BY <1>1 DEF DirInv, NamesApart
      <3> QED
        BY <2>1, <2>3, <3>1 DEF OneEach
    <2>4. OneEach(d)'
      <3>1. OneEach(d) /\ d \in Table
        BY <1>1 DEF NamesApart, DirInv
      <3>2. ASSUME NEW j \in Slots, j # i, IsEntry(v), IsEntry(dirs[d][j]) PROVE v.sfn # dirs[d][j].sfn
        <4>1. CASE Deletes(d, i, v)
          BY <3>2, <4>1, SMT DEF Deletes, Deleted, IsEntry
        <4>2. CASE Rewrites(d, i, v)
          BY <3>1, <3>2, <4>2 DEF Rewrites, OneEach
        <4>3. CASE Renames(d, i, v)
          BY <3>2, <4>3 DEF Renames, Answers
        <4>4. CASE Fills(d, i, v)
          <5>1. Creating /\ d = op.d /\ v.sfn = name_to_83[op.n]
            BY <4>4 DEF Fills
          <5> QED
            BY <3>2, <5>1 DEF NewName, Answers
        <4> QED
          BY <1>4, <4>1, <4>2, <4>3, <4>4
      <3>3. \A j \in Slots : j # i => dirs'[d][j] = dirs[d][j]
        BY <2>1, <3>1
      <3> QED
        BY <2>1, <3>1, <3>2, <3>3 DEF OneEach
    <2> QED
      BY <2>2, <2>3, <2>4 DEF NamesApart
  <1> QED
    BY <1>2, <1>3, <1>4, DirectoryStep

LEMMA InitNames == Init => NamesInv
  <1> SUFFICES ASSUME Init PROVE NamesApart /\ NewName
    BY DEF NamesInv
  <1>1. \A d \in Table, i \in Slots : dirs[d][i] = End
    BY DEF Init, Blank, Slots
  <1>2. Volume
    BY InitVolume DEF VolumeInv, Clean, Init
  <1>3. Dirs \subseteq Table /\ ~IsEntry(End)
    BY <1>2, SMT DEF Volume, DirInv, End, IsEntry
  <1> QED
    BY <1>1, <1>3, IdleFrame DEF Init, NamesApart, OneEach, NewName, Creating

LEMMA NextNames == VolumeInv /\ NamesInv /\ [Next]_vars => NamesInv'
  BY MishapStays, NamesStep DEF VolumeInv, NamesInv, Clean

\* No name answers to two entries of a directory, for every set of names, whatever two long
\* names share their 8.3 name and however many pieces they take, through creations, renamings,
\* removals, failed writes and power losses: unless FAT32_FindEntryAny failed on the name.
THEOREM NamesStayApart == Spec => []NamesUnambiguous
  <1>1. Init => NamesInv
    BY InitNames
  <1>2. VolumeInv /\ NamesInv /\ [Next]_vars => NamesInv'
    BY NextNames
  <1>3. VolumeInv /\ NamesInv => NamesUnambiguous
    <2> SUFFICES ASSUME Volume, NamesApart, NEW d \in AllDirs, NEW n \in Names
                 PROVE  Cardinality(Hits(d, n)) <= 1
      BY DEF VolumeInv, NamesInv, Clean, NamesUnambiguous
    <2>1. FatInv /\ DirInv /\ d \in Dirs
      BY DirsNamed DEF Volume
    <2>2. Hits(d, n) = {<<1, i>> : i \in {j \in Slots : Answers(d, j, name_to_83[n])}}
      BY <2>1, DirSlots
    <2>3. CASE Hits(d, n) = {}
      BY <2>3, FS_EmptySet
    <2>4. CASE Hits(d, n) # {}
      <3>1. PICK i \in Slots : Answers(d, i, name_to_83[n])
        BY <2>2, <2>4
      <3>2. \A j \in Slots : Answers(d, j, name_to_83[n]) => j = i
        BY <2>1, <3>1 DEF NamesApart, OneEach, Answers
      <3>3. Hits(d, n) = {<<1, i>>}
        BY <2>2, <3>1, <3>2
      <3>4. Cardinality({<<1, i>>}) = 1
        <4>1. PICK x : x = <<1, i>>
          OBVIOUS
        <4> QED
          BY <4>1, FS_Singleton
      <3> QED
        BY <3>3, <3>4
    <2> QED
      BY <2>3, <2>4
  <1> QED
    BY <1>1, <1>2, <1>3, VolumeInvariant, PTL DEF Spec

-----------------------------------------------------------------------------
(***************************************************************************)
(* Removals.  A step that cuts one short leaves the table and the          *)
(* directories in order; a directory is empty from the check on until its  *)
(* entry is marked.                                                        *)
(***************************************************************************)
\* The steps that cut a removal short.
LEMMA TearingSteps ==
    ASSUME [Next]_vars, "torn" \notin mishap, "torn" \in mishap'
    PROVE  Trim \/ FreeClusterChain \/ MarkDeleted \/ PowerLoss
  <1>1. ASSUME NEW w, FAT32_AllocCluster(w) PROVE FALSE
    BY <1>1 DEF FAT32_AllocCluster, Noted
  <1>2. CASE Step
    <2>1. CASE Extend \/ MakeDirCluster \/ GrowDir
      BY <1>1, <2>1 DEF Extend, MakeDirCluster, GrowDir
    <2>2. CASE WriteData \/ Link \/ WriteEntry \/ FillDirCluster
      BY <2>2 DEF WriteData, Link, WriteEntry, FillDirCluster, Noted
    <2>3. CASE TrimUnread
      BY <2>3 DEF TrimUnread
    <2>4. CASE WriteSlot
      BY <2>4 DEF WriteSlot, Noted
    <2>5. CASE AttachToDir
      BY <2>5 DEF AttachToDir
    <2> QED
      BY <1>2, <2>1, <2>2, <2>3, <2>4, <2>5 DEF Step
  <1>3. CASE Command
    <2>1. ASSUME NEW d, NEW n, CreateFile(d, n) \/ CreateDir(d, n) PROVE FALSE
      BY <2>1 DEF CreateFile, CreateDir, NoteMisread
    <2>2. ASSUME NEW d, NEW n, DeleteFile(d, n) \/ RemoveDir(d, n) PROVE FALSE
      BY <2>2 DEF DeleteFile, RemoveDir, Removing
    <2>3. ASSUME NEW d, NEW n, NEW m, RenameFile(d, n, m) PROVE FALSE
      BY <2>3 DEF RenameFile, NoteMisread, Noted
    <2> QED
      BY <1>3, <2>1, <2>2, <2>3, Zenon DEF Command
  <1>4. ASSUME NEW size \in Sizes, WriteFile(size) \/ AppendFile(size) PROVE FALSE
    BY <1>1, <1>4 DEF WriteFile, AppendFile, BeginFirst
  <1>5. ASSUME NEW d, NEW n, OpenFile(d, n) PROVE FALSE
    BY <1>5 DEF OpenFile
  <1>6. CASE CloseFile \/ UNCHANGED vars
    BY <1>6 DEF CloseFile, vars
  <1> QED
    BY <1>2, <1>3, <1>4, <1>5, <1>6, Zenon DEF Next

\* Even those leave the table and the directories in order.
LEMMA TablesStay ==
    ASSUME Volume, [Next]_vars, "torn" \notin mishap
    PROVE  FatInv' /\ DirInv'
  <1>1. CASE "torn" \notin mishap'
    BY <1>1, VolumeStep DEF Volume
  <1>2. CASE "torn" \in mishap'
    <2>1. FatInv /\ DirInv /\ HeadInv /\ OpInv
      BY DEF Volume
    <2>2. ASSUME UNCHANGED <<fat, dirs>> PROVE FatInv' /\ DirInv'
      BY <2>1, <2>2 DEF FatInv, FatTypes, DirInv, Dirs
    <2>3. CASE Trim
      <3>1. UNCHANGED <<fat, dirs>>
        BY <1>2, <2>3 DEF Trim, FAT32_WriteFATEntry, Noted
      <3> QED
        BY <2>2, <3>1
    <2>4. CASE MarkDeleted
      <3>1. UNCHANGED fat
        BY <2>4 DEF MarkDeleted
      <3>2. PICK w \in Outcomes : LET p == First(Hits(op.d, op.n))
                                  IN  /\ w = "fail" => UNCHANGED dirs
                                      /\ mishap' = mishap \cup Noted(w)
                                           \cup (IF w = "fail" /\ Slot(op.d, p).start # 0 THEN {"torn"} ELSE {})
        BY <2>4 DEF MarkDeleted
      <3>3. UNCHANGED dirs
        BY <1>2, <3>2 DEF Noted
      <3> QED
        BY <2>2, <3>1, <3>3
    <2>5. CASE PowerLoss
      BY <2>2, <2>5 DEF PowerLoss, disk
    <2>6. CASE FreeClusterChain
      <3>1. op.pc = "free" /\ UNCHANGED dirs
        BY <2>6 DEF FreeClusterChain
      <3>2. PICK b : b = op.next
        OBVIOUS
      <3>3. Origin(b)
        <4>1. CASE Writing
          BY <2>1, <3>1, <3>2, <4>1 DEF OpInv, WritingInv, Loose
        <4>2. CASE Removal
          BY <3>1, <3>2, <4>2, RemovalTarget DEF Loose
        <4> QED
          BY <2>1, <3>1, <4>1, <4>2, CallOf
      <3>4. fat' = fat \/ fat' = [fat EXCEPT ![b] = FREE]
        BY <2>6, <3>2 DEF FreeClusterChain, FAT32_WriteFATEntry
      <3>5. CASE fat' = [fat EXCEPT ![b] = FREE]
        <4>1. FatInv' /\ fat'[b] = FREE /\ \A x \in Table : x # b => fat'[x] = fat[x]
          BY <2>1, <3>3, <3>5, FatFree
        <4>2. SameDirs /\ \A d \in Dirs : fat'[d] \notin Table
          BY <2>1, <3>1, <4>1, TableSize DEF SameDirs, DirInv
        <4> QED
          BY <2>1, <4>1, <4>2, DirsStay
      <3> QED
        BY <2>2, <3>1, <3>4, <3>5
    <2> QED
      BY <1>2, <2>3, <2>4, <2>5, <2>6, TearingSteps
  <1> QED
    BY <1>1, <1>2

\* DeleteFile removes a file; a directory that is being removed has no entry.
EmptyTarget ==
    Removal => \A i \in Slots : FirstAt(op.d, i, name_to_83[op.n]) =>
                  /\ op.call = "delete" <=> dirs[op.d][i].kind = "file"
                  /\ dirs[op.d][i].kind = "dir" => \A j \in Slots : ~IsEntry(dirs[dirs[op.d][i].start][j])
EmptyInv == Clean({"torn"}) => EmptyTarget

LEMMA EmptyStep ==
    ASSUME Volume, EmptyTarget, [Next]_vars
    PROVE  EmptyTarget'
  <1> SUFFICES ASSUME Removal', NEW i \in Slots, FirstAt(op.d, i, name_to_83[op.n])'
               PROVE  /\ op'.call = "delete" <=> dirs'[op'.d][i].kind = "file"
                      /\ dirs'[op'.d][i].kind = "dir" =>
                           \A j \in Slots : ~IsEntry(dirs'[dirs'[op'.d][i].start][j])
    BY DEF EmptyTarget
  <1>1. FatInv /\ DirInv /\ OpInv
    BY DEF Volume
  <1>2. CASE Removal /\ SameTarget /\ UNCHANGED dirs
    <2>1. FirstAt(op.d, i, name_to_83[op.n])
      BY <1>2 DEF SameTarget, FirstAt, Answers
    <2> QED
      BY <1>2, <2>1 DEF SameTarget, EmptyTarget
  <1>3. CASE \E d \in Dirs, n \in Names :
               /\ op'.d = d /\ op'.n = n /\ UNCHANGED dirs /\ Found(d, n)
               /\ op'.call = "delete" <=> FAT32_FindEntryAny(d, n).kind = "file"
               /\ FAT32_FindEntryAny(d, n).kind # "file" => is_dir_empty(FAT32_FindEntryAny(d, n).start)
    <2>1. PICK d \in Dirs, n \in Names :
               /\ op'.d = d /\ op'.n = n /\ UNCHANGED dirs /\ Found(d, n)
               /\ op'.call = "delete" <=> FAT32_FindEntryAny(d, n).kind = "file"
               /\ FAT32_FindEntryAny(d, n).kind # "file" => is_dir_empty(FAT32_FindEntryAny(d, n).start)
      BY <1>3
    <2>2. FirstAt(d, i, name_to_83[n])
      BY <2>1 DEF FirstAt, Answers
    <2>3. FAT32_FindEntryAny(d, n) = dirs[d][i]
      BY <1>1, <2>2, Lookup
    <2>4. ASSUME dirs[d][i].kind = "dir", NEW j \in Slots PROVE ~IsEntry(dirs[dirs[d][i].start][j])
      <3>1. d = root_cluster
        BY <1>1, <2>4 DEF DirInv
      <3>2. PICK e \in Dirs : e = dirs[d][i].start
        BY <2>4, <3>1 DEF Dirs
      <3>3. is_dir_empty(e)
        BY <2>1, <2>3, <2>4, <3>2
      <3> QED
        BY <1>1, <3>2, <3>3, EmptyDir
    <2> QED
      BY <2>1, <2>3, <2>4
  <1> QED
    BY <1>2, <1>3, TargetStep

LEMMA InitEmpty == Init => EmptyInv
  BY IdleFrame DEF Init, EmptyInv, EmptyTarget, Removal

LEMMA NextEmpty == VolumeInv /\ EmptyInv /\ [Next]_vars => EmptyInv'
  BY MishapStays, EmptyStep DEF VolumeInv, EmptyInv, Clean

-----------------------------------------------------------------------------
(***************************************************************************)
(* Nothing leaks.  Every chain there is - every origin - is the root's, an *)
(* entry's or in the hands of the call under way; and as the table has no  *)
(* cycle, every cluster in use is on the chain of an origin.               *)
(***************************************************************************)
\* What a step does to the table.
TakesOne == \E c \in Table : fat[c] = FREE /\ fat' = [fat EXCEPT ![c] = EOF]
LinksOne == \E a \in Table, b \in Table : fat[a] = EOF /\ Origin(b) /\ fat[b] = EOF /\ a # b /\ fat' = [fat EXCEPT ![a] = b]
CutsOne == \E a \in Table : Trim /\ a = op.cluster /\ fat[a] \in Table /\ fat' = [fat EXCEPT ![a] = EOF]
FreesOne == \E c \in Table : Origin(c) /\ fat' = [fat EXCEPT ![c] = FREE]

LEMMA TakesAtMostOne ==
    ASSUME NEW w, FAT32_AllocCluster(w)
    PROVE  UNCHANGED fat \/ TakesOne
  <1>1. CASE NoneFree \/ w = "fail"
    BY <1>1 DEF FAT32_AllocCluster, FAT32_WriteFATEntry
  <1>2. CASE ~NoneFree /\ w # "fail"
    <2>1. Picked \in Table /\ fat[Picked] = FREE
      BY <1>2, PickedIsFree
    <2>2. fat' = [fat EXCEPT ![Picked] = EOF]
      BY <1>2, <2>1 DEF FAT32_AllocCluster, FAT32_WriteFATEntry
    <2> QED
      BY <2>1, <2>2 DEF TakesOne
  <1> QED
    BY <1>1, <1>2

LEMMA TableStep ==
    ASSUME Volume, [Next]_vars
    PROVE  UNCHANGED fat \/ TakesOne \/ LinksOne \/ CutsOne \/ FreesOne
  <1> USE DEF disk
  <1>1. FatInv /\ DirInv /\ HeadInv /\ OpenInv /\ OpInv
    BY DEF Volume
  <1>2. CASE Step
    <2>1. CASE Extend \/ MakeDirCluster \/ GrowDir
      BY SMTT(30), <2>1, TakesAtMostOne DEF Extend, MakeDirCluster, GrowDir
    <2>2. CASE WriteData \/ TrimUnread \/ WriteEntry \/ FillDirCluster \/ WriteSlot \/ MarkDeleted
      BY <2>2 DEF WriteData, TrimUnread, WriteEntry, FillDirCluster, WriteSlot, MarkDeleted
    <2>3. CASE Link
      <3>1. op.pc = "link" /\ Writing
        BY <1>1, <2>3, CallOf DEF Link
      <3>2. PICK a \in Table, b \in Table : a = op.cluster /\ b = op.next /\ fat[a] = EOF /\ Unlinked(b) /\ a # b
        BY <1>1, <3>1, LooseNoDir DEF OpInv, WritingInv, Held, Unlinked
      <3>3. Origin(b) /\ fat[b] = EOF
        BY <3>2 DEF Unlinked, Loose
      <3>4. fat' = fat \/ fat' = [fat EXCEPT ![a] = b]
        BY <2>3, <3>2 DEF Link, FAT32_WriteFATEntry
      <3> QED
        BY <3>2, <3>3, <3>4 DEF LinksOne
    <2>4. CASE Trim
      <3>1. op.pc = "trim" /\ Writing
        BY <1>1, <2>4, CallOf DEF Trim
      <3>2. CASE ~Surplus
        BY <2>4, <3>2 DEF Trim
      <3>3. CASE Surplus
        <4>1. op.cluster \in Table /\ fat[op.cluster] \in Table
          <5>1. file.entry.start # 0
            BY <1>1, <3>1, <3>3, NoSurplus
          <5>2. Held(op.cluster)
            BY <1>1, <3>1, <5>1 DEF OpInv, WritingInv
          <5>3. op.cluster \in Table /\ fat[op.cluster] # FREE /\ fat[op.cluster] < EOF
            BY <3>3, <5>2 DEF Held, Surplus
          <5>4. fat[op.cluster] \in {FREE, EOF} \cup Table
            BY <1>1, <5>3 DEF FatInv, FatTypes
          <5>5. ~(EOF < EOF)
            BY TableSize
          <5> QED
            BY <5>3, <5>4, <5>5
        <4>2. fat' = fat \/ fat' = [fat EXCEPT ![op.cluster] = EOF]
          BY <2>4, <3>3 DEF Trim, FAT32_WriteFATEntry, EndMark
        <4> QED
          BY <2>4, <4>1, <4>2 DEF CutsOne
      <3> QED
        BY <3>2, <3>3
    <2>5. CASE FreeClusterChain
      <3>1. op.pc = "free"
        BY <2>5 DEF FreeClusterChain
      <3>2. Origin(op.next)
        <4>1. CASE Writing
          BY <1>1, <3>1, <4>1 DEF OpInv, WritingInv, Loose
        <4>2. CASE Removal
          BY <3>1, <4>2, RemovalTarget DEF Loose
        <4> QED
          BY <1>1, <3>1, <4>1, <4>2, CallOf
      <3>3. fat' = fat \/ fat' = [fat EXCEPT ![op.next] = FREE]
        BY <2>5 DEF FreeClusterChain, FAT32_WriteFATEntry
      <3> QED
        BY <3>2, <3>3 DEF FreesOne, Origin
    <2>6. CASE AttachToDir
      <3>1. EOF \notin Table
        BY TableSize
      <3> QED
        BY <2>6, <3>1 DEF AttachToDir, FAT32_WriteFATEntry, LinkedFrom
    <2> QED
      BY <1>2, <2>1, <2>2, <2>3, <2>4, <2>5, <2>6 DEF Step
  <1>3. CASE Command
    <2>1. ASSUME NEW d, NEW n, CreateFile(d, n) \/ CreateDir(d, n) \/ DeleteFile(d, n) \/ RemoveDir(d, n) PROVE UNCHANGED fat
      BY <2>1 DEF CreateFile, CreateDir, DeleteFile, RemoveDir, Removing
    <2>2. ASSUME NEW d, NEW n, NEW m, RenameFile(d, n, m) PROVE UNCHANGED fat
      BY <2>2 DEF RenameFile
    <2> QED
      BY <1>3, <2>1, <2>2, Zenon DEF Command
  <1>4. ASSUME NEW size \in Sizes, WriteFile(size) \/ AppendFile(size) PROVE UNCHANGED fat \/ TakesOne
    BY <1>4, TakesAtMostOne DEF WriteFile, AppendFile, BeginFirst
  <1>5. ASSUME NEW d, NEW n, OpenFile(d, n) PROVE UNCHANGED fat
    BY <1>5 DEF OpenFile
  <1>6. CASE CloseFile \/ PowerLoss \/ UNCHANGED vars
    BY <1>6 DEF CloseFile, PowerLoss, vars
  <1> QED
    BY <1>2, <1>3, <1>4, <1>5, <1>6, Zenon DEF Next

\* The table has no cycle: along a chain some rank grows.
Ranks == {r \in [Table -> Nat] : \A a \in Table : fat[a] \in Table => r[a] < r[fat[a]]}
Ranked == Ranks # {}

LEMMA RankStep ==
    ASSUME Volume, Ranked, [Next]_vars
    PROVE  Ranked'
  <1> USE TableSize
  <1>1. fat \in [Table -> {FREE, EOF} \cup Table]
    BY DEF Volume, FatInv, FatTypes
  <1>2. PICK r \in [Table -> Nat] : \A a \in Table : fat[a] \in Table => r[a] < r[fat[a]]
    BY DEF Ranked, Ranks
  <1>3. ASSUME \A a \in Table : fat'[a] \in Table => fat'[a] = fat[a] PROVE Ranked'
    <2>1. r \in Ranks'
      BY <1>2, <1>3 DEF Ranks
    <2> QED
      BY <2>1 DEF Ranked
  <1>4. CASE UNCHANGED fat
    BY <1>3, <1>4
  <1>5. CASE TakesOne \/ CutsOne \/ FreesOne
    BY <1>1, <1>3, <1>5 DEF TakesOne, CutsOne, FreesOne
  <1>6. CASE LinksOne
    <2>1. PICK a \in Table, b \in Table :
             fat[a] = EOF /\ Origin(b) /\ fat[b] = EOF /\ a # b /\ fat' = [fat EXCEPT ![a] = b]
      BY <1>6 DEF LinksOne
    <2>2. \A x \in Table : fat'[x] = IF x = a THEN b ELSE fat[x]
      BY <1>1, <2>1
    <2> DEFINE q == [x \in Table |-> IF x = b THEN r[a] + 1 ELSE r[x]]
    <2>3. q \in [Table -> Nat]
      BY <1>2
    <2>4. ASSUME NEW x \in Table, fat'[x] \in Table PROVE q[x] < q[fat'[x]]
      <3>1. CASE x = a
        BY <1>2, <2>1, <2>2, <3>1
      <3>2. CASE x # a
        <4>1. fat'[x] = fat[x] /\ fat[x] # b /\ x # b
          BY <2>1, <2>2, <2>4, <3>2 DEF Origin
        <4> QED
          BY <1>2, <2>4, <4>1
      <3> QED
        BY <3>1, <3>2
    <2>5. q \in Ranks'
      <3> HIDE DEF q
      <3> QED
        BY <2>3, <2>4 DEF Ranks
    <2> QED
      BY <2>5 DEF Ranked
  <1> QED
    BY <1>4, <1>5, <1>6, TableStep

\* Every cluster in use is on the chain of an origin.
LEMMA OnSomeChain ==
    ASSUME FatInv, Ranked, NEW c \in Table, fat[c] # FREE
    PROVE  \E s : Origin(s) /\ c \in Clus(Chain(s))
  <1> DEFINE On(x) == \E s : Origin(s) /\ x \in Clus(Chain(s))
             Lost == {x \in Table : fat[x] # FREE /\ ~On(x)}
  <1> SUFFICES ASSUME Lost # {} PROVE FALSE
    OBVIOUS
  <1>1. PICK r \in [Table -> Nat] : \A a \in Table : fat[a] \in Table => r[a] < r[fat[a]]
    BY DEF Ranked, Ranks
  <1>2. PICK x \in Lost : \A y \in Lost : r[x] <= r[y]
    <2> DEFINE R == {r[y] : y \in Lost}
    <2>1. R \in SUBSET Nat /\ R # {}
      BY <1>1
    <2>2. PICK m \in R : \A k \in R : m <= k
      <3> HIDE DEF R
      <3> QED
        BY <2>1, Smallest
    <2>3. PICK x \in Lost : m = r[x]
      BY <2>2
    <2> QED
      BY <2>2, <2>3
  <1>3. x \in Table /\ fat[x] # FREE /\ ~On(x)
    OBVIOUS
  <1>4. CASE Origin(x)
    <2> DEFINE ch == Chain(x)
    <2>1. ch \in Seq(Table) /\ Len(ch) >= 1 /\ ch[1] = x
      BY <1>4, OriginChain
    <2>2. x \in Clus(ch)
      <3> HIDE DEF ch
      <3> QED
        BY <2>1 DEF Clus
    <2> QED
      BY <1>3, <1>4, <2>2
  <1>5. CASE ~Origin(x)
    <2>1. PICK a \in Table : fat[a] = x
      BY <1>3, <1>5 DEF Origin
    <2>2. fat[a] # FREE /\ r[a] < r[x]
      BY <1>1, <1>3, <2>1, TableSize
    <2>3. a \notin Lost
      BY <1>1, <1>2, <1>3, <2>1, <2>2
    <2>4. PICK s : Origin(s) /\ a \in Clus(Chain(s))
      BY <2>2, <2>3
    <2> DEFINE ch == Chain(s)
    <2>5. /\ ch \in Seq(Table) /\ Len(ch) >= 1
          /\ \A k \in 2..Len(ch) : ch[k] = fat[ch[k - 1]]
          /\ fat[ch[Len(ch)]] = EOF
      BY <2>4, OriginChain
    <2>6. x \in Clus(ch)
      <3> HIDE DEF ch
      <3>1. PICK k \in 1..Len(ch) : ch[k] = a
        BY <2>4 DEF Clus, ch
      <3>2. k # Len(ch)
        BY <1>3, <2>1, <2>5, <3>1, TableSize
      <3>3. k + 1 \in 2..Len(ch) /\ k + 1 - 1 = k
        BY <2>5, <3>1, <3>2
      <3>4. ch[k + 1] = x
        BY <2>1, <2>5, <3>1, <3>3
      <3>5. k + 1 \in 1..Len(ch)
        BY <3>3
      <3> QED
        BY <3>4, <3>5 DEF Clus
    <2> QED
      BY <1>3, <2>4, <2>6
  <1> QED
    BY <1>4, <1>5

-----------------------------------------------------------------------------
\* The chains a call holds and has not linked to anything yet.
InHand(c) ==
    \/ Writing /\ c = file.entry.start
    \/ op.pc \in {"link", "free", "attach"} /\ c = op.next
    \/ op.call = "mkdir" /\ op.pc # "mkdir" /\ c = op.cluster
Referred(c) == \E d \in Dirs, i \in Slots : Refers(d, i, c)
Tight == \A c : Origin(c) => c = root_cluster \/ Referred(c) \/ InHand(c)

\* Where the origins of the new table come from.
LEMMA OriginsBack ==
    ASSUME FatTypes, NEW x, Origin(x)'
    PROVE  /\ UNCHANGED fat => Origin(x)
           /\ \A c \in Table : fat[c] = FREE /\ fat' = [fat EXCEPT ![c] = EOF] => Origin(x) \/ x = c
           /\ \A a, b \in Table : fat[a] = EOF /\ a # b /\ fat' = [fat EXCEPT ![a] = b] => Origin(x) /\ x # b
           /\ \A a \in Table : fat[a] \in Table /\ fat' = [fat EXCEPT ![a] = EOF] => Origin(x) \/ x = fat[a]
           /\ \A c \in Table : fat' = [fat EXCEPT ![c] = FREE] => x # c /\ (Origin(x) \/ x = fat[c])
  <1> USE TableSize
  <1>1. x \in Table /\ fat'[x] # FREE /\ \A a \in Table : fat'[a] # x
    BY DEF Origin
  <1>2. fat \in [Table -> {FREE, EOF} \cup Table]
    BY DEF FatTypes
  <1>3. UNCHANGED fat => Origin(x)
    BY <1>1 DEF Origin
  <1>4. ASSUME NEW c \in Table, fat[c] = FREE, fat' = [fat EXCEPT ![c] = EOF] PROVE Origin(x) \/ x = c
    BY <1>1, <1>2, <1>4 DEF Origin
  <1>5. ASSUME NEW a \in Table, NEW b \in Table, fat[a] = EOF, a # b, fat' = [fat EXCEPT ![a] = b] PROVE Origin(x) /\ x # b
    BY <1>1, <1>2, <1>5 DEF Origin
  <1>6. ASSUME NEW a \in Table, fat[a] \in Table, fat' = [fat EXCEPT ![a] = EOF] PROVE Origin(x) \/ x = fat[a]
    BY <1>1, <1>2, <1>6 DEF Origin
  <1>7. ASSUME NEW c \in Table, fat' = [fat EXCEPT ![c] = FREE] PROVE x # c /\ (Origin(x) \/ x = fat[c])
    BY <1>1, <1>2, <1>7 DEF Origin
  <1> QED
    BY <1>3, <1>4, <1>5, <1>6, <1>7

\* A chain that an entry names stays named, unless it is the one being freed.
LEMMA ReferredStays ==
    ASSUME Volume, EmptyTarget, [Next]_vars, NEW c \in Table, fat'[c] # FREE, Referred(c)
    PROVE  Referred(c)'
  <1>1. FatInv /\ DirInv /\ OpInv
    BY DEF Volume
  <1>2. PICK d \in Dirs, i \in Slots : IsEntry(dirs[d][i]) /\ dirs[d][i].start = c
    BY DEF Referred, Refers
  <1>3. c # 0 /\ d \in Table
    BY <1>1, TableSize DEF FREE, DirInv
  <1>4. CASE SameDirs
    <2>1. Dirs' = Dirs /\ dirs'[d] = dirs[d]
      BY <1>1, <1>4, DirsStay DEF SameDirs
    <2> QED
      BY <1>2, <2>1 DEF Referred, Refers
  <1>5. ASSUME NEW e \in Dirs, NEW k \in Slots, NEW v \in SlotValues, dirs' = [dirs EXCEPT ![e][k] = v],
               Deletes(e, k, v) \/ (v \in Entries /\ (Rewrites(e, k, v) \/ Renames(e, k, v) \/ Fills(e, k, v)))
        PROVE  Referred(c)'
    <2>1. /\ dirs'[e][k] = v
          /\ \A f \in Table, j \in Slots : f # e \/ j # k => dirs'[f][j] = dirs[f][j]
      <3>1. e \in Table /\ dirs \in [Table -> [Slots -> SlotValues]]
        BY <1>1 DEF DirInv
      <3>2. dirs' = [dirs EXCEPT ![e] = [dirs[e] EXCEPT ![k] = v]]
        BY <1>5
      <3> QED
        BY <3>1, <3>2
    <2>2. CASE d = e /\ i = k
      <3>1. ~Deletes(e, k, v)
        <4> SUFFICES ASSUME Deletes(e, k, v) PROVE FALSE
          OBVIOUS
        <4>1. Removal /\ op.pc = "mark" /\ e = op.d /\ First(Hits(op.d, op.n)) = <<1, k>> /\ UNCHANGED fat
          BY DEF Deletes
        <4>2. PICK j \in Slots : /\ First(Hits(op.d, op.n)) = <<1, j>>
                                 /\ op.pc = "mark" /\ dirs[op.d][j].start # 0 => fat[dirs[op.d][j].start] = FREE
          BY <4>1, RemovalTarget
        <4>3. j = k
          BY <4>1, <4>2
        <4> QED
          BY <1>2, <1>3, <2>2, <4>1, <4>2, <4>3
      <3>2. ~Fills(e, k, v)
        <4>1. dirs[d][i] \in SlotValues
          BY <1>1, <1>3 DEF DirInv
        <4> QED
          BY <1>2, <2>2, <4>1, SlotKinds DEF Fills
      <3>3. d \in Dirs'
        BY <1>1, <1>5, <3>1, DirsAfter
      <3>4. v \in Entries /\ v.start = c
        BY <1>2, <1>3, <1>5, <2>2, <3>1, <3>2 DEF Rewrites, Renames
      <3>5. IsEntry(v)
        BY <3>4, SlotKinds
      <3> QED
        BY <2>1, <2>2, <3>3, <3>4, <3>5 DEF Referred, Refers
    <2>3. CASE d # e \/ i # k
      <3>1. dirs'[d][i] = dirs[d][i]
        BY <1>3, <2>1, <2>3
      <3>2. d \in Dirs'
        <4> SUFFICES ASSUME d \notin Dirs' PROVE FALSE
          OBVIOUS
        <4>1. Deletes(e, k, v) /\ dirs[e][k].kind = "dir" /\ d = dirs[e][k].start
          BY ZenonT(60), <1>1, <1>5, DirsAfter
        <4>2. Removal /\ e = op.d /\ FirstAt(op.d, k, name_to_83[op.n])
          BY <4>1 DEF Deletes
        <4> QED
          BY <1>2, <4>1, <4>2 DEF EmptyTarget
      <3> QED
        BY <1>2, <3>1, <3>2 DEF Referred, Refers
    <2> QED
      BY <2>2, <2>3
  <1> QED
    BY <1>4, <1>5, DirectoryStep

\* FAT32_AllocCluster when nothing goes wrong.
Calm == Clean({"error", "loss", "full", "grow"})
LEMMA CalmAllocation ==
    ASSUME FatTypes, NEW w, FAT32_AllocCluster(w), Calm', NEW x, Origin(x)'
    PROVE  Allocated(w) /\ (Origin(x) \/ x = Picked)
  <1>1. w = "ok" /\ ~NoneFree
    BY DEF FAT32_AllocCluster, Calm, Clean, Noted
  <1>2. Picked \in Table /\ fat[Picked] = FREE
    BY <1>1, PickedIsFree
  <1>3. fat' = [fat EXCEPT ![Picked] = EOF]
    BY <1>1, <1>2 DEF FAT32_AllocCluster, FAT32_WriteFATEntry
  <1>4. PICK c \in Table : c = Picked
    BY <1>2
  <1>5. Origin(x) \/ x = c
    BY <1>2, <1>3, <1>4, OriginsBack
  <1> QED
    BY <1>1, <1>4, <1>5 DEF Allocated

\* An origin of the new table is in hand, named by an entry, or was there before and in nobody's hand.
Settled(x) == InHand(x)' \/ (Origin(x) /\ ~InHand(x)) \/ Referred(x)'

LEMMA OriginsWriting ==
    ASSUME Volume, Writing, Calm', NEW x, Origin(x)',
           WriteData \/ Extend \/ Link \/ Trim \/ TrimUnread \/ (FreeClusterChain /\ ~Removal)
    PROVE  Settled(x)
  <1> USE TableSize DEF disk
  <1>1. FatInv /\ OpInv /\ op \in Frame /\ FatTypes
    BY DEF Volume, FatInv, OpInv
  <1>2. op.call \notin {"mkdir", "none"} /\ ~Removal
    BY <1>1, CallOf DEF Writing
  <1>3. UNCHANGED file
    BY <1>1 DEF WriteData, Extend, Link, Trim, TrimUnread, FreeClusterChain, NoCluster, Return
  <1>4. ASSUME op'.call = op.call, x = file.entry.start PROVE InHand(x)'
    BY <1>3, <1>4 DEF InHand, Writing
  <1>5. ASSUME op'.call = op.call, Origin(x), op.pc \notin {"link", "free", "attach"} PROVE Settled(x)
    BY <1>2, <1>4, <1>5 DEF Settled, InHand
  <1>6. CASE WriteData
    <2>1. op.pc = "data" /\ UNCHANGED fat
      BY <1>6 DEF WriteData
    <2>2. op' = WriteRound
      BY <1>6 DEF WriteData, Calm, Clean, Noted
    <2>3. op'.call = op.call
      BY <1>1, <2>2 DEF WriteRound, Frame
    <2> QED
      BY <1>1, <1>5, <2>1, <2>3, OriginsBack
  <1>7. CASE Extend
    <2>1. PICK w : /\ FAT32_AllocCluster(w)
                   /\ IF Allocated(w) THEN op' = [op EXCEPT !.pc = "link", !.next = Picked] ELSE NoCluster
      BY <1>7 DEF Extend
    <2>2. Allocated(w) /\ (Origin(x) \/ x = Picked)
      BY <1>1, <2>1, CalmAllocation
    <2>3. op' = [op EXCEPT !.pc = "link", !.next = Picked] /\ op.pc = "extend"
      BY <1>7, <2>1, <2>2 DEF Extend
    <2>4. op'.call = op.call /\ op'.pc = "link" /\ op'.next = Picked
      BY <1>1, <2>3 DEF Frame
    <2> QED
      BY <1>5, <2>2, <2>3, <2>4 DEF Settled, InHand
  <1>8. CASE Link
    <2>1. PICK a \in Table, b \in Table : a = op.cluster /\ b = op.next /\ fat[a] = EOF /\ a # b
      <3>1. op.pc = "link"
        BY <1>8 DEF Link
      <3> QED
        BY <1>1, <3>1, LooseNoDir DEF OpInv, WritingInv, Held, Unlinked
    <2>2. /\ fat' = [fat EXCEPT ![a] = b]
          /\ op' = [op EXCEPT !.pc = "data", !.cluster = op.next, !.next = 0, !.offset = 0]
      BY <1>8, <2>1 DEF Link, FAT32_WriteFATEntry, Calm, Clean, Noted
    <2>3. op'.call = op.call
      BY <1>1, <2>2 DEF Frame
    <2>4. Origin(x) /\ x # b
      BY <1>1, <2>1, <2>2, OriginsBack
    <2> QED
      BY <1>2, <1>4, <2>1, <2>3, <2>4 DEF Settled, InHand
  <1>9. CASE Trim
    <2>1. op.pc = "trim"
      BY <1>9 DEF Trim
    <2>2. CASE ~Surplus
      <3>1. op' = [op EXCEPT !.pc = "entry"] /\ UNCHANGED fat
        BY <1>9, <2>2 DEF Trim
      <3>2. op'.call = op.call
        BY <1>1, <3>1 DEF Frame
      <3> QED
        BY <1>1, <1>5, <2>1, <3>1, <3>2, OriginsBack
    <2>3. CASE Surplus
      <3>1. PICK a \in Table : a = op.cluster /\ fat[a] \in Table
        <4>1. file.entry.start # 0
          BY <2>1, <2>3, NoSurplus DEF Volume
        <4>2. Held(op.cluster)
          BY <1>1, <2>1, <4>1 DEF OpInv, WritingInv
        <4>3. op.cluster \in Table /\ fat[op.cluster] # FREE /\ fat[op.cluster] < EOF
          BY <2>3, <4>2 DEF Held, Surplus
        <4>4. fat[op.cluster] \in {FREE, EOF} \cup Table
          BY <1>1, <4>3 DEF FatTypes
        <4>5. ~(EOF < EOF)
          OBVIOUS
        <4> QED
          BY <4>3, <4>4, <4>5
      <3>2. /\ fat' = [fat EXCEPT ![a] = EOF]
            /\ op' = [op EXCEPT !.pc = "free", !.next = fat[op.cluster]]
        <4>1. PICK w \in Outcomes : /\ fat' = FAT32_WriteFATEntry(fat, op.cluster, EndMark, w)
                                    /\ op' = [op EXCEPT !.pc = "free", !.next = fat[op.cluster]]
                                    /\ mishap' = mishap \cup Noted(w)
                                                  \cup (IF w = "fail" THEN {"torn"} ELSE {})
                                                  \cup (IF file.entry.size > Kept THEN {"short"} ELSE {})
          BY <1>9, <2>3 DEF Trim
        <4>2. w = "ok"
          BY <4>1 DEF Calm, Clean, Noted
        <4> QED
          BY <3>1, <4>1, <4>2 DEF FAT32_WriteFATEntry, EndMark
      <3>3. op'.call = op.call /\ op'.pc = "free" /\ op'.next = fat[a]
        BY <1>1, <3>1, <3>2 DEF Frame
      <3>4. Origin(x) \/ x = fat[a]
        BY <1>1, <3>1, <3>2, OriginsBack
      <3> QED
        BY <1>5, <2>1, <3>3, <3>4 DEF Settled, InHand
    <2> QED
      BY <2>2, <2>3
  <1>10. CASE TrimUnread
    BY <1>10 DEF TrimUnread, Calm, Clean
  <1>11. CASE FreeClusterChain
    <2>1. PICK b \in Table : b = op.next /\ Origin(b)
      <3>1. op.pc = "free"
        BY <1>11 DEF FreeClusterChain
      <3> QED
        BY <1>1, <3>1 DEF OpInv, WritingInv, Loose, Origin
    <2>2. /\ fat' = [fat EXCEPT ![b] = FREE]
          /\ op' = IF ChainEnds(fat[b]) THEN [op EXCEPT !.pc = After, !.next = 0] ELSE [op EXCEPT !.next = fat[b]]
      BY <1>11, <2>1 DEF FreeClusterChain, FAT32_WriteFATEntry, NextToFree, Calm, Clean
    <2>3. op'.call = op.call /\ (~ChainEnds(fat[b]) => op'.next = fat[b] /\ op'.pc = op.pc)
      BY <1>1, <2>2 DEF Frame
    <2>4. x # b /\ (Origin(x) \/ x = fat[b])
      BY <1>1, <2>1, <2>2, OriginsBack
    <2>5. CASE Origin(x)
      BY <1>2, <1>4, <2>1, <2>3, <2>4, <2>5 DEF Settled, InHand
    <2>6. CASE x = fat[b]
      <3>1. x \in Table
        BY DEF Origin
      <3>2. ~ChainEnds(fat[b])
        <4>1. x < EOF /\ x >= 2 /\ x \in Nat /\ EOF \in Nat
          BY <3>1
        <4> QED
          BY <2>6, <4>1 DEF ChainEnds
      <3> QED
        BY <1>11, <2>3, <2>6, <3>2 DEF Settled, InHand, FreeClusterChain
    <2> QED
      BY <2>4, <2>5, <2>6
  <1> QED
    BY <1>6, <1>7, <1>8, <1>9, <1>10, <1>11

\* A slot that was written with an entry names its chain.
LEMMA NowReferred ==
    ASSUME DirInv, NEW d \in Dirs, NEW i \in Slots, NEW v \in Entries, dirs' = [dirs EXCEPT ![d][i] = v], d \in Dirs',
           NEW x, x = v.start
    PROVE  Referred(x)'
  <1>1. d \in Table /\ dirs \in [Table -> [Slots -> SlotValues]]
    BY DEF DirInv
  <1>2. dirs' = [dirs EXCEPT ![d] = [dirs[d] EXCEPT ![i] = v]]
    OBVIOUS
  <1>3. dirs'[d][i] = v
    BY <1>1, <1>2
  <1>4. IsEntry(v)
    BY DEF Entries, IsEntry
  <1> QED
    BY <1>3, <1>4 DEF Referred, Refers

LEMMA OriginsEntry ==
    ASSUME Volume, WriteEntry, Calm', NEW x, Origin(x)'
    PROVE  Settled(x)
  <1>1. FatInv /\ DirInv /\ OpInv /\ FatTypes
    BY DEF Volume, FatInv
  <1>2. op.pc = "entry" /\ Writing /\ UNCHANGED fat
    BY <1>1, CallOf DEF WriteEntry
  <1>3. Origin(x)
    BY <1>1, <1>2, OriginsBack
  <1>4. PICK d \in Dirs, i \in Slots, v \in Entries :
             /\ v.start = file.entry.start /\ v.kind = "file" /\ IsEntry(dirs[d][i]) /\ dirs[d][i].kind = v.kind
             /\ dirs[d][i].sfn = v.sfn /\ dirs[d][i].start \in {0, v.start}
             /\ (dirs' = dirs /\ "error" \in mishap') \/ dirs' = [dirs EXCEPT ![d][i] = v]
    BY EntryWritten
  <1>5. dirs' = [dirs EXCEPT ![d][i] = v]
    BY <1>4 DEF Calm, Clean
  <1>6. CASE x = file.entry.start
    <2>1. d \in Dirs'
      <3>1. d \in Table /\ dirs \in [Table -> [Slots -> SlotValues]] /\ root_cluster \in Table
        BY <1>1, TableSize DEF DirInv
      <3>2. dirs' = [dirs EXCEPT ![d] = [dirs[d] EXCEPT ![i] = v]]
        BY <1>5
      <3>3. \A e \in Table, j \in Slots : (e # d \/ j # i) => dirs'[e][j] = dirs[e][j]
        BY <3>1, <3>2
      <3> QED
        BY <1>4, <3>1, <3>3 DEF Dirs
    <2> QED
      BY <1>1, <1>4, <1>5, <1>6, <2>1, NowReferred DEF Settled
  <1>7. CASE x # file.entry.start
    <2>1. op.call # "mkdir"
      BY <1>2 DEF Writing
    <2> QED
      BY <1>2, <1>3, <1>7, <2>1 DEF Settled, InHand
  <1> QED
    BY <1>6, <1>7

LEMMA OriginsCreating ==
    ASSUME Volume, Calm', NEW x, Origin(x)',
           MakeDirCluster \/ FillDirCluster \/ WriteSlot \/ GrowDir \/ AttachToDir
    PROVE  Settled(x)
  <1> USE TableSize DEF disk
  <1>1. FatInv /\ DirInv /\ OpInv /\ op \in Frame /\ FatTypes
    BY DEF Volume, FatInv, OpInv
  <1>2. Creating /\ ~Writing
    BY <1>1, CallOf DEF MakeDirCluster, FillDirCluster, WriteSlot, GrowDir, AttachToDir
  <1>3. ASSUME Origin(x), op'.call = op.call, op'.cluster = op.cluster, op.pc \in {"fill", "slot", "grow"}, op'.pc # "mkdir"
        PROVE  Settled(x)
    BY <1>2, <1>3 DEF Settled, InHand
  <1>4. CASE MakeDirCluster
    <2>1. PICK w : /\ FAT32_AllocCluster(w)
                   /\ IF Allocated(w) THEN op' = [op EXCEPT !.pc = "fill", !.cluster = Picked] ELSE NoCluster
      BY <1>4 DEF MakeDirCluster
    <2>2. Allocated(w) /\ (Origin(x) \/ x = Picked)
      BY <1>1, <2>1, CalmAllocation
    <2>3. op' = [op EXCEPT !.pc = "fill", !.cluster = Picked] /\ op.pc = "mkdir"
      BY <1>4, <2>1, <2>2 DEF MakeDirCluster
    <2>4. op'.call = op.call /\ op'.pc = "fill" /\ op'.cluster = Picked /\ op.call = "mkdir"
      BY <1>1, <1>2, <2>3 DEF Frame, OpInv, CreatingInv, Creating
    <2> QED
      BY <1>2, <2>2, <2>3, <2>4 DEF Settled, InHand
  <1>5. CASE FillDirCluster
    <2>1. op' = [op EXCEPT !.pc = "slot"] /\ op.pc = "fill" /\ UNCHANGED fat
      BY <1>5 DEF FillDirCluster, Calm, Clean, Noted
    <2>2. op'.call = op.call /\ op'.pc = "slot" /\ op'.cluster = op.cluster
      BY <1>1, <2>1 DEF Frame
    <2> QED
      BY <1>1, <1>3, <2>1, <2>2, OriginsBack
  <1>6. CASE WriteSlot
    <2>1. op.pc = "slot" /\ UNCHANGED fat
      BY <1>6 DEF WriteSlot
    <2>2. Origin(x)
      BY <1>1, <2>1, OriginsBack
    <2>3. CASE FreePlaces(op.d) = {}
      <3>1. op' = [op EXCEPT !.pc = "grow"]
        BY <1>6, <2>3 DEF WriteSlot
      <3>2. op'.call = op.call /\ op'.pc = "grow" /\ op'.cluster = op.cluster
        BY <1>1, <3>1 DEF Frame
      <3> QED
        BY <1>3, <2>1, <2>2, <3>2
    <2>4. CASE FreePlaces(op.d) # {}
      <3>1. PICK d \in Dirs, i \in Slots, v \in Entries :
               /\ Usable(dirs[d][i]) /\ v.start = op.cluster
               /\ (dirs' = dirs /\ "error" \in mishap') \/ dirs' = [dirs EXCEPT ![d][i] = v]
        BY <1>6, <2>4, SlotWritten
      <3>2. dirs' = [dirs EXCEPT ![d][i] = v]
        BY <3>1 DEF Calm, Clean
      <3>3. CASE x = op.cluster
        <4>1. d \in Dirs'
          <5>1. d \in Table /\ dirs \in [Table -> [Slots -> SlotValues]] /\ root_cluster \in Table
            BY <1>1 DEF DirInv
          <5>2. dirs' = [dirs EXCEPT ![d] = [dirs[d] EXCEPT ![i] = v]]
            BY <3>2
          <5>3. \A e \in Table, j \in Slots : (e # d \/ j # i) => dirs'[e][j] = dirs[e][j]
            BY <5>1, <5>2
          <5>4. dirs[d][i].kind # "dir"
            BY <3>1 DEF Usable, End, Deleted
          <5> QED
            BY <5>1, <5>3, <5>4 DEF Dirs
        <4> QED
          BY <1>1, <3>1, <3>2, <3>3, <4>1, NowReferred DEF Settled
      <3>4. CASE x # op.cluster
        BY <1>2, <2>1, <2>2, <3>4 DEF Settled, InHand
      <3> QED
        BY <3>3, <3>4
    <2> QED
      BY <2>3, <2>4
  <1>7. CASE GrowDir
    <2>1. PICK w : /\ FAT32_AllocCluster(w)
                   /\ IF Allocated(w) THEN op' = [op EXCEPT !.pc = "attach", !.next = Picked] ELSE NoCluster
      BY <1>7 DEF GrowDir
    <2>2. Allocated(w) /\ (Origin(x) \/ x = Picked)
      BY <1>1, <2>1, CalmAllocation
    <2>3. op' = [op EXCEPT !.pc = "attach", !.next = Picked] /\ op.pc = "grow"
      BY <1>7, <2>1, <2>2 DEF GrowDir
    <2>4. op'.call = op.call /\ op'.pc = "attach" /\ op'.next = Picked /\ op'.cluster = op.cluster
      BY <1>1, <2>3 DEF Frame
    <2>5. CASE x = Picked
      BY <2>4, <2>5 DEF Settled, InHand
    <2> QED
      BY <1>3, <2>2, <2>3, <2>4, <2>5
  <1>8. CASE AttachToDir
    BY <1>8 DEF AttachToDir, Calm, Clean
  <1> QED
    BY <1>4, <1>5, <1>6, <1>7, <1>8

LEMMA OriginsRemoving ==
    ASSUME Volume, Removal, Calm', NEW x, Origin(x)', FreeClusterChain \/ MarkDeleted
    PROVE  Settled(x)
  <1> USE TableSize DEF disk
  <1>1. FatInv /\ DirInv /\ OpInv /\ op \in Frame /\ FatTypes
    BY DEF Volume, FatInv, OpInv
  <1>2. ~Writing /\ op.call # "mkdir"
    BY DEF Removal, Writing
  <1>3. CASE MarkDeleted
    <2>1. Origin(x) /\ op.pc = "mark"
      BY <1>1, <1>3, OriginsBack DEF MarkDeleted
    <2> QED
      BY SMTT(30), <1>2, <2>1 DEF Settled, InHand
  <1>4. CASE FreeClusterChain
    <2>1. PICK b \in Table : b = op.next /\ Origin(b)
      <3>1. op.pc = "free"
        BY <1>4 DEF FreeClusterChain
      <3> QED
        BY <3>1, RemovalTarget DEF Loose, Origin
    <2>2. /\ fat' = [fat EXCEPT ![b] = FREE]
          /\ op' = IF ChainEnds(fat[b]) THEN [op EXCEPT !.pc = After, !.next = 0] ELSE [op EXCEPT !.next = fat[b]]
      BY <1>4, <2>1 DEF FreeClusterChain, FAT32_WriteFATEntry, NextToFree, Calm, Clean
    <2>3. ~ChainEnds(fat[b]) => op'.next = fat[b] /\ op'.pc = op.pc
      BY <1>1, <2>2 DEF Frame
    <2>4. x # b /\ (Origin(x) \/ x = fat[b])
      BY <1>1, <2>1, <2>2, OriginsBack
    <2>5. CASE Origin(x)
      BY <1>2, <2>1, <2>4, <2>5 DEF Settled, InHand
    <2>6. CASE x = fat[b]
      <3>1. x \in Table
        BY DEF Origin
      <3>2. ~ChainEnds(fat[b])
        <4>1. x < EOF /\ x >= 2 /\ x \in Nat /\ EOF \in Nat
          BY <3>1
        <4> QED
          BY <2>6, <4>1 DEF ChainEnds
      <3> QED
        BY <1>4, <2>3, <2>6, <3>2 DEF Settled, InHand, FreeClusterChain
    <2> QED
      BY <2>4, <2>5, <2>6
  <1> QED
    BY <1>3, <1>4

LEMMA OriginsBegin ==
    ASSUME Volume, op = Idle, Calm', NEW x, Origin(x)', NEW size \in Sizes, WriteFile(size) \/ AppendFile(size)
    PROVE  Settled(x)
  <1>1. FatInv /\ OpInv /\ OpenInv /\ FatTypes
    BY DEF Volume, FatInv
  <1>2. ASSUME Origin(x) PROVE Settled(x)
    BY <1>2, IdleFrame DEF Settled, InHand, Writing
  <1>3. ASSUME NEW call \in {"write", "append"}, BeginFirst(call, size), file.open PROVE Settled(x)
    <2>1. PICK w : /\ FAT32_AllocCluster(w)
                   /\ IF Allocated(w) THEN /\ op' = Begin(call, "data", Picked, size)
                                           /\ file' = [file EXCEPT !.entry.start = Picked]
                      ELSE NoCluster
      BY <1>3 DEF BeginFirst
    <2>2. Allocated(w) /\ (Origin(x) \/ x = Picked)
      BY <1>1, <2>1, CalmAllocation
    <2>3. op' = Begin(call, "data", Picked, size) /\ file' = [file EXCEPT !.entry.start = Picked]
      BY <2>1, <2>2
    <2>4. op'.call = call
      BY <2>3 DEF Begin, Idle
    <2>5. file \in [open : BOOLEAN, dir : Table, entry : Entries]
      BY <1>1, <1>3 DEF OpenInv
    <2>6. file'.entry.start = Picked
      BY <2>3, <2>5 DEF Entries
    <2> QED
      BY <1>2, <2>2, <2>4, <2>6 DEF Settled, InHand, Writing
  <1>4. BeginFirst("write", size) \/ BeginFirst("append", size) \/ UNCHANGED fat
    BY DEF WriteFile, AppendFile
  <1>5. file.open
    BY DEF WriteFile, AppendFile, CanWrite
  <1> QED
    BY <1>1, <1>2, <1>3, <1>4, <1>5, OriginsBack

LEMMA OriginsStep ==
    ASSUME Volume, [Next]_vars, Calm', NEW x, Origin(x)'
    PROVE  Settled(x) \/ UNCHANGED vars
  <1>1. FatInv /\ DirInv /\ OpInv /\ FatTypes
    BY DEF Volume, FatInv
  <1>2. CASE Step
    <2>1. CASE WriteData \/ Extend \/ Link \/ Trim \/ TrimUnread
      <3>1. Writing
        BY <1>1, <2>1, CallOf DEF WriteData, Extend, Link, Trim, TrimUnread
      <3> QED
        BY <2>1, <3>1, OriginsWriting
    <2>2. CASE FreeClusterChain
      <3>1. Writing \/ Removal
        BY <1>1, <2>2, CallOf DEF FreeClusterChain
      <3> QED
        BY <2>2, <3>1, OriginsWriting, OriginsRemoving
    <2>3. CASE MarkDeleted
      <3>1. Removal
        BY <1>1, <2>3, CallOf DEF MarkDeleted
      <3> QED
        BY <2>3, <3>1, OriginsRemoving
    <2>4. CASE WriteEntry
      BY <2>4, OriginsEntry
    <2>5. CASE MakeDirCluster \/ FillDirCluster \/ WriteSlot \/ GrowDir \/ AttachToDir
      BY <2>5, OriginsCreating
    <2> QED
      BY <1>2, <2>1, <2>2, <2>3, <2>4, <2>5 DEF Step
  <1>3. ASSUME op = Idle, UNCHANGED fat PROVE Settled(x)
    <2>1. Origin(x)
      BY <1>1, <1>3, OriginsBack
    <2> QED
      BY <1>3, <2>1, IdleFrame DEF Settled, InHand, Writing
  <1>4. ASSUME Command PROVE UNCHANGED fat
    <2>1. ASSUME NEW d, NEW n, CreateFile(d, n) \/ CreateDir(d, n) \/ DeleteFile(d, n) \/ RemoveDir(d, n) PROVE UNCHANGED fat
      BY <2>1 DEF CreateFile, CreateDir, DeleteFile, RemoveDir, Removing, disk
    <2>2. ASSUME NEW d, NEW n, NEW m, RenameFile(d, n, m) PROVE UNCHANGED fat
      BY <2>2 DEF RenameFile
    <2> QED
      BY <1>4, <2>1, <2>2, Zenon DEF Command
  <1>5. ASSUME op = Idle, NEW size \in Sizes, WriteFile(size) \/ AppendFile(size) PROVE Settled(x)
    BY <1>5, OriginsBegin
  <1>6. ASSUME NEW d, NEW n, OpenFile(d, n) PROVE UNCHANGED fat
    BY <1>6 DEF OpenFile, disk
  <1>7. CASE CloseFile
    BY <1>3, <1>7 DEF CloseFile, disk
  <1>8. CASE PowerLoss
    BY <1>8 DEF PowerLoss, Calm, Clean
  <1> QED
    BY <1>2, <1>3, <1>4, <1>5, <1>6, <1>7, <1>8, Zenon DEF Next

\* A tear needs a write that failed or a loss of power.
TornMeans == "torn" \in mishap => mishap \cap {"error", "loss"} # {}
LEMMA TornStep ==
    ASSUME TornMeans, [Next]_vars
    PROVE  TornMeans'
  <1> SUFFICES ASSUME "torn" \in mishap' PROVE mishap' \cap {"error", "loss"} # {}
    BY DEF TornMeans
  <1>1. CASE "torn" \in mishap
    BY <1>1, MishapStays DEF TornMeans
  <1>2. CASE "torn" \notin mishap
    <2>1. CASE Trim
      BY <1>2, <2>1 DEF Trim, Noted
    <2>2. CASE FreeClusterChain
      BY <1>2, <2>2 DEF FreeClusterChain
    <2>3. CASE MarkDeleted
      BY <1>2, <2>3 DEF MarkDeleted, Noted
    <2>4. CASE PowerLoss
      BY <2>4 DEF PowerLoss
    <2> QED
      BY <1>2, <2>1, <2>2, <2>3, <2>4, TearingSteps
  <1> QED
    BY <1>1, <1>2

LEMMA TightStep ==
    ASSUME Volume, EmptyTarget, Tight, [Next]_vars, Calm'
    PROVE  Tight'
  <1> SUFFICES ASSUME NEW x, Origin(x)' PROVE x = root_cluster \/ Referred(x)' \/ InHand(x)'
    BY DEF Tight
  <1>1. CASE UNCHANGED vars
    <2>1. Origin(x)
      BY <1>1 DEF Origin, vars, disk
    <2>2. x = root_cluster \/ Referred(x) \/ InHand(x)
      BY <2>1 DEF Tight
    <2>3. Referred(x) => Referred(x)'
      BY <1>1 DEF Referred, Refers, Dirs, vars, disk
    <2>4. InHand(x) => InHand(x)'
      BY <1>1 DEF InHand, Writing, vars, disk
    <2> QED
      BY <2>2, <2>3, <2>4
  <1>2. CASE Origin(x) /\ ~InHand(x)
    <2>1. x = root_cluster \/ Referred(x)
      BY <1>2 DEF Tight
    <2>2. x \in Table /\ fat'[x] # FREE
      BY DEF Origin
    <2> QED
      BY <2>1, <2>2, ReferredStays
  <1> QED
    BY <1>1, <1>2, OriginsStep DEF Settled

LeakInv ==
    /\ TornMeans
    /\ Clean({"torn"}) => EmptyTarget /\ Ranked
    /\ Calm => Tight

LEMMA InitLeak == Init => LeakInv
  <1> SUFFICES ASSUME Init PROVE LeakInv
    OBVIOUS
  <1> USE TableSize
  <1>1. fat = [c \in Table |-> IF c = root_cluster THEN EOF ELSE FREE] /\ mishap = {} /\ op = Idle
    BY DEF Init
  <1>2. EmptyTarget
    BY <1>1, IdleFrame DEF EmptyTarget, Removal
  <1>3. Ranked
    <2> DEFINE r == [c \in Table |-> 0]
    <2>1. r \in Ranks
      BY <1>1 DEF Ranks
    <2> QED
      BY <2>1 DEF Ranked
  <1>4. Tight
    BY <1>1 DEF Tight, Origin
  <1> QED
    BY <1>1, <1>2, <1>3, <1>4 DEF LeakInv, TornMeans

LEMMA NextLeak == VolumeInv /\ LeakInv /\ [Next]_vars => LeakInv'
  <1> SUFFICES ASSUME VolumeInv, LeakInv, [Next]_vars PROVE LeakInv'
    OBVIOUS
  <1>1. TornMeans'
    BY TornStep DEF LeakInv
  <1>2. ASSUME Clean({"torn"})' PROVE Volume /\ EmptyTarget' /\ Ranked' /\ EmptyTarget
    <2>1. Clean({"torn"})
      BY <1>2, MishapStays DEF Clean
    <2> QED
      BY <2>1, EmptyStep, RankStep DEF VolumeInv, LeakInv
  <1>3. ASSUME Calm' PROVE Tight'
    <2>1. Clean({"torn"})'
      BY <1>1, <1>3 DEF TornMeans, Calm, Clean
    <2>2. Calm
      BY <1>3, MishapStays DEF Calm, Clean
    <2> QED
      BY <1>2, <1>3, <2>1, <2>2, TightStep DEF LeakInv
  <1> QED
    BY <1>1, <1>2, <1>3 DEF LeakInv

LEMMA LeakFree == VolumeInv /\ LeakInv => NothingLeaks
  <1> SUFFICES ASSUME VolumeInv, LeakInv, op = Idle, Calm, NEW c \in Table
               PROVE  fat[c] # FREE <=> c \in Clus(Chain(root_cluster)) \cup UNION {Clus(HeadChain(h)) : h \in Heads}
    <2>1. ASSUME NEW s, Origin(s), FatInv PROVE Clus(Chain(s)) \subseteq Table
      <3> DEFINE ch == Chain(s)
      <3>1. ch \in Seq(Table)
        BY <2>1, OriginChain
      <3> HIDE DEF ch
      <3>2. Clus(ch) \subseteq Table
        BY <3>1 DEF Clus
      <3> QED
        BY <3>2 DEF ch
    <2>2. ASSUME VolumeInv, LeakInv, Calm PROVE Clus(Chain(root_cluster)) \cup UNION {Clus(HeadChain(h)) : h \in Heads} \subseteq Table
      <3>1. Volume
        BY <2>2 DEF VolumeInv, LeakInv, TornMeans, Calm, Clean
      <3>2. FatInv /\ HeadInv
        BY <3>1 DEF Volume
      <3>3. Clus(Chain(root_cluster)) \subseteq Table
        BY <2>1, <3>2 DEF HeadInv
      <3>4. ASSUME NEW h \in Heads PROVE Clus(HeadChain(h)) \subseteq Table
        <4>1. PICK d \in Dirs, i \in Slots :
                /\ IsEntry(dirs[d][i]) /\ dirs[d][i].start # 0 /\ ~DoomedAt(d, i)
                /\ Slot(h[1], h[2]) = dirs[d][i]
          BY <3>1, HeadsAre
        <4>2. PICK s : s = dirs[d][i].start /\ Origin(s)
          BY <3>2, <4>1 DEF HeadInv
        <4> QED
          BY <2>1, <3>2, <4>1, <4>2 DEF HeadChain
      <3> QED
        BY <3>3, <3>4
    <2> QED
      BY <2>2 DEF NothingLeaks, Calm
  <1>1. Volume /\ Ranked /\ Tight
    BY DEF VolumeInv, LeakInv, TornMeans, Calm, Clean
  <1>2. FatInv /\ HeadInv /\ OpInv
    BY <1>1 DEF Volume
  <1>3. ASSUME fat[c] # FREE PROVE c \in Clus(Chain(root_cluster)) \cup UNION {Clus(HeadChain(h)) : h \in Heads}
    <2>1. PICK s : Origin(s) /\ c \in Clus(Chain(s))
      BY <1>1, <1>2, <1>3, OnSomeChain
    <2>2. CASE s = root_cluster
      BY <2>1, <2>2
    <2>3. CASE s # root_cluster
      <3>1. ~InHand(s)
        BY IdleFrame DEF InHand, Writing
      <3>2. PICK d \in Dirs, i \in Slots : IsEntry(dirs[d][i]) /\ dirs[d][i].start = s
        BY <1>1, <2>1, <2>3, <3>1 DEF Tight, Referred, Refers
      <3>3. s # 0 /\ ~DoomedAt(d, i)
        <4>1. s \in Table /\ ~Removal
          BY <1>2, <2>1, CallOf DEF Origin
        <4> QED
          BY <4>1, TableSize DEF FREE, DoomedAt
      <3> DEFINE h == <<d, <<1, i>>>>
      <3>4. DirInv /\ Slot(d, <<1, i>>) = dirs[d][i]
        BY <1>1, DirSlots DEF Volume
      <3>5. h \in Heads
        BY <1>1, <3>2, <3>3, <3>4, HeadsAre
      <3>6. HeadChain(h) = Chain(s)
        BY <3>2, <3>4 DEF HeadChain
      <3> QED
        BY <2>1, <3>5, <3>6
    <2> QED
      BY <2>2, <2>3
  <1>4. ASSUME NEW s, Origin(s), c \in Clus(Chain(s)) PROVE fat[c] # FREE
    <2> DEFINE ch == Chain(s)
    <2>1. \A k \in 1..Len(ch) : fat[ch[k]] # FREE
      BY <1>2, <1>4, OriginChain
    <2> HIDE DEF ch
    <2>2. c \in Clus(ch)
      BY <1>4 DEF ch
    <2> QED
      BY <2>1, <2>2 DEF Clus
  <1>5. ASSUME NEW h \in Heads, c \in Clus(HeadChain(h)) PROVE fat[c] # FREE
    <2>1. PICK d \in Dirs, i \in Slots :
            /\ IsEntry(dirs[d][i]) /\ dirs[d][i].start # 0 /\ ~DoomedAt(d, i)
            /\ Slot(h[1], h[2]) = dirs[d][i]
      BY <1>1, HeadsAre
    <2>2. PICK s : s = dirs[d][i].start /\ Origin(s)
      BY <1>2, <2>1 DEF HeadInv
    <2> QED
      BY <1>4, <1>5, <2>1, <2>2 DEF HeadChain
  <1>6. c \in Clus(Chain(root_cluster)) => fat[c] # FREE
    BY <1>2, <1>4 DEF HeadInv
  <1> QED
    BY <1>3, <1>5, <1>6

\* When no call is under way, no file is open and nothing went wrong, every cluster in use is on
\* the root's chain or on an entry's, and no other is: what FAT32_AllocCluster took for
\* FAT32_WriteFile, FAT32_AppendFile or FAT32_CreateDir has been linked and named, and what
\* FAT32_WriteFile cut off and the removals took away has been freed to the last cluster.
THEOREM NoClusterLeaks == Spec => []NothingLeaks
  BY VolumeInvariant, InitLeak, NextLeak, LeakFree, PTL DEF Spec

-----------------------------------------------------------------------------
(***************************************************************************)
(* Sizes.  A chain only grows at its end or is cut where the write ended,  *)
(* and file_size is raised when the clusters are there: so the chain of an *)
(* entry is as long as its file_size says.                                 *)
(***************************************************************************)
LEMMA Times ==
    ASSUME NEW u \in Nat \ {0}, NEW a \in Nat, NEW b \in Nat, a <= b
    PROVE  a * u \in Nat /\ b * u \in Nat /\ a * u <= b * u /\ (b + 1) * u = b * u + u
  <1>1. PICK k \in Nat : b = a + k
    <2>1. b - a \in Nat /\ b = a + (b - a)
      OBVIOUS
    <2> QED
      BY <2>1
  <1>2. k * u \in Nat /\ a * u \in Nat
    OBVIOUS
  <1>3. b * u = a * u + k * u
    BY <1>1
  <1> QED
    BY <1>2, <1>3

\* The division that rounds up, and the rest of a division.
LEMMA RoundUp ==
    ASSUME NEW u \in Nat \ {0}, NEW w \in Nat, NEW m \in Nat, w <= m * u
    PROVE  ((w + u - 1) \div u) * u <= m * u
  <1> DEFINE q == (w + u - 1) \div u
  <1>1. q \in Nat /\ q * u <= w + u - 1
    OBVIOUS
  <1> HIDE DEF q
  <1>2. q <= m
    <2> SUFFICES ASSUME q >= m + 1 PROVE FALSE
      BY <1>1
    <2>1. (m + 1) * u <= q * u
      BY <1>1, Times
    <2>2. (m + 1) * u = m * u + u
      BY Times
    <2>3. m * u \in Nat /\ q * u \in Nat
      BY <1>1
    <2> QED
      BY <1>1, <2>1, <2>2, <2>3
  <1> QED
    BY <1>1, <1>2, Times DEF q

LEMMA Remainder ==
    ASSUME NEW u \in Nat \ {0}, NEW z \in Nat, NEW m \in Nat \ {0}, z <= m * u, z % u # 0 \/ z = 0
    PROVE  z % u \in Nat /\ z <= (m - 1) * u + (z % u)
  <1> DEFINE q == z \div u
             o == z % u
  <1>1. q \in Nat /\ o \in Nat /\ z = q * u + o
    OBVIOUS
  <1> HIDE DEF q, o
  <1> SUFFICES o \in Nat /\ z <= (m - 1) * u + o
    BY DEF o
  <1>2. CASE z = 0
    <2>1. (m - 1) * u \in Nat
      BY Times
    <2> QED
      BY <1>1, <1>2, <2>1
  <1>3. CASE o # 0
    <2>1. q <= m - 1
      <3> SUFFICES ASSUME q >= m PROVE FALSE
        BY <1>1
      <3>1. m * u <= q * u /\ m * u \in Nat /\ q * u \in Nat
        BY <1>1, Times
      <3> QED
        BY <1>1, <1>3, <3>1
    <2>2. q * u <= (m - 1) * u /\ q * u \in Nat /\ (m - 1) * u \in Nat
      BY <1>1, <2>1, Times
    <2>3. PICK x \in Nat, y \in Nat : x = q * u /\ y = (m - 1) * u
      BY <2>2
    <2>4. x <= y /\ z = x + o
      BY <1>1, <2>2, <2>3
    <2>5. z <= y + o
      BY <1>1, <2>4
    <2> QED
      BY <1>1, <2>3, <2>5
  <1> QED
    BY <1>2, <1>3 DEF o

Walked ==
    FatInv => \A s : Origin(s) =>
      /\ Chain(s) \in Seq(Table) /\ Len(Chain(s)) >= 1 /\ Chain(s)[1] = s
      /\ \A k \in 2..Len(Chain(s)) : Chain(s)[k] = fat[Chain(s)[k - 1]]
      /\ \A k \in 1..Len(Chain(s)) : fat[Chain(s)[k]] # FREE
      /\ \A j, k \in 1..Len(Chain(s)) : Chain(s)[j] = Chain(s)[k] => j = k
      /\ fat[Chain(s)[Len(Chain(s))]] = EOF
LEMMA WalkedNow == Walked
  BY OriginChain DEF Walked
LEMMA WalkedNext == Walked'
  BY WalkedNow, PTL

\* A chain is the same up to its first link that was changed.
LEMMA ChainKept ==
    ASSUME FatInv, FatInv', NEW s, Origin(s), Origin(s)', NEW m \in 1..Len(Chain(s)),
           \A k \in 1..(m - 1) : fat'[Chain(s)[k]] = fat[Chain(s)[k]]
    PROVE  m <= Len(Chain(s)') /\ \A k \in 1..m : Chain(s)'[k] = Chain(s)[k]
  <1> DEFINE c == Chain(s)
             e == Chain(s)'
             bad == {k \in 1..m : ~(k <= Len(e) /\ e[k] = c[k])}
  <1>1. /\ c \in Seq(Table) /\ Len(c) >= 1 /\ c[1] = s
        /\ \A k \in 2..Len(c) : c[k] = fat[c[k - 1]]
    BY WalkedNow DEF Walked
  <1>2. /\ e \in Seq(Table) /\ Len(e) >= 1 /\ e[1] = s
        /\ \A k \in 2..Len(e) : e[k] = fat'[e[k - 1]]
        /\ fat'[e[Len(e)]] = EOF
    BY WalkedNext DEF Walked
  <1>3. m \in 1..Len(c) /\ Len(c) \in Nat /\ Len(e) \in Nat /\ \A k \in 1..(m - 1) : fat'[c[k]] = fat[c[k]]
    BY <1>1, <1>2
  <1> HIDE DEF c, e
  <1> SUFFICES m <= Len(e) /\ \A k \in 1..m : e[k] = c[k]
    BY DEF c, e
  <1> SUFFICES ASSUME bad # {} PROVE FALSE
    <2>1. m \in 1..m
      BY <1>3
    <2> QED
      BY <2>1
  <1>4. PICK k \in bad : \A l \in bad : k <= l
    <2>1. bad \in SUBSET Nat
      BY <1>3
    <2> HIDE DEF bad
    <2> QED
      BY <2>1, Smallest
  <1>5. k \in 1..m /\ ~(k <= Len(e) /\ e[k] = c[k])
    OBVIOUS
  <1>6. k # 1
    BY <1>1, <1>2, <1>5
  <1>7. k - 1 \in 1..(m - 1) /\ k - 1 \notin bad /\ k \in 2..Len(c)
    BY <1>3, <1>4, <1>5, <1>6
  <1>8. k - 1 <= Len(e) /\ e[k - 1] = c[k - 1]
    BY <1>3, <1>7
  <1>9. fat'[e[k - 1]] = c[k] /\ c[k] \in Table
    BY <1>1, <1>3, <1>7, <1>8
  <1>10. k - 1 # Len(e)
    BY <1>2, <1>9, TableSize
  <1>11. k \in 2..Len(e)
    BY <1>3, <1>7, <1>8, <1>10
  <1> QED
    BY <1>2, <1>5, <1>9, <1>11

\* The table of the next state keeps every chain and may lengthen it, or the chain is cut
\* by FAT32_WriteFile behind the cluster it wrote last.
Prefix(s) == Len(Chain(s)) <= Len(Chain(s)') /\ \A k \in 1..Len(Chain(s)) : Chain(s)'[k] = Chain(s)[k]
LEMMA ChainStep ==
    ASSUME Volume, [Next]_vars, FatInv', NEW s, Origin(s), Origin(s)'
    PROVE  \/ Prefix(s)
           \/ /\ Trim /\ Surplus
              /\ \E m \in 1..Len(Chain(s)) :
                   /\ Chain(s)[m] = op.cluster /\ m <= Len(Chain(s)')
                   /\ \A k \in 1..m : Chain(s)'[k] = Chain(s)[k]
  <1>1. FatInv /\ fat \in [Table -> {FREE, EOF} \cup Table]
    BY DEF Volume, FatInv, FatTypes
  <1> DEFINE c == Chain(s)
             L == Len(c)
  <1>2. /\ c \in Seq(Table) /\ L >= 1 /\ c[1] = s
        /\ \A k \in 2..L : c[k] = fat[c[k - 1]]
        /\ \A k \in 1..L : fat[c[k]] # FREE
        /\ \A j, k \in 1..L : c[j] = c[k] => j = k
        /\ fat[c[L]] = EOF
    BY <1>1, WalkedNow DEF Walked
  <1>3. L \in Nat /\ L \in 1..L
    BY <1>2
  <1>4. ASSUME \A k \in 1..(L - 1) : fat'[c[k]] = fat[c[k]] PROVE Prefix(s)
    BY <1>1, <1>3, <1>4, ChainKept DEF Prefix
  <1>5. ASSUME NEW k \in 1..(L - 1) PROVE /\ c[k] \in Table /\ fat[c[k]] \in Table /\ fat[c[k]] = c[k + 1]
    <2> HIDE DEF c
    <2>1. k \in 1..L /\ k + 1 \in 2..L /\ k + 1 - 1 = k /\ k + 1 \in 1..L
      BY <1>3
    <2> QED
      BY <1>2, <2>1
  <1> HIDE DEF c
  <1>6. CASE UNCHANGED fat
    BY <1>4, <1>6
  <1>7. CASE TakesOne
    <2>1. PICK x \in Table : fat[x] = FREE /\ fat' = [fat EXCEPT ![x] = EOF]
      BY <1>7 DEF TakesOne
    <2>2. \A k \in 1..(L - 1) : fat'[c[k]] = fat[c[k]]
      BY <1>1, <1>5, <2>1, TableSize
    <2> QED
      BY <1>4, <2>2
  <1>8. CASE LinksOne
    <2>1. PICK x \in Table, y \in Table : fat[x] = EOF /\ fat' = [fat EXCEPT ![x] = y]
      BY <1>8 DEF LinksOne
    <2>2. \A k \in 1..(L - 1) : fat'[c[k]] = fat[c[k]]
      BY <1>1, <1>5, <2>1, TableSize
    <2> QED
      BY <1>4, <2>2
  <1>9. CASE FreesOne
    <2>1. PICK x \in Table : Origin(x) /\ fat' = [fat EXCEPT ![x] = FREE]
      BY <1>9 DEF FreesOne
    <2>2. x # s
      BY <1>1, <2>1 DEF Origin
    <2>3. ASSUME NEW k \in 1..(L - 1) PROVE c[k] # x
      <3>1. CASE k = 1
        BY <1>2, <2>2, <3>1
      <3>2. CASE k # 1
        <4>1. k - 1 \in 1..(L - 1) /\ k - 1 + 1 = k
          BY <1>3, <3>2
        <4>2. c[k - 1] \in Table /\ fat[c[k - 1]] = c[k]
          BY <1>5, <4>1
        <4> QED
          BY <2>1, <4>2 DEF Origin
      <3> QED
        BY <3>1, <3>2
    <2>4. \A k \in 1..(L - 1) : fat'[c[k]] = fat[c[k]]
      BY <1>1, <1>5, <2>1, <2>3
    <2> QED
      BY <1>4, <2>4
  <1>10. CASE CutsOne
    <2>1. PICK x \in Table : Trim /\ x = op.cluster /\ fat[x] \in Table /\ fat' = [fat EXCEPT ![x] = EOF]
      BY <1>10 DEF CutsOne
    <2>2. fat'[x] # fat[x] /\ \A y \in Table : y # x => fat'[y] = fat[y]
      BY <1>1, <2>1, TableSize
    <2>3. Surplus
      BY <2>1, <2>2 DEF Trim
    <2>4. CASE \A k \in 1..(L - 1) : c[k] # x
      <3>1. \A k \in 1..(L - 1) : fat'[c[k]] = fat[c[k]]
        BY <1>5, <2>2, <2>4
      <3> QED
        BY <1>4, <3>1
    <2>5. CASE \E k \in 1..(L - 1) : c[k] = x
      <3>1. PICK m \in 1..(L - 1) : c[m] = x
        BY <2>5
      <3>2. m \in 1..L /\ \A k \in 1..(m - 1) : k \in 1..(L - 1) /\ k \in 1..L /\ k # m
        BY <1>3
      <3>3. \A k \in 1..(m - 1) : fat'[c[k]] = fat[c[k]]
        BY <1>2, <1>5, <2>2, <3>1, <3>2
      <3>4. m <= Len(Chain(s)') /\ \A k \in 1..m : Chain(s)'[k] = Chain(s)[k]
        BY <1>1, <3>2, <3>3, ChainKept DEF c
      <3> QED
        BY <2>1, <2>3, <3>1, <3>2, <3>4 DEF c
    <2> QED
      BY <2>4, <2>5
  <1> QED
    BY <1>6, <1>7, <1>8, <1>9, <1>10, TableStep

\* While a chain is being removed nothing is allocated.
LEMMA FreeStaysFree ==
    ASSUME Volume, [Next]_vars, Removal, NEW x \in Table, fat[x] = FREE
    PROVE  fat'[x] = FREE
  <1> USE DEF disk
  <1>1. FatInv /\ OpInv /\ fat \in [Table -> {FREE, EOF} \cup Table]
    BY DEF Volume, FatInv, FatTypes
  <1>2. op # Idle /\ op.pc \in {"free", "mark"}
    BY <1>1, CallOf DEF OpInv, RemovalInv
  <1>3. CASE FreeClusterChain
    <2>1. fat' = fat \/ fat' = [fat EXCEPT ![op.next] = FREE]
      BY <1>3 DEF FreeClusterChain, FAT32_WriteFATEntry
    <2> QED
      BY <1>1, <2>1
  <1>4. CASE MarkDeleted \/ PowerLoss \/ UNCHANGED vars
    BY <1>4 DEF MarkDeleted, PowerLoss, vars
  <1>5. CASE Step
    BY <1>2, <1>3, <1>4, <1>5 DEF Step, WriteData, Extend, Link, Trim, TrimUnread, WriteEntry,
         MakeDirCluster, FillDirCluster, WriteSlot, GrowDir, AttachToDir
  <1>6. ~CloseFile
    BY <1>2 DEF CloseFile
  <1> QED
    BY <1>2, <1>4, <1>5, <1>6 DEF Next

\* An entry's chain that is whole was whole before.
LEMMA OriginBefore ==
    ASSUME Volume, [Next]_vars, NEW d \in Dirs, NEW i \in Slots, NEW s, Refers(d, i, s), Origin(s)'
    PROVE  Origin(s)
  <1>1. DirInv /\ HeadInv /\ OpInv
    BY DEF Volume
  <1>2. s \in Table /\ s # 0 /\ fat'[s] # FREE /\ IsEntry(dirs[d][i]) /\ dirs[d][i].start = s
    BY TableSize DEF Origin, Refers, FREE
  <1>3. CASE ~DoomedAt(d, i)
    BY <1>1, <1>2, <1>3, HeadFacts
  <1>4. CASE DoomedAt(d, i)
    <2>1. Removal /\ d = op.d
      BY <1>4 DEF DoomedAt
    <2>2. PICK j \in Slots :
             /\ DoomedAt(d, i) <=> d = op.d /\ i = j
             /\ op.pc \in {"free", "mark"}
             /\ op.pc = "free" => Origin(dirs[op.d][j].start) \/ fat[dirs[op.d][j].start] = FREE
             /\ op.pc = "mark" /\ dirs[op.d][j].start # 0 => fat[dirs[op.d][j].start] = FREE
      <3>1. op.pc \in {"free", "mark"}
        BY <1>1, <2>1 DEF OpInv, RemovalInv
      <3> QED
        BY <2>1, <3>1, RemovalTarget
    <2>3. fat[s] # FREE
      BY <1>2, <2>1, FreeStaysFree
    <2> QED
      BY <1>2, <1>4, <2>1, <2>2, <2>3
  <1> QED
    BY <1>3, <1>4

\* The first cluster of the open file heads a chain.
OpenChain == Volume /\ file.open /\ file.entry.start # 0 => Origin(file.entry.start) /\ ~Removal
LEMMA OpenChainNow == OpenChain
  <1> SUFFICES ASSUME Volume, file.open, file.entry.start # 0 PROVE Origin(file.entry.start) /\ ~Removal
    BY DEF OpenChain
  <1>1. DirInv /\ HeadInv /\ OpenInv /\ OpInv
    BY DEF Volume
  <1>2. ~Removal
    BY <1>1 DEF OpInv, RemovalInv
  <1> QED
    BY <1>1, <1>2, OpenStart
LEMMA OpenChainNext == OpenChain'
  BY OpenChainNow, PTL

-----------------------------------------------------------------------------
Backed(s, n) == n <= Len(Chain(s)) * UnitsPerCluster

\* Every entry's size is backed by its chain.
EntrySizes ==
    \A d \in Dirs, i \in Slots :
       IsEntry(dirs[d][i]) /\ dirs[d][i].kind = "file" /\ Origin(dirs[d][i].start)
         => Backed(dirs[d][i].start, dirs[d][i].size)
\* So is the open file's, and its entry on disk claims no more.
OpenSize ==
    file.open /\ file.entry.kind = "file" /\ file.entry.start # 0 =>
      /\ Backed(file.entry.start, file.entry.size)
      /\ \A d \in Dirs, i \in Slots : Refers(d, i, file.entry.start) => dirs[d][i].size <= file.entry.size
\* The cluster being written is the m-th of the file, and what will be claimed for the file
\* fits into the clusters before it, or up to it once it is written.
Base == IF op.call = "append" THEN file.entry.size ELSE 0
Reach(m) == IF op.pc = "data" THEN (m - 1) * UnitsPerCluster + op.offset ELSE m * UnitsPerCluster
WritePlace ==
    Writing /\ file.entry.start # 0 =>
      \E m \in 1..Len(Chain(file.entry.start)) :
         Chain(file.entry.start)[m] = op.cluster /\ Base + op.written <= Reach(m)
SizeInv == Clean({"error", "short", "torn"}) => EntrySizes /\ OpenSize /\ WritePlace

\* A chain that is not cut backs what it backed.
LEMMA BackedStays ==
    ASSUME FatInv, FatInv', NEW s, Origin(s), Origin(s)', Prefix(s), NEW n \in Nat, Backed(s, n)
    PROVE  Backed(s, n)'
  <1>1. Len(Chain(s)) \in Nat /\ Len(Chain(s)') \in Nat
    BY WalkedNow, WalkedNext DEF Walked
  <1>2. PICK a \in Nat, b \in Nat : a = Len(Chain(s)) /\ b = Len(Chain(s)') /\ a <= b
    BY <1>1 DEF Prefix
  <1>3. a * UnitsPerCluster <= b * UnitsPerCluster /\ a * UnitsPerCluster \in Nat /\ b * UnitsPerCluster \in Nat
    BY <1>2, Times, Fat32Assumption
  <1>4. n <= a * UnitsPerCluster
    BY <1>2 DEF Backed
  <1>5. n <= b * UnitsPerCluster
    BY <1>3, <1>4
  <1> QED
    BY <1>2, <1>5 DEF Backed

\* The place of a write in its chain outlives every step, the cut behind it included.
LEMMA PlaceKept ==
    ASSUME Volume, Volume', [Next]_vars, WritePlace, Writing, NEW s, s = file.entry.start, s # 0,
           file'.open, file'.entry.start = s
    PROVE  \E m \in Nat \ {0} :
             /\ m <= Len(Chain(s)) /\ Chain(s)[m] = op.cluster /\ Base + op.written <= Reach(m)
             /\ m <= Len(Chain(s)') /\ Chain(s)'[m] = op.cluster
  <1>1. FatInv /\ FatInv' /\ OpInv /\ file.open
    BY DEF Volume, OpInv, WritingInv
  <1>2. Origin(s) /\ Origin(s)'
    BY <1>1, OpenChainNow, OpenChainNext DEF OpenChain
  <1>3. PICK m \in 1..Len(Chain(s)) : Chain(s)[m] = op.cluster /\ Base + op.written <= Reach(m)
    BY DEF WritePlace
  <1>4. /\ Len(Chain(s)) \in Nat /\ Len(Chain(s)') \in Nat
        /\ \A j, k \in 1..Len(Chain(s)) : Chain(s)[j] = Chain(s)[k] => j = k
    <2>1. Len(Chain(s)') \in Nat
      BY <1>1, <1>2, WalkedNext DEF Walked
    <2> QED
      BY <1>1, <1>2, <2>1, WalkedNow DEF Walked
  <1>5. m \in Nat \ {0} /\ m <= Len(Chain(s))
    BY <1>4
  <1>6. CASE Prefix(s)
    <2>1. m <= Len(Chain(s)') /\ Chain(s)'[m] = Chain(s)[m]
      BY <1>4, <1>6 DEF Prefix
    <2> QED
      BY <1>3, <1>5, <2>1
  <1>7. CASE \E k \in 1..Len(Chain(s)) :
               /\ Chain(s)[k] = op.cluster /\ k <= Len(Chain(s)')
               /\ \A l \in 1..k : Chain(s)'[l] = Chain(s)[l]
    <2>1. PICK k \in 1..Len(Chain(s)) :
               /\ Chain(s)[k] = op.cluster /\ k <= Len(Chain(s)')
               /\ \A l \in 1..k : Chain(s)'[l] = Chain(s)[l]
      BY <1>7
    <2>2. k = m /\ m \in 1..k
      BY <1>3, <1>4, <2>1
    <2> QED
      BY <1>3, <1>5, <2>1, <2>2
  <1> QED
    BY <1>1, <1>2, <1>6, <1>7, ChainStep

\* The successor of the m-th cluster is the next one.
LEMMA PlaceAfter ==
    ASSUME FatInv', NEW s, Origin(s)', NEW m \in Nat \ {0}, m <= Len(Chain(s)'), NEW b \in Table, fat'[Chain(s)'[m]] = b
    PROVE  m + 1 <= Len(Chain(s)') /\ Chain(s)'[m + 1] = b
  <1> DEFINE e == Chain(s)'
  <1>1. /\ e \in Seq(Table) /\ Len(e) >= 1
        /\ \A k \in 2..Len(e) : e[k] = fat'[e[k - 1]]
        /\ fat'[e[Len(e)]] = EOF
    BY WalkedNext DEF Walked
  <1>2. m <= Len(e) /\ fat'[e[m]] = b
    OBVIOUS
  <1> HIDE DEF e
  <1> SUFFICES m + 1 <= Len(e) /\ e[m + 1] = b
    BY DEF e
  <1>3. m # Len(e)
    BY <1>1, <1>2, TableSize
  <1>4. m + 1 \in 2..Len(e) /\ m + 1 - 1 = m
    BY <1>1, <1>2, <1>3
  <1> QED
    BY <1>1, <1>2, <1>4

LEMMA WrittenFits ==
    ASSUME OpInv, Writing, op.pc = "data", NEW b \in Nat, NEW m \in Nat \ {0}, b + op.written <= (m - 1) * UnitsPerCluster + op.offset
    PROVE  b + Written <= m * UnitsPerCluster
  <1>1. /\ op.size \in Nat /\ op.written \in Nat /\ op.offset \in Nat
        /\ op.written <= op.size /\ op.offset < UnitsPerCluster
    BY DEF OpInv, WritingInv, Frame
  <1>2. PICK x \in Nat, y \in Nat : x = (m - 1) * UnitsPerCluster /\ y = m * UnitsPerCluster /\ y = x + UnitsPerCluster
    <2>1. m - 1 \in Nat /\ m - 1 + 1 = m
      OBVIOUS
    <2>2. (m - 1) * UnitsPerCluster \in Nat /\ (m - 1 + 1) * UnitsPerCluster = (m - 1) * UnitsPerCluster + UnitsPerCluster
      BY <2>1, Times, Fat32Assumption
    <2> QED
      BY <2>1, <2>2, Fat32Assumption
  <1>3. Written <= op.written + (UnitsPerCluster - op.offset) /\ Written \in Nat
    BY <1>1, Fat32Assumption DEF Written, ToWrite
  <1>4. b + op.written <= x + op.offset
    BY <1>2
  <1>5. b + Written <= y
    BY <1>1, <1>2, <1>3, <1>4, Fat32Assumption
  <1> QED
    BY <1>2, <1>5

LEMMA PlaceStep ==
    ASSUME Volume, Volume', [Next]_vars, WritePlace, Writing, "error" \notin mishap', file.entry.start # 0,
           WriteData \/ Extend \/ Link \/ Trim \/ TrimUnread \/ FreeClusterChain
    PROVE  WritePlace'
  <1> USE TableSize DEF disk
  <1>1. FatInv' /\ OpInv /\ op \in Frame /\ ~Removal /\ file.open
    BY CallOf DEF Volume, OpInv, WritingInv
  <1>2. UNCHANGED file
    BY DEF WriteData, Extend, Link, Trim, TrimUnread, FreeClusterChain, NoCluster, Return
  <1>3. PICK s : s = file.entry.start /\ s # 0 /\ s = file'.entry.start
    BY <1>2
  <1>4. PICK m \in Nat \ {0} :
             /\ m <= Len(Chain(s)) /\ Chain(s)[m] = op.cluster /\ Base + op.written <= Reach(m)
             /\ m <= Len(Chain(s)') /\ Chain(s)'[m] = op.cluster
    <2>1. file'.open /\ file'.entry.start = s
      BY <1>1, <1>2, <1>3
    <2> QED
      BY <1>3, <2>1, PlaceKept
  <1>5. Origin(s)' /\ Len(Chain(s)') \in Nat
    <2>1. Origin(s)'
      BY <1>1, <1>2, <1>3, OpenChainNext DEF OpenChain
    <2> QED
      BY <1>1, <2>1, WalkedNext DEF Walked
  <1>6. ASSUME NEW k \in Nat \ {0}, k <= Len(Chain(s)'), Chain(s)'[k] = op'.cluster, (Base + op.written <= Reach(k))'
        PROVE  WritePlace'
    <2>1. k \in 1..Len(Chain(s)')
      BY <1>5, <1>6
    <2> QED
      BY <1>3, <1>6, <2>1 DEF WritePlace
  <1>7. PICK b \in Nat : b = Base /\ (op'.call = op.call => b = Base')
    <2>1. file.entry.size \in Nat
      BY <1>1 DEF Volume, OpenInv, Entries
    <2> QED
      BY <1>2, <2>1 DEF Base
  <1>8. ASSUME op'.call = op.call, op'.cluster = op.cluster, op'.pc # "data", b + op'.written <= m * UnitsPerCluster
        PROVE  WritePlace'
    BY <1>4, <1>6, <1>7, <1>8 DEF Reach
  <1>9. ASSUME op.pc # "data" PROVE b + op.written <= m * UnitsPerCluster
    BY <1>4, <1>7, <1>9 DEF Reach
  <1>10. ASSUME op' = Idle \/ op' = [Idle EXCEPT !.pc = "hung"] PROVE WritePlace'
    BY <1>10, Returned DEF WritePlace
  <1>11. CASE WriteData
    <2>1. op.pc = "data" /\ UNCHANGED fat
      BY <1>11 DEF WriteData
    <2>2. op' = WriteRound
      BY <1>11 DEF WriteData, Noted
    <2>3. op'.call = op.call /\ op'.written = Written /\ op'.offset = op.offset
      BY <1>1, <2>2 DEF WriteRound, Frame
    <2>4. b + Written <= m * UnitsPerCluster
      BY <1>1, <1>4, <1>7, <2>1, WrittenFits DEF Reach
    <2>5. CASE Written >= op.size \/ op.call = "append" \/ fat[op.cluster] >= EOF
      <3>1. op'.cluster = op.cluster /\ op'.pc # "data"
        BY <1>1, <2>2, <2>5 DEF WriteRound, Frame
      <3> QED
        BY <1>8, <2>3, <2>4, <3>1
    <2>6. CASE ~(Written >= op.size \/ op.call = "append" \/ fat[op.cluster] >= EOF)
      <3>1. op'.cluster = fat[op.cluster] /\ op'.pc = "data"
        BY <1>1, <2>1, <2>2, <2>6 DEF WriteRound, Frame
      <3>2. op.cluster \in Table /\ fat[op.cluster] # FREE
        BY <1>1, <2>1 DEF OpInv, WritingInv, Held
      <3>3. fat[op.cluster] \in Table
        <4>1. fat[op.cluster] \in {FREE, EOF} \cup Table
          BY <3>2 DEF Volume, FatInv, FatTypes
        <4>2. EOF >= EOF
          OBVIOUS
        <4> QED
          BY <2>6, <3>2, <4>1, <4>2
      <3>4. PICK t \in Table : t = fat[op.cluster]
        BY <3>3
      <3>5. m + 1 <= Len(Chain(s)') /\ Chain(s)'[m + 1] = t
        BY <1>1, <1>4, <1>5, <2>1, <3>4, PlaceAfter
      <3>6. op.offset \in Nat /\ m + 1 - 1 = m /\ m * UnitsPerCluster \in Nat /\ Written \in Nat
        BY <1>1, Fat32Assumption, RoundSize, Times DEF Frame
      <3>7. b + Written <= m * UnitsPerCluster + op.offset
        BY <2>4, <3>6
      <3>8. (Base + op.written <= Reach(m + 1))'
        BY <1>7, <2>3, <3>1, <3>6, <3>7 DEF Reach
      <3> QED
        BY <1>6, <3>1, <3>4, <3>5, <3>8
    <2> QED
      BY <2>5, <2>6
  <1>12. CASE Extend
    <2>1. op.pc = "extend" /\ (op' = [op EXCEPT !.pc = "link", !.next = Picked] \/ NoCluster)
      BY <1>12 DEF Extend
    <2>2. CASE NoCluster
      BY <1>10, <2>2 DEF NoCluster, Return
    <2>3. CASE op' = [op EXCEPT !.pc = "link", !.next = Picked]
      <3>1. op'.call = op.call /\ op'.cluster = op.cluster /\ op'.pc = "link" /\ op'.written = op.written
        BY <1>1, <2>3 DEF Frame
      <3> QED
        BY <1>8, <1>9, <2>1, <3>1
    <2> QED
      BY <2>1, <2>2, <2>3
  <1>13. CASE Link
    <2>1. op.pc = "link"
      BY <1>13 DEF Link
    <2>2. PICK x \in Table, y \in Table : x = op.cluster /\ y = op.next
      BY <1>1, <2>1, LooseNoDir DEF OpInv, WritingInv, Held, Unlinked
    <2>3. /\ fat' = [fat EXCEPT ![x] = y]
          /\ op' = [op EXCEPT !.pc = "data", !.cluster = op.next, !.next = 0, !.offset = 0]
      BY <1>13, <2>2 DEF Link, FAT32_WriteFATEntry, Noted
    <2>4. op'.call = op.call /\ op'.cluster = y /\ op'.pc = "data" /\ op'.written = op.written /\ op'.offset = 0
      BY <1>1, <2>2, <2>3 DEF Frame
    <2>5. fat'[Chain(s)'[m]] = y
      <3>1. fat'[x] = y
        BY <2>3 DEF Volume, FatInv, FatTypes
      <3> QED
        BY <1>4, <2>2, <3>1
    <2>6. m + 1 <= Len(Chain(s)') /\ Chain(s)'[m + 1] = y
      <3>1. FatInv' /\ Origin(s)' /\ m <= Len(Chain(s)')
        BY <1>1, <1>4, <1>5
      <3> QED
        BY <2>5, <3>1, PlaceAfter, Zenon
    <2>7. m + 1 - 1 = m /\ m * UnitsPerCluster \in Nat
      BY Fat32Assumption, Times
    <2>8. b + op.written <= m * UnitsPerCluster + 0
      BY <1>9, <2>1, <2>7
    <2>9. (Base + op.written <= Reach(m + 1))'
      BY <1>7, <2>4, <2>7, <2>8 DEF Reach
    <2> QED
      BY <1>6, <2>4, <2>6, <2>9
  <1>14. CASE Trim \/ TrimUnread
    <2>1. op.pc = "trim"
      BY <1>14 DEF Trim, TrimUnread
    <2>2. op' = [op EXCEPT !.pc = "entry"] \/ op' = [op EXCEPT !.pc = "free", !.next = fat[op.cluster]]
      BY <1>14 DEF Trim, TrimUnread
    <2>3. CASE op' = [op EXCEPT !.pc = "entry"]
      <3>1. op'.call = op.call /\ op'.cluster = op.cluster /\ op'.pc = "entry" /\ op'.written = op.written
        BY <1>1, <2>3 DEF Frame
      <3> QED
        BY <1>8, <1>9, <2>1, <3>1
    <2>4. CASE op' = [op EXCEPT !.pc = "free", !.next = fat[op.cluster]]
      <3>1. op'.call = op.call /\ op'.cluster = op.cluster /\ op'.pc = "free" /\ op'.written = op.written
        BY <1>1, <2>4 DEF Frame
      <3> QED
        BY <1>8, <1>9, <2>1, <3>1
    <2> QED
      BY <2>2, <2>3, <2>4
  <1>15. CASE FreeClusterChain
    <2>1. op.pc = "free" /\ After = "entry"
      BY <1>1, <1>15 DEF FreeClusterChain, After
    <2>2. op' = [op EXCEPT !.pc = After, !.next = 0] \/ op' = [op EXCEPT !.next = NextToFree]
      BY <1>1, <1>15 DEF FreeClusterChain
    <2>3. op'.call = op.call /\ op'.cluster = op.cluster /\ op'.pc # "data" /\ op'.written = op.written
      BY <1>1, <2>1, <2>2 DEF Frame
    <2> QED
      BY <1>8, <1>9, <2>1, <2>3
  <1> QED
    BY <1>11, <1>12, <1>13, <1>14, <1>15

\* FAT32_WriteFile and FAT32_AppendFile begin where they should.
LEMMA PlaceBegin ==
    ASSUME Volume, Volume', [Next]_vars, OpenSize, op = Idle,
           NEW size \in Sizes, WriteFile(size) \/ AppendFile(size)
    PROVE  WritePlace'
  <1> SUFFICES ASSUME Writing', file'.entry.start # 0 PROVE WritePlace'
    BY DEF WritePlace
  <1>1. FatInv /\ FatInv' /\ OpenInv /\ file.open /\ file.entry.kind = "file" /\ UnitsPerCluster \in Nat \ {0}
    BY Fat32Assumption DEF Volume, WriteFile, AppendFile, CanWrite
  <1>2. file \in [open : BOOLEAN, dir : Table, entry : Entries] /\ Proper(file.entry) /\ file.entry.size \in Nat
    BY <1>1 DEF OpenInv, Entries
  <1>3. PICK s : s = file'.entry.start /\ s # 0
    OBVIOUS
  <1>4. file'.open /\ Origin(s)'
    <2>1. file'.open
      BY DEF Volume, OpInv, WritingInv
    <2> QED
      BY <1>3, <2>1, OpenChainNext DEF OpenChain
  <1>5. Len(Chain(s)') \in Nat /\ Len(Chain(s)') >= 1 /\ Chain(s)'[1] = s
    BY <1>1, <1>4, WalkedNext DEF Walked
  <1>6. ASSUME NEW m \in 1..Len(Chain(s)'), Chain(s)'[m] = op'.cluster, (Base + op.written <= Reach(m))' PROVE WritePlace'
    BY <1>3, <1>6 DEF WritePlace
  <1>7. ASSUME op'.cluster = s, Base' = 0, op'.written = 0, op'.pc = "data" => op'.offset = 0 PROVE WritePlace'
    <2>1. (1 - 1) * UnitsPerCluster + 0 = 0 /\ 1 * UnitsPerCluster \in Nat /\ 1 \in 1..Len(Chain(s)')
      BY <1>1, <1>5
    <2>2. (Base + op.written <= Reach(1))'
      BY <1>7, <2>1 DEF Reach
    <2> QED
      BY <1>5, <1>6, <1>7, <2>1, <2>2
  <1>8. ASSUME NEW call \in {"write", "append"}, file.entry.start = 0, BeginFirst(call, size) PROVE WritePlace'
    <2>1. (op' = Begin(call, "data", Picked, size) /\ file' = [file EXCEPT !.entry.start = Picked]) \/ NoCluster
      BY <1>8 DEF BeginFirst
    <2>2. ~NoCluster
      BY Returned DEF NoCluster, Return
    <2>3. op' = Begin(call, "data", Picked, size) /\ file' = [file EXCEPT !.entry.start = Picked]
      BY <2>1, <2>2
    <2>4. file'.entry.start = Picked /\ file'.entry.size = file.entry.size /\ file.entry.size = 0
      BY <1>2, <1>8, <2>3 DEF Entries, Proper
    <2>5. op'.cluster = Picked /\ op'.written = 0 /\ op'.offset = 0
      BY <2>3 DEF Begin, Idle
    <2>6. Base' = 0
      BY <2>4 DEF Base
    <2> QED
      BY <1>3, <1>7, <2>4, <2>5, <2>6
  <1>9. CASE WriteFile(size) /\ ~(file.entry.start = 0 /\ size > 0)
    <2>1. /\ op' = Begin("write", IF size > 0 THEN "data" ELSE "trim", file.entry.start, size)
          /\ UNCHANGED file
      BY <1>9 DEF WriteFile
    <2>2. op'.cluster = file.entry.start /\ op'.written = 0 /\ op'.offset = 0 /\ op'.call = "write"
      BY <2>1 DEF Begin, Idle
    <2>3. Base' = 0
      BY <2>2 DEF Base
    <2> QED
      BY <1>3, <1>7, <2>1, <2>2, <2>3
  <1>10. CASE AppendFile(size) /\ file.entry.start # 0
    <2> DEFINE offset == file.entry.size % UnitsPerCluster
               full == offset = 0 /\ file.entry.size > 0
    <2>1. /\ op' = [Begin("append", IF full THEN "extend" ELSE "data", Last(Chain(file.entry.start)), size)
                      EXCEPT !.offset = offset]
          /\ UNCHANGED <<fat, file>>
      BY <1>10 DEF AppendFile
    <2>2. s = file.entry.start /\ Origin(s)
      BY <1>1, <1>3, <2>1, OpenChainNow DEF OpenChain
    <2>3. PICK pc \in {"extend", "data"} : pc = IF full THEN "extend" ELSE "data"
      OBVIOUS
    <2>4. op' = [Begin("append", pc, Last(Chain(s)), size) EXCEPT !.offset = offset]
      BY <2>1, <2>2, <2>3
    <2>5. op'.cluster = Last(Chain(s)) /\ op'.written = 0 /\ op'.offset = offset /\ op'.call = "append" /\ op'.pc = pc
      <3> HIDE DEF offset
      <3> QED
        BY <2>4 DEF Begin, Idle
    <2>6. PICK m \in Nat \ {0} : m = Len(Chain(s)) /\ Last(Chain(s)) = Chain(s)[m]
      <3>1. Len(Chain(s)) \in Nat /\ Len(Chain(s)) >= 1
        BY <1>1, <2>2, WalkedNow DEF Walked
      <3> QED
        BY <3>1 DEF Last
    <2>7. Prefix(s)
      <3>1. \A k \in 1..(m - 1) : fat'[Chain(s)[k]] = fat[Chain(s)[k]]
        BY <2>1
      <3>2. m \in 1..Len(Chain(s))
        BY <2>6
      <3> QED
        BY <1>1, <1>4, <2>2, <2>6, <3>1, <3>2, ChainKept DEF Prefix
    <2>8. m \in 1..Len(Chain(s)') /\ Chain(s)'[m] = op'.cluster
      BY <1>5, <2>5, <2>6, <2>7 DEF Prefix
    <2>9. PICK z \in Nat : z = file.entry.size /\ z = Base' /\ z <= m * UnitsPerCluster
      <3>1. Base' = file.entry.size
        BY <2>1, <2>5 DEF Base
      <3>2. Backed(s, file.entry.size)
        BY <1>1, <1>3, <2>2 DEF OpenSize
      <3> QED
        BY <1>2, <2>6, <3>1, <3>2 DEF Backed
    <2>10. CASE pc = "extend"
      <3>1. (Base + op.written <= Reach(m))'
        BY <2>5, <2>9, <2>10 DEF Reach
      <3> QED
        BY <1>6, <2>8, <3>1
    <2>11. CASE pc = "data"
      <3>1. z % UnitsPerCluster # 0 \/ z = 0
        BY <2>3, <2>9, <2>11
      <3>2. z <= (m - 1) * UnitsPerCluster + (z % UnitsPerCluster)
        BY <1>1, <2>9, <3>1, Remainder
      <3>3. (Base + op.written <= Reach(m))'
        <4>1. z + 0 <= (m - 1) * UnitsPerCluster + offset
          BY <2>9, <3>2
        <4> HIDE DEF offset
        <4> QED
          BY <2>5, <2>9, <2>11, <4>1 DEF Reach
      <3> QED
        BY <1>6, <2>8, <3>3
    <2> QED
      BY <2>10, <2>11
  <1>11. CASE WriteFile(size) /\ file.entry.start = 0 /\ size > 0
    <2>1. BeginFirst("write", size)
      BY <1>11 DEF WriteFile
    <2> QED
      BY <1>8, <1>11, <2>1
  <1>12. CASE AppendFile(size) /\ file.entry.start = 0
    <2>1. BeginFirst("append", size)
      BY <1>12 DEF AppendFile
    <2> QED
      BY <1>8, <1>12, <2>1
  <1> QED
    BY <1>9, <1>10, <1>11, <1>12

-----------------------------------------------------------------------------
LEMMA ClaimStays ==
    ASSUME Volume, Volume', [Next]_vars, OpenSize, file.open, file.entry.kind = "file",
           NEW s, s # 0, s = file.entry.start, s = file'.entry.start, file.entry.size <= file'.entry.size,
           file'.entry.size \in Nat, NEW d \in Dirs', NEW i \in Slots, Refers(d, i, s)'
    PROVE  dirs'[d][i].size <= file'.entry.size
  <1>1. FatInv /\ DirInv /\ OpInv /\ OpenInv
    BY DEF Volume
  <1>2. file.entry.size \in Nat
    BY <1>1 DEF OpenInv, Entries
  <1>3. IsEntry(dirs'[d][i]) /\ dirs'[d][i].start = s
    BY DEF Refers
  <1>4. ASSUME d \in Dirs, dirs'[d][i] = dirs[d][i] PROVE dirs'[d][i].size <= file'.entry.size
    <2>1. Refers(d, i, s)
      BY <1>3, <1>4 DEF Refers
    <2>2. dirs[d][i].size <= file.entry.size
      BY <1>4, <2>1 DEF OpenSize
    <2>3. dirs[d][i].size \in Nat
      <3>1. dirs[d][i] \in SlotValues
        BY <1>1, <1>4 DEF DirInv
      <3>2. dirs[d][i] \in Entries
        BY <1>3, <1>4, <3>1, SlotKinds
      <3> QED
        BY <3>2 DEF Entries
    <2> QED
      BY <1>2, <1>4, <2>2, <2>3
  <1>5. CASE SameDirs
    <2>1. d \in Dirs /\ dirs'[d] = dirs[d]
      BY <1>1, <1>5, DirsStay DEF SameDirs
    <2> QED
      BY <1>4, <2>1
  <1>6. ASSUME NEW e \in Dirs, NEW k \in Slots, NEW v \in SlotValues, dirs' = [dirs EXCEPT ![e][k] = v],
               Deletes(e, k, v) \/ (v \in Entries /\ (Rewrites(e, k, v) \/ Renames(e, k, v) \/ Fills(e, k, v)))
        PROVE  dirs'[d][i].size <= file'.entry.size
    <2>1. v \in Entries /\ Rewrites(e, k, v) /\ ~Fills(e, k, v)
      BY <1>1, <1>6 DEF Deletes, Renames, Fills, OpInv, CreatingInv, RemovalInv
    <2>2. d \in Dirs
      BY <1>1, <1>6, <2>1, DirsAfter
    <2>3. /\ dirs'[e][k] = v
          /\ \A f \in Table, j \in Slots : f # e \/ j # k => dirs'[f][j] = dirs[f][j]
      <3>1. e \in Table /\ dirs \in [Table -> [Slots -> SlotValues]]
        BY <1>1 DEF DirInv
      <3>2. dirs' = [dirs EXCEPT ![e] = [dirs[e] EXCEPT ![k] = v]]
        BY <1>6
      <3> QED
        BY <3>1, <3>2
    <2>4. CASE d = e /\ i = k
      BY <2>1, <2>3, <2>4 DEF Rewrites
    <2>5. CASE d # e \/ i # k
      <3>1. d \in Table
        BY <1>1, <2>2 DEF DirInv
      <3> QED
        BY <1>4, <2>2, <2>3, <2>5, <3>1
    <2> QED
      BY <2>4, <2>5
  <1> QED
    BY <1>5, <1>6, DirectoryStep

\* The size of the open file stays backed: a cut that would drop below it is the event "short".
LEMMA OpenBacked ==
    ASSUME Volume, Volume', [Next]_vars, OpenSize, WritePlace, "short" \notin mishap', file.open, file.entry.kind = "file",
           NEW s, s # 0, s = file.entry.start, s = file'.entry.start, file'.open,
           NEW z \in Nat, z = file.entry.size
    PROVE  Backed(s, z)'
  <1>1. FatInv /\ FatInv' /\ OpInv /\ OpenInv /\ UnitsPerCluster \in Nat \ {0}
    BY Fat32Assumption DEF Volume
  <1>2. z = file.entry.size
    OBVIOUS
  <1>3. Origin(s) /\ Origin(s)'
    BY OpenChainNow, OpenChainNext DEF OpenChain
  <1>4. CASE Prefix(s)
    <2>1. Backed(s, z)
      BY <1>2 DEF OpenSize
    <2> QED
      BY <1>1, <1>3, <1>4, <2>1, BackedStays
  <1>5. CASE Trim /\ Surplus
    <2>1. op.pc = "trim" /\ Writing
      BY <1>1, <1>5, CallOf DEF Trim
    <2>2. PICK m \in Nat \ {0} : Base + op.written <= Reach(m) /\ m <= Len(Chain(s)')
      BY <2>1, PlaceKept
    <2>3. op.written \in Nat /\ op.written <= m * UnitsPerCluster /\ m * UnitsPerCluster \in Nat
      <3>1. op.written \in Nat /\ Base \in Nat /\ m * UnitsPerCluster \in Nat
        BY <1>1, <1>2, Times DEF OpInv, Frame, Base
      <3>2. Base + op.written <= m * UnitsPerCluster
        BY <2>1, <2>2 DEF Reach
      <3> QED
        BY <3>1, <3>2
    <2>4. z <= Kept
      <3>1. Kept \in Nat
        <4>1. (op.written + UnitsPerCluster - 1) \div UnitsPerCluster \in Nat
          BY <1>1, <2>3
        <4> QED
          BY <1>1, <4>1 DEF Kept
      <3>2. ~(file.entry.size > Kept)
        BY <1>5 DEF Trim
      <3> QED
        BY <1>2, <3>1, <3>2
    <2>5. Kept \in Nat /\ Kept <= m * UnitsPerCluster
      <3>1. CASE op.written = 0
        <4>1. UnitsPerCluster <= m * UnitsPerCluster
          <5>1. 1 * UnitsPerCluster <= m * UnitsPerCluster /\ 1 * UnitsPerCluster = UnitsPerCluster
            BY <1>1, Times
          <5> QED
            BY <5>1
        <4> QED
          BY <1>1, <3>1, <4>1 DEF Kept
      <3>2. CASE op.written # 0
        <4>1. ((op.written + UnitsPerCluster - 1) \div UnitsPerCluster) * UnitsPerCluster <= m * UnitsPerCluster
          BY <1>1, <2>3, RoundUp
        <4>2. (op.written + UnitsPerCluster - 1) \div UnitsPerCluster \in Nat
          BY <1>1, <2>3
        <4> QED
          BY <1>1, <3>2, <4>1, <4>2 DEF Kept
      <3> QED
        BY <3>1, <3>2
    <2>6. PICK L \in Nat : L = Len(Chain(s)') /\ m <= L
      BY <1>1, <1>3, <2>2, WalkedNext DEF Walked
    <2>7. m * UnitsPerCluster <= L * UnitsPerCluster /\ L * UnitsPerCluster \in Nat
      BY <1>1, <2>6, Times
    <2>8. z <= L * UnitsPerCluster
      BY <2>3, <2>4, <2>5, <2>7
    <2> QED
      BY <2>6, <2>8 DEF Backed
  <1> QED
    BY <1>1, <1>3, <1>4, <1>5, ChainStep

\* What becomes of the open file.
FirstCluster ==
    /\ op = Idle /\ file.open /\ file.entry.start = 0 /\ ~NoneFree /\ UNCHANGED dirs
    /\ file' = [file EXCEPT !.entry.start = Picked]
LEMMA FileStep ==
    ASSUME Volume, [Next]_vars
    PROVE  \/ UNCHANGED file \/ (~file'.open /\ op' = Idle) \/ WriteEntry \/ FirstCluster
           \/ \E d \in Dirs, n \in Names : OpenFile(d, n)
  <1> USE DEF disk
  <1>1. OpenDirs \subseteq Dirs
    BY DirsNamed DEF Volume
  <1>2. CASE Step
    <2>1. CASE WriteData \/ Extend \/ Link \/ Trim \/ TrimUnread \/ FreeClusterChain
      BY SMTT(30), <2>1 DEF WriteData, Extend, Link, Trim, TrimUnread, FreeClusterChain, NoCluster, Return
    <2>2. CASE MakeDirCluster \/ FillDirCluster \/ WriteSlot \/ GrowDir \/ AttachToDir \/ MarkDeleted
      BY <2>2 DEF MakeDirCluster, FillDirCluster, WriteSlot, GrowDir, AttachToDir, MarkDeleted, NoCluster, Return
    <2> QED
      BY <1>2, <2>1, <2>2 DEF Step
  <1>3. CASE Command
    <2>1. ASSUME NEW d, NEW n, CreateFile(d, n) \/ CreateDir(d, n) \/ DeleteFile(d, n) \/ RemoveDir(d, n) PROVE UNCHANGED file
      BY <2>1 DEF CreateFile, CreateDir, DeleteFile, RemoveDir, Removing
    <2>2. ASSUME NEW d, NEW n, NEW m, RenameFile(d, n, m) PROVE UNCHANGED file
      BY <2>2 DEF RenameFile
    <2> QED
      BY <1>3, <2>1, <2>2, Zenon DEF Command
  <1>4. ASSUME op = Idle, NEW size \in Sizes, WriteFile(size) \/ AppendFile(size) PROVE UNCHANGED file \/ FirstCluster
    <2>1. ASSUME NEW call, BeginFirst(call, size), file.entry.start = 0, file.open, UNCHANGED dirs
          PROVE  UNCHANGED file \/ FirstCluster
      BY <1>4, <2>1 DEF BeginFirst, Allocated, FirstCluster, NoCluster, Return
    <2> QED
      BY <1>4, <2>1 DEF WriteFile, AppendFile, CanWrite
  <1>5. CASE \E d \in OpenDirs, n \in Names : OpenFile(d, n)
    BY <1>1, <1>5
  <1>6. CASE CloseFile \/ PowerLoss
    BY <1>6 DEF CloseFile, PowerLoss, Closed
  <1>7. CASE UNCHANGED vars
    BY <1>7 DEF vars
  <1> QED
    BY <1>2, <1>3, <1>4, <1>5, <1>6, <1>7, Zenon DEF Next

LEMMA OpenSizeStep ==
    ASSUME Volume, Volume', [Next]_vars, EntrySizes, OpenSize, WritePlace, Clean({"error", "short", "torn"})'
    PROVE  OpenSize'
  <1> SUFFICES ASSUME file'.open, file'.entry.kind = "file", file'.entry.start # 0
               PROVE  /\ Backed(file.entry.start, file.entry.size)'
                      /\ \A d \in Dirs', i \in Slots : Refers(d, i, file.entry.start)' => dirs'[d][i].size <= file'.entry.size
    BY DEF OpenSize
  <1>1. FatInv /\ DirInv /\ HeadInv /\ OpInv /\ OpenInv /\ FatInv' /\ DirInv' /\ HeadInv' /\ OpenInv'
    BY DEF Volume
  <1>2. "error" \notin mishap' /\ "short" \notin mishap' /\ UnitsPerCluster \in Nat \ {0}
    BY Fat32Assumption DEF Clean
  <1>3. PICK s \in Table, z \in Nat : s = file'.entry.start /\ s # 0 /\ z = file'.entry.size /\ Origin(s)'
    <2>1. file'.entry.size \in Nat
      BY <1>1 DEF OpenInv, Entries
    <2>2. PICK s : s = file'.entry.start
      OBVIOUS
    <2>3. Origin(s)'
      BY <2>2, OpenChainNext DEF OpenChain
    <2>4. s \in Table
      BY <2>3 DEF Origin
    <2> QED
      BY <2>1, <2>2, <2>3, <2>4
  <1> SUFFICES /\ Backed(s, z)'
               /\ \A d \in Dirs', i \in Slots : Refers(d, i, s)' => dirs'[d][i].size <= z
    BY <1>3
  <1>4. CASE UNCHANGED file
    <2>1. Backed(s, z)'
      BY <1>2, <1>3, <1>4, OpenBacked
    <2>2. z <= z
      OBVIOUS
    <2>3. \A d \in Dirs', i \in Slots : Refers(d, i, s)' => dirs'[d][i].size <= z
      BY <1>3, <1>4, <2>2, ClaimStays
    <2> QED
      BY <2>1, <2>3
  <1>5. CASE WriteEntry
    <2>1. op.pc = "entry" /\ Writing /\ file.open /\ file.entry.kind = "file" /\ UNCHANGED fat
      BY <1>1, <1>5, CallOf DEF WriteEntry, OpInv, WritingInv
    <2>2. PICK y \in Nat : y = file.entry.size
      BY <1>1, <2>1 DEF OpenInv, Entries
    <2>3. s = file.entry.start /\ z = NewSize
      <3>1. file \in [open : BOOLEAN, dir : Table, entry : Entries]
        BY <1>1, <2>1 DEF OpenInv
      <3>2. file' = [file EXCEPT !.entry.size = NewSize]
        BY <1>5 DEF WriteEntry
      <3> QED
        BY <1>3, <3>1, <3>2 DEF Entries
    <2>4. PICK m \in Nat \ {0} : Base + op.written <= Reach(m) /\ m <= Len(Chain(s)')
      BY <1>3, <2>1, <2>3, PlaceKept
    <2>5. PICK L \in Nat : L = Len(Chain(s)') /\ m <= L
      BY <1>1, <1>3, <2>4, WalkedNext DEF Walked
    <2>6. m * UnitsPerCluster <= L * UnitsPerCluster /\ L * UnitsPerCluster \in Nat /\ m * UnitsPerCluster \in Nat
      BY <1>2, <2>5, Times
    <2>7. y <= L * UnitsPerCluster
      <3>1. Backed(s, y)'
        BY <1>2, <1>3, <2>1, <2>2, <2>3, OpenBacked
      <3> QED
        BY <2>5, <3>1 DEF Backed
    <2>8. op.written \in Nat /\ Base + op.written <= m * UnitsPerCluster
      BY <1>1, <2>1, <2>4 DEF Reach, OpInv, Frame
    <2>9. z <= L * UnitsPerCluster /\ y <= z
      <3>1. CASE op.call = "append"
        BY <2>2, <2>3, <2>6, <2>8, <3>1 DEF Base, NewSize
      <3>2. CASE op.call # "append"
        BY <2>2, <2>3, <2>6, <2>7, <2>8, <3>2 DEF Base, NewSize
      <3> QED
        BY <3>1, <3>2
    <2>10. Backed(s, z)'
      BY <2>5, <2>9 DEF Backed
    <2>11. \A d \in Dirs', i \in Slots : Refers(d, i, s)' => dirs'[d][i].size <= z
      BY <1>3, <2>1, <2>2, <2>3, <2>9, ClaimStays
    <2> QED
      BY <2>10, <2>11
  <1>6. CASE FirstCluster
    <2>1. file \in [open : BOOLEAN, dir : Table, entry : Entries] /\ Proper(file.entry)
      BY <1>1, <1>6 DEF OpenInv, FirstCluster
    <2>2. s = Picked /\ z = 0
      BY <1>3, <1>6, <2>1 DEF FirstCluster, Entries, Proper
    <2>3. Backed(s, z)'
      <3>1. PICK L \in Nat : L = Len(Chain(s)')
        BY <1>1, <1>3, WalkedNext DEF Walked
      <3>2. 0 <= L * UnitsPerCluster
        BY <1>2, Times
      <3> QED
        BY <2>2, <3>1, <3>2 DEF Backed
    <2>4. ASSUME NEW d \in Dirs', NEW i \in Slots, Refers(d, i, s)' PROVE FALSE
      <3>1. d \in Dirs /\ Refers(d, i, s)
        BY <1>6, <2>4 DEF FirstCluster, Dirs, Refers
      <3>2. ~Removal /\ fat[s] = FREE
        BY <1>1, <1>6, <2>2, CallOf, PickedIsFree DEF FirstCluster
      <3>3. Origin(s)
        BY <1>1, <1>3, <3>1, <3>2 DEF HeadInv, Refers, DoomedAt
      <3> QED
        BY <3>2, <3>3 DEF Origin
    <2> QED
      BY <2>3, <2>4
  <1>7. ASSUME NEW d \in Dirs, NEW n \in Names, OpenFile(d, n)
        PROVE  /\ Backed(s, z)'
               /\ \A e \in Dirs', i \in Slots : Refers(e, i, s)' => dirs'[e][i].size <= z
    <2>1. Found(d, n) /\ file' = [open |-> TRUE, dir |-> d, entry |-> FAT32_FindEntryAny(d, n)] /\ UNCHANGED <<fat, dirs>> /\ op = Idle
      BY <1>7 DEF OpenFile, Ready, disk
    <2>2. PICK i \in Slots : FirstAt(d, i, name_to_83[n]) /\ FAT32_FindEntryAny(d, n) = dirs[d][i]
      BY <1>1, <2>1, Lookup
    <2>3. IsEntry(dirs[d][i]) /\ dirs[d][i].kind = "file" /\ dirs[d][i].start = s /\ dirs[d][i].size = z
      BY <1>3, <2>1, <2>2 DEF FirstAt, Answers
    <2>4. Refers(d, i, s) /\ Origin(s)
      <3>1. Refers(d, i, s)
        BY <2>3 DEF Refers
      <3> QED
        BY <1>3, <3>1, OriginBefore
    <2>5. Backed(s, z)
      BY <2>3, <2>4 DEF EntrySizes
    <2>6. Prefix(s)
      <3>1. ~(Trim /\ Surplus)
        BY <2>1, IdleFrame DEF Trim
      <3> QED
        BY <1>1, <1>3, <2>4, <3>1, ChainStep
    <2>7. Backed(s, z)'
      BY <1>1, <1>3, <2>4, <2>5, <2>6, BackedStays
    <2>8. ASSUME NEW e \in Dirs', NEW j \in Slots, Refers(e, j, s)' PROVE dirs'[e][j].size <= z
      <3>1. e \in Dirs /\ Refers(e, j, s)
        BY <2>1, <2>8 DEF Dirs, Refers
      <3>2. s \in Table
        BY <2>4 DEF Origin
      <3>3. e = d /\ j = i
        BY <1>1, <2>4, <3>1, <3>2 DEF HeadInv
      <3>4. z <= z
        OBVIOUS
      <3> QED
        BY <2>1, <2>3, <3>3, <3>4
    <2> QED
      BY <2>7, <2>8
  <1> QED
    BY <1>4, <1>5, <1>6, <1>7, FileStep

\* The steps of a write.
WritingSteps == WriteData \/ Extend \/ Link \/ Trim \/ TrimUnread \/ FreeClusterChain
LEMMA WritingFrom ==
    ASSUME Volume, [Next]_vars, Writing'
    PROVE  \/ Writing /\ WritingSteps
           \/ op = Idle /\ \E size \in Sizes : WriteFile(size) \/ AppendFile(size)
           \/ UNCHANGED vars
  <1> USE DEF disk
  <1>1. OpInv /\ op \in Frame
    BY DEF Volume, OpInv
  <1>2. op' # Idle /\ op' # [Idle EXCEPT !.pc = "hung"]
    BY Returned
  <1>3. CASE Step
    <2>1. CASE WriteEntry \/ MarkDeleted \/ AttachToDir
      BY <1>2, <2>1 DEF WriteEntry, MarkDeleted, AttachToDir, Return
    <2>2. CASE MakeDirCluster \/ FillDirCluster \/ WriteSlot \/ GrowDir
      <3>1. Creating
        BY <1>1, <2>2, CallOf DEF MakeDirCluster, FillDirCluster, WriteSlot, GrowDir
      <3>2. \/ op' = [op EXCEPT !.pc = "fill", !.cluster = Picked] \/ op' = [op EXCEPT !.pc = "slot"]
            \/ op' = [op EXCEPT !.pc = "grow"] \/ op' = [op EXCEPT !.pc = "attach", !.next = Picked]
        BY <1>2, <2>2 DEF MakeDirCluster, FillDirCluster, WriteSlot, GrowDir, NoCluster, Return
      <3>3. op'.call = op.call
        BY <1>1, <3>2 DEF Frame
      <3> QED
        BY <3>1, <3>3 DEF Creating, Writing
    <2>3. CASE FreeClusterChain
      <3>1. CASE Removal
        <4>1. op' = [op EXCEPT !.pc = After, !.next = 0] \/ op' = [op EXCEPT !.next = NextToFree]
          BY <1>2, <2>3 DEF FreeClusterChain
        <4>2. op'.call = op.call
          BY <1>1, <4>1 DEF Frame
        <4> QED
          BY <3>1, <4>2 DEF Removal, Writing
      <3>2. Writing \/ Removal
        BY <1>1, <2>3, CallOf DEF FreeClusterChain
      <3> QED
        BY <2>3, <3>1, <3>2 DEF WritingSteps
    <2>4. CASE WriteData \/ Extend \/ Link \/ Trim \/ TrimUnread
      BY <1>1, <2>4, CallOf DEF WritingSteps, WriteData, Extend, Link, Trim, TrimUnread
    <2> QED
      BY <1>3, <2>1, <2>2, <2>3, <2>4 DEF Step
  <1>4. ~(op = Idle /\ Command)
    <2>1. ASSUME NEW d, NEW n, CreateFile(d, n) \/ CreateDir(d, n) PROVE FALSE
      BY <2>1, TargetOf DEF CreateFile, CreateDir, Writing
    <2>2. ASSUME NEW d, NEW n, DeleteFile(d, n) \/ RemoveDir(d, n) PROVE FALSE
      <3>1. PICK call \in {"delete", "rmdir"} : Removing(call, d, n)
        BY <2>2 DEF DeleteFile, RemoveDir
      <3>2. PICK pc, c : op' = [Target(call, pc, d, n) EXCEPT !.next = c]
        BY <3>1 DEF Removing
      <3>3. op'.call = call
        BY <3>2 DEF Target, Idle
      <3> QED
        BY <3>3 DEF Writing
    <2>3. ASSUME NEW d, NEW n, NEW m, RenameFile(d, n, m), op = Idle PROVE FALSE
      BY <1>2, <2>3 DEF RenameFile
    <2> QED
      BY <2>1, <2>2, <2>3, Zenon DEF Command
  <1>5. ~(op = Idle /\ \E d \in OpenDirs, n \in Names : OpenFile(d, n))
    BY <1>2 DEF OpenFile
  <1>6. ~CloseFile /\ ~PowerLoss
    BY <1>2 DEF CloseFile, PowerLoss
  <1> QED
    BY <1>3, <1>4, <1>5, <1>6, Zenon DEF Next

LEMMA WritePlaceStep ==
    ASSUME Volume, Volume', [Next]_vars, OpenSize, WritePlace, "error" \notin mishap'
    PROVE  WritePlace'
  <1> SUFFICES ASSUME Writing', file'.entry.start # 0 PROVE WritePlace'
    BY DEF WritePlace
  <1>1. CASE Writing /\ WritingSteps
    <2>1. UNCHANGED file
      BY <1>1 DEF WritingSteps, WriteData, Extend, Link, Trim, TrimUnread, FreeClusterChain, NoCluster, Return
    <2> QED
      BY <1>1, <2>1, PlaceStep DEF WritingSteps
  <1>2. CASE op = Idle /\ \E size \in Sizes : WriteFile(size) \/ AppendFile(size)
    BY <1>2, PlaceBegin
  <1>3. CASE UNCHANGED vars
    <2>1. UNCHANGED <<file, op>> /\ Writing /\ file.open
      BY <1>3 DEF vars, Writing, Volume, OpInv, WritingInv
    <2>2. PICK s : s = file.entry.start /\ s # 0 /\ s = file'.entry.start
      BY <2>1
    <2>3. PICK m \in Nat \ {0} : /\ Base + op.written <= Reach(m)
                                 /\ m <= Len(Chain(s)') /\ Chain(s)'[m] = op.cluster
      BY <2>1, <2>2, PlaceKept
    <2>4. m \in 1..Len(Chain(s)')
      <3>1. FatInv' /\ Origin(s)'
        BY <2>1, <2>2, OpenChainNext DEF OpenChain, Volume
      <3>2. Len(Chain(s)') \in Nat
        BY <3>1, WalkedNext DEF Walked
      <3> QED
        BY <2>3, <3>2
    <2>5. (Base + op.written <= Reach(m))'
      BY <2>1, <2>3 DEF Base, Reach
    <2> QED
      BY <2>1, <2>2, <2>3, <2>4, <2>5 DEF WritePlace
  <1> QED
    BY <1>1, <1>2, <1>3, WritingFrom

\* The size of an entry that is still there stays backed.
LEMMA SizesKept ==
    ASSUME Volume, Volume', [Next]_vars, EntrySizes, OpenSize, OpenSize', WritePlace,
           NEW d \in Dirs, NEW i \in Slots, IsEntry(dirs[d][i]), dirs[d][i].kind = "file",
           NEW s, s = dirs[d][i].start, Origin(s)', NEW z \in Nat, z = dirs[d][i].size
    PROVE  Backed(s, z)'
  <1>1. FatInv /\ FatInv' /\ OpInv /\ OpenInv /\ OpenInv' /\ UnitsPerCluster \in Nat \ {0}
    BY Fat32Assumption DEF Volume
  <1>2. Refers(d, i, s) /\ Origin(s)
    <2>1. Refers(d, i, s)
      BY DEF Refers
    <2> QED
      BY <2>1, OriginBefore
  <1>3. CASE Prefix(s)
    <2>1. Backed(s, z)
      BY <1>2 DEF EntrySizes
    <2> QED
      BY <1>1, <1>2, <1>3, <2>1, BackedStays
  <1>4. ASSUME Trim, Surplus, NEW k \in 1..Len(Chain(s)), Chain(s)[k] = op.cluster PROVE Backed(s, z)'
    <2>1. op.pc = "trim" /\ Writing /\ UNCHANGED file
      BY <1>1, <1>4, CallOf DEF Trim
    <2>2. file.open /\ file.entry.kind = "file" /\ file.entry.start # 0
      BY <1>1, <1>4, <2>1, NoSurplus DEF OpInv, WritingInv
    <2>3. PICK f : f = file.entry.start /\ f # 0 /\ f = file'.entry.start
      BY <2>1, <2>2
    <2>4. Origin(f) /\ Origin(f)'
      BY <2>1, <2>2, <2>3, OpenChainNow, OpenChainNext DEF OpenChain
    <2>5. PICK m \in Nat \ {0} : m <= Len(Chain(f)) /\ Chain(f)[m] = op.cluster
      BY <2>1, <2>2, <2>3, PlaceKept
    <2>6. f = s
      <3>1. Len(Chain(f)) \in Nat
        BY <1>1, <2>4, WalkedNow DEF Walked
      <3>2. m \in 1..Len(Chain(f))
        BY <2>5, <3>1
      <3>3. op.cluster \in Clus(Chain(f)) /\ op.cluster \in Clus(Chain(s))
        BY <1>4, <2>5, <3>2 DEF Clus
      <3> QED
        BY <1>1, <1>2, <2>4, <3>3, OriginsApart
    <2>7. PICK y \in Nat : y = file.entry.size /\ y = file'.entry.size
      BY <1>1, <2>1, <2>2 DEF OpenInv, Entries
    <2>8. z <= y
      BY <1>2, <2>2, <2>3, <2>6, <2>7 DEF OpenSize
    <2>9. PICK L \in Nat : L = Len(Chain(s)')
      BY <1>1, <2>4, <2>6, WalkedNext DEF Walked
    <2>10. y <= L * UnitsPerCluster /\ L * UnitsPerCluster \in Nat
      <3>1. Backed(s, y)'
        BY <2>1, <2>2, <2>3, <2>6, <2>7 DEF OpenSize
      <3>2. L * UnitsPerCluster \in Nat
        BY <1>1, Times
      <3> QED
        BY <2>9, <3>1, <3>2 DEF Backed
    <2>11. z <= L * UnitsPerCluster
      BY <2>8, <2>10
    <2> QED
      BY <2>9, <2>11 DEF Backed
  <1> QED
    BY <1>1, <1>2, <1>3, <1>4, ChainStep

LEMMA EntrySizesStep ==
    ASSUME Volume, Volume', [Next]_vars, EntrySizes, OpenSize, OpenSize', WritePlace
    PROVE  EntrySizes'
  <1> SUFFICES ASSUME NEW d \in Dirs', NEW i \in Slots, IsEntry(dirs'[d][i]), dirs'[d][i].kind = "file",
                      Origin(dirs[d][i].start)'
               PROVE  Backed(dirs[d][i].start, dirs[d][i].size)'
    BY DEF EntrySizes
  <1>1. DirInv /\ DirInv' /\ OpInv /\ OpenInv /\ FatInv' /\ UnitsPerCluster \in Nat \ {0}
    BY Fat32Assumption DEF Volume
  <1>2. PICK s \in Table, z \in Nat : s = dirs'[d][i].start /\ z = dirs'[d][i].size /\ Origin(s)'
    <2>1. dirs'[d][i] \in SlotValues
      BY <1>1 DEF DirInv
    <2>2. dirs'[d][i] \in Entries
      BY <2>1, SlotKinds
    <2>3. PICK s : s = dirs'[d][i].start
      OBVIOUS
    <2>4. Origin(s)' /\ s \in Table
      BY <2>3 DEF Origin
    <2> QED
      BY <2>2, <2>3, <2>4 DEF Entries
  <1> SUFFICES Backed(s, z)'
    BY <1>2
  <1>3. ASSUME d \in Dirs, IsEntry(dirs[d][i]), dirs[d][i].kind = "file", dirs[d][i].start = s, dirs[d][i].size = z
        PROVE  Backed(s, z)'
    BY <1>2, <1>3, SizesKept
  <1>4. CASE SameDirs
    <2>1. d \in Dirs /\ dirs'[d] = dirs[d]
      BY <1>1, <1>4, DirsStay DEF SameDirs
    <2> QED
      BY <1>2, <1>3, <2>1
  <1>5. ASSUME NEW e \in Dirs, NEW k \in Slots, NEW v \in SlotValues, dirs' = [dirs EXCEPT ![e][k] = v],
               Deletes(e, k, v) \/ (v \in Entries /\ (Rewrites(e, k, v) \/ Renames(e, k, v) \/ Fills(e, k, v)))
        PROVE  Backed(s, z)'
    <2>1. /\ dirs'[e][k] = v
          /\ \A f \in Table, j \in Slots : f # e \/ j # k => dirs'[f][j] = dirs[f][j]
      <3>1. e \in Table /\ dirs \in [Table -> [Slots -> SlotValues]]
        BY <1>1 DEF DirInv
      <3>2. dirs' = [dirs EXCEPT ![e] = [dirs[e] EXCEPT ![k] = v]]
        BY <1>5
      <3> QED
        BY <3>1, <3>2
    <2>2. d \in Dirs
      <3>1. \A j \in Slots : ~IsEntry(NewDir[j])
        BY NewDirSlots
      <3> QED
        BY <1>1, <1>5, <3>1, DirsAfter
    <2>3. CASE d = e /\ i = k
      <3>1. ~Deletes(e, k, v)
        BY <2>1, <2>3, SlotKinds DEF Deletes, IsEntry, Deleted
      <3>2. CASE Rewrites(e, k, v)
        <4>1. v = file'.entry /\ op.pc = "entry" /\ v.start = file.entry.start
          BY <3>2 DEF Rewrites
        <4>2. s # 0
          BY TableSize DEF FREE
        <4>3. file'.open
          BY <3>2 DEF Rewrites
        <4> QED
          BY <1>2, <2>1, <2>3, <4>1, <4>2, <4>3 DEF OpenSize
      <3>3. CASE Renames(e, k, v)
        BY <1>2, <1>3, <2>1, <2>2, <2>3, <3>3 DEF Renames
      <3>4. CASE Fills(e, k, v)
        <4>1. z = 0
          BY <1>2, <2>1, <2>3, <3>4 DEF Fills
        <4>2. PICK L \in Nat : L = Len(Chain(s)')
          BY <1>1, <1>2, WalkedNext DEF Walked
        <4>3. 0 <= L * UnitsPerCluster
          BY <1>1, Times
        <4> QED
          BY <4>1, <4>2, <4>3 DEF Backed
      <3> QED
        BY <1>5, <3>1, <3>2, <3>3, <3>4
    <2>4. CASE d # e \/ i # k
      <3>1. d \in Table
        BY <1>1, <2>2 DEF DirInv
      <3> QED
        BY <1>2, <1>3, <2>1, <2>2, <2>4, <3>1
    <2> QED
      BY <2>3, <2>4
  <1> QED
    BY <1>4, <1>5, DirectoryStep

LEMMA InitSize == Init => SizeInv
  <1> SUFFICES ASSUME Init PROVE SizeInv
    OBVIOUS
  <1>1. /\ dirs = [c \in Table |-> Blank] /\ file = Closed /\ op = Idle
    BY DEF Init
  <1>2. root_cluster \in Table
    BY TableSize
  <1>3. \A j \in Slots : Blank[j] = End
    BY DEF Blank, Slots
  <1>4. Dirs = {root_cluster}
    BY <1>1, <1>2, <1>3, SMT DEF Dirs, End
  <1>5. EntrySizes
    BY <1>1, <1>2, <1>3, <1>4, SMT DEF EntrySizes, IsEntry, End
  <1>6. OpenSize
    BY <1>1 DEF OpenSize, Closed
  <1>7. WritePlace
    BY <1>1, IdleFrame DEF WritePlace, Writing
  <1> QED
    BY <1>5, <1>6, <1>7 DEF SizeInv

LEMMA NextSize == VolumeInv /\ SizeInv /\ [Next]_vars => SizeInv'
  <1> SUFFICES ASSUME VolumeInv, SizeInv, [Next]_vars, Clean({"error", "short", "torn"})'
               PROVE  EntrySizes' /\ OpenSize' /\ WritePlace'
    BY DEF SizeInv
  <1>1. Clean({"error", "short", "torn"}) /\ "torn" \notin mishap /\ "torn" \notin mishap' /\ "error" \notin mishap'
    BY MishapStays DEF Clean
  <1>2. Volume /\ EntrySizes /\ OpenSize /\ WritePlace
    BY <1>1 DEF VolumeInv, SizeInv, Clean
  <1>3. Volume'
    BY <1>1, <1>2, VolumeStep
  <1>4. OpenSize'
    BY <1>2, <1>3, OpenSizeStep
  <1>5. WritePlace'
    BY <1>1, <1>2, <1>3, WritePlaceStep
  <1>6. EntrySizes'
    BY <1>2, <1>3, <1>4, EntrySizesStep
  <1> QED
    BY <1>4, <1>5, <1>6

LEMMA BackedFiles == VolumeInv /\ SizeInv => SizeIsBacked
  <1> SUFFICES ASSUME Volume, EntrySizes, NEW h \in Heads, Slot(h[1], h[2]).kind = "file"
               PROVE  FAT32_ReadFile(Slot(h[1], h[2])) = Slot(h[1], h[2]).size
    BY DEF VolumeInv, SizeInv, SizeIsBacked, Clean
  <1>1. FatInv /\ DirInv /\ HeadInv /\ UnitsPerCluster \in Nat \ {0}
    BY Fat32Assumption DEF Volume
  <1>2. PICK d \in Dirs, i \in Slots :
           /\ IsEntry(dirs[d][i]) /\ dirs[d][i].start # 0 /\ ~DoomedAt(d, i) /\ Slot(h[1], h[2]) = dirs[d][i]
    BY HeadsAre
  <1>3. PICK e \in Entries : e = dirs[d][i]
    BY <1>1, <1>2, SlotKinds DEF DirInv
  <1>4. Origin(e.start) /\ Backed(e.start, e.size) /\ e.size \in Nat
    BY <1>1, <1>2, <1>3 DEF HeadInv, EntrySizes, Entries
  <1>5. PICK n \in Nat : n = Len(Chain(e.start)) * UnitsPerCluster /\ e.size <= n
    <2>1. Len(Chain(e.start)) \in Nat
      BY <1>1, <1>4, WalkedNow DEF Walked
    <2>2. Len(Chain(e.start)) * UnitsPerCluster \in Nat
      BY <1>1, <2>1, Times
    <2> QED
      BY <1>4, <2>2 DEF Backed
  <1>6. ~(n < e.size)
    BY <1>4, <1>5
  <1>7. FAT32_ReadFile(e) = e.size
    BY <1>5, <1>6 DEF FAT32_ReadFile
  <1> QED
    BY <1>2, <1>3, <1>7

\* FAT32_ReadFile returns all of a file, whatever its size and wherever the power was lost in
\* FAT32_WriteFile or FAT32_AppendFile: file_size is written when the clusters are linked.
\* Except after a link that failed unnoticed in FAT32_AppendFile, a removal that was cut
\* short, or a write by which FAT32_WriteFile cut the chain below the file_size it keeps.
THEOREM FilesAreBacked == Spec => []SizeIsBacked
  BY VolumeInvariant, InitSize, NextSize, BackedFiles, PTL DEF Spec

-----------------------------------------------------------------------------
(***************************************************************************)
(* The tree.  The volume is a FileSystem: a step writes one slot of one    *)
(* directory, which adds, removes or replaces one entry of its listing, or *)
(* no directory at all.                                                    *)
(***************************************************************************)
InUse(d) == {i \in Slots : IsEntry(dirs[d][i])}
Content(d) == {dirs[d][i] : i \in InUse(d)}

LEMMA TreeRead == FatInv /\ DirInv => Tree = [d \in Dirs |-> Content(d)]
  <1> SUFFICES ASSUME FatInv, DirInv PROVE Tree = [d \in Dirs |-> Content(d)]
    OBVIOUS
  <1>1. ASSUME NEW d \in Dirs PROVE Listing(d) = Content(d)
    <2>1. Chain(d) = <<d>> /\ Shown(d) = {j \in Slots : dirs[d][j] # End}
      BY DirSlots
    <2> DEFINE seen(c) == {dirs[c][i] : i \in Shown(c)}
    <2>2. UNION {seen(Chain(d)[k]) : k \in 1..Len(Chain(d))} = seen(d)
      <3> HIDE DEF seen
      <3>1. 1..Len(Chain(d)) = {1} /\ Chain(d)[1] = d
        BY <2>1
      <3>2. {seen(Chain(d)[k]) : k \in {1}} = {seen(d)}
        BY <3>1
      <3> QED
        BY <3>1, <3>2
    <2>3. Listing(d) = {s \in seen(d) : IsEntry(s)}
      BY <2>2, Zenon DEF Listing
    <2>4. ~IsEntry(End)
      BY SMT DEF End, IsEntry
    <2> QED
      BY <2>1, <2>3, <2>4 DEF Content, InUse
  <1>2. root_cluster \in Dirs
    BY DEF Dirs
  <1>3. {root_cluster} \cup {e.start : e \in {s \in Content(root_cluster) : s.kind = "dir"}} = Dirs
    BY DEF Content, InUse, Dirs, IsEntry
  <1> QED
    BY <1>1, <1>2, <1>3 DEF Tree

LEMMA TreeReadNext == (FatInv /\ DirInv => Tree = [d \in Dirs |-> Content(d)])'
  BY TreeRead, PTL

LEMMA EntryInContent ==
    ASSUME NEW d, NEW i \in Slots, IsEntry(dirs[d][i])
    PROVE  dirs[d][i] \in Content(d)
  BY DEF Content, InUse

\* What becomes of the listings when a slot is written.
LEMMA ContentAfter ==
    ASSUME DirInv, NEW d \in Dirs, NEW i \in Slots, NEW v \in SlotValues, dirs' = [dirs EXCEPT ![d][i] = v],
           OneEach(d)
    PROVE  /\ \A e \in Table : e # d => Content(e)' = Content(e)
           /\ IsEntry(dirs[d][i]) /\ IsEntry(v) => Content(d)' = (Content(d) \ {dirs[d][i]}) \cup {v}
           /\ ~IsEntry(dirs[d][i]) /\ IsEntry(v) => Content(d)' = Content(d) \cup {v}
           /\ IsEntry(dirs[d][i]) /\ ~IsEntry(v) => Content(d)' = Content(d) \ {dirs[d][i]}
  <1>1. /\ d \in Table /\ dirs'[d][i] = v
        /\ \A e \in Table, j \in Slots : e # d \/ j # i => dirs'[e][j] = dirs[e][j]
    BY SlotWrite, ZenonT(60)
  <1>2. ASSUME NEW e \in Table, e # d PROVE Content(e)' = Content(e)
    <2>1. \A j \in Slots : dirs'[e][j] = dirs[e][j]
      BY <1>1, <1>2
    <2>2. InUse(e)' = InUse(e)
      BY <2>1 DEF InUse
    <2> QED
      BY <2>1, <2>2 DEF Content, InUse
  <1> DEFINE Others == {dirs[d][j] : j \in InUse(d) \ {i}}
  <1>3. Content(d)' = Others \cup (IF IsEntry(v) THEN {v} ELSE {})
    <2>1. InUse(d)' = (InUse(d) \ {i}) \cup (IF IsEntry(v) THEN {i} ELSE {})
      BY <1>1 DEF InUse
    <2>2. \A j \in InUse(d) \ {i} : dirs'[d][j] = dirs[d][j]
      BY <1>1 DEF InUse
    <2>3. Content(d)' = {dirs'[d][j] : j \in InUse(d)'}
      BY DEF Content
    <2> QED
      BY <1>1, <2>1, <2>2, <2>3
  <1>4. ~IsEntry(dirs[d][i]) => Others = Content(d)
    BY DEF Content, InUse
  <1>5. IsEntry(dirs[d][i]) => Others = Content(d) \ {dirs[d][i]}
    <2> SUFFICES ASSUME IsEntry(dirs[d][i]) PROVE Others = Content(d) \ {dirs[d][i]}
      OBVIOUS
    <2>1. \A j \in InUse(d) \ {i} : dirs[d][j] # dirs[d][i]
      BY DEF InUse, OneEach
    <2> QED
      BY <2>1 DEF Content
  <1> QED
    BY <1>2, <1>3, <1>4, <1>5

\* A name that no slot answers to is absent from the listing, in its long form as well.
LEMMA AbsentName ==
    ASSUME FatInv, DirInv, NEW d \in Dirs, NEW n \in Names, \A j \in Slots : ~Answers(d, j, name_to_83[n])
    PROVE  Files!Absent(d, n)
  <1>1. Tree[d] = Content(d)
    BY TreeRead
  <1>2. n # NoName
    BY Fat32Assumption
  <1>3. ASSUME NEW j \in InUse(d) PROVE dirs[d][j].long # n /\ dirs[d][j].sfn # name_to_83[n]
    <2>1. j \in Slots /\ IsEntry(dirs[d][j]) /\ Proper(dirs[d][j])
      BY <1>3 DEF InUse, DirInv
    <2> QED
      BY <1>2, <2>1 DEF Answers, Proper
  <1> QED
    BY <1>1, <1>3 DEF Files!Absent, Files!Answers, Content

\* Which directories there are after a slot was written.
LEMMA DirsKept ==
    ASSUME DirInv, NEW d \in Dirs, NEW i \in Slots, NEW v \in SlotValues, dirs' = [dirs EXCEPT ![d][i] = v],
           v.kind = "dir" \/ dirs[d][i].kind = "dir" => v.kind = dirs[d][i].kind /\ v.start = dirs[d][i].start
    PROVE  Dirs' = Dirs
  <1>1. /\ d \in Table /\ dirs'[d][i] = v
        /\ \A e \in Table, j \in Slots : e # d \/ j # i => dirs'[e][j] = dirs[e][j]
    BY SlotWrite, ZenonT(60)
  <1>3. root_cluster \in Table
    BY TableSize
  <1>2. ASSUME NEW j \in Slots
        PROVE  /\ dirs'[root_cluster][j].kind = "dir" <=> dirs[root_cluster][j].kind = "dir"
               /\ dirs[root_cluster][j].kind = "dir" => dirs'[root_cluster][j].start = dirs[root_cluster][j].start
    BY <1>1, <1>3
  <1> QED
    BY <1>2 DEF Dirs

LEMMA RootWrite ==
    ASSUME DirInv, NEW i \in Slots, NEW v \in SlotValues, dirs' = [dirs EXCEPT ![root_cluster][i] = v]
    PROVE  /\ dirs'[root_cluster][i] = v
           /\ \A j \in Slots : j # i => dirs'[root_cluster][j] = dirs[root_cluster][j]
  <1>1. root_cluster \in Dirs
    BY DEF Dirs
  <1>2. root_cluster \in Table /\ dirs \in [Table -> [Slots -> SlotValues]]
    BY <1>1 DEF DirInv
  <1> QED
    BY <1>2

LEMMA DirsMade ==
    ASSUME DirInv, NEW i \in Slots, NEW v \in SlotValues, dirs' = [dirs EXCEPT ![root_cluster][i] = v],
           v.kind = "dir", dirs[root_cluster][i].kind # "dir"
    PROVE  Dirs' = Dirs \cup {v.start}
  <1>1. root_cluster \in Dirs
    BY DEF Dirs
  <1>2. /\ dirs'[root_cluster][i] = v
        /\ \A j \in Slots : j # i => dirs'[root_cluster][j] = dirs[root_cluster][j]
    BY RootWrite
  <1> QED
    BY <1>2 DEF Dirs

LEMMA DirsLost ==
    ASSUME DirInv, HeadInv, NEW i \in Slots, NEW v \in SlotValues, dirs' = [dirs EXCEPT ![root_cluster][i] = v],
           v.kind # "dir", dirs[root_cluster][i].kind = "dir"
    PROVE  Dirs' = Dirs \ {dirs[root_cluster][i].start}
  <1> DEFINE s == dirs[root_cluster][i].start
  <1>1. root_cluster \in Dirs
    BY DEF Dirs
  <1>2. /\ dirs'[root_cluster][i] = v
        /\ \A j \in Slots : j # i => dirs'[root_cluster][j] = dirs[root_cluster][j]
    BY RootWrite
  <1>3. s \in Dirs /\ s \in Table /\ Refers(root_cluster, i, s)
    <2>1. s \in Dirs
      BY DEF Dirs
    <2> QED
      BY <2>1 DEF DirInv, Refers, IsEntry
  <1>4. s # root_cluster
    BY <1>1, <1>3 DEF HeadInv
  <1>5. ASSUME NEW j \in Slots, j # i, dirs[root_cluster][j].kind = "dir" PROVE dirs[root_cluster][j].start # s
    BY <1>1, <1>3, <1>5 DEF HeadInv, Refers, IsEntry
  <1> QED
    BY <1>2, <1>4, <1>5 DEF Dirs

\* The steps that write to a directory.
LEMMA DirectoryWriters ==
    ASSUME Volume, [Next]_vars
    PROVE  \/ SameDirs \/ WriteEntry \/ MarkDeleted
           \/ WriteSlot /\ FreePlaces(op.d) # {}
           \/ \E d \in OpenDirs, n, m \in Names : RenameFile(d, n, m)
  <1> USE DEF disk
  <1>1. OpInv /\ DirInv
    BY DEF Volume
  <1>2. ASSUME UNCHANGED dirs PROVE SameDirs
    BY <1>1, <1>2 DEF SameDirs, DirInv
  <1>3. ASSUME op.pc \notin {"entry", "slot", "mark", "idle"} PROVE SameDirs
    BY <1>3, DirectoryStep, IdleFrame DEF Rewrites, Renames, Fills, Deletes
  <1>4. CASE Step
    <2>1. CASE WriteData \/ Extend \/ Link \/ Trim \/ TrimUnread \/ FreeClusterChain
      BY <1>3, <2>1 DEF WriteData, Extend, Link, Trim, TrimUnread, FreeClusterChain
    <2>2. CASE MakeDirCluster \/ FillDirCluster \/ GrowDir \/ AttachToDir
      BY <1>3, <2>2 DEF MakeDirCluster, FillDirCluster, GrowDir, AttachToDir
    <2>3. CASE WriteSlot /\ FreePlaces(op.d) = {}
      BY <1>2, <2>3 DEF WriteSlot
    <2> QED
      BY <1>4, <2>1, <2>2, <2>3 DEF Step
  <1>5. CASE Command
    <2>1. ASSUME NEW d, NEW n, CreateFile(d, n) \/ CreateDir(d, n) \/ DeleteFile(d, n) \/ RemoveDir(d, n) PROVE SameDirs
      BY <1>2, <2>1 DEF CreateFile, CreateDir, DeleteFile, RemoveDir, Removing
    <2> QED
      BY <1>5, <2>1, Zenon DEF Command
  <1>6. ASSUME NEW size \in Sizes, WriteFile(size) \/ AppendFile(size) PROVE SameDirs
    BY <1>2, <1>6 DEF WriteFile, AppendFile
  <1>7. ASSUME NEW d, NEW n, OpenFile(d, n) PROVE SameDirs
    BY <1>2, <1>7 DEF OpenFile
  <1>8. CASE CloseFile \/ PowerLoss \/ UNCHANGED vars
    BY <1>2, <1>8 DEF CloseFile, PowerLoss, vars
  <1> QED
    BY <1>4, <1>5, <1>6, <1>7, <1>8, Zenon DEF Next

\* The open file has the long name of its entry on disk, which claims no more than it does.
OpenSame ==
    file.open => \A i \in Slots : FirstAt(file.dir, i, file.entry.sfn) =>
                    /\ dirs[file.dir][i].long = file.entry.long
                    /\ dirs[file.dir][i].size <= file.entry.size
SameInv == Clean({"torn"}) => OpenSame

LEMMA OnlyFirst ==
    ASSUME NEW d, NEW s, NEW i \in Slots, NEW j \in Slots, FirstAt(d, i, s), FirstAt(d, j, s)
    PROVE  i = j
  <1>1. i \in Nat /\ j \in Nat /\ i >= 1 /\ j >= 1
    BY DEF Slots
  <1>2. ~(i \in 1..(j - 1)) /\ ~(j \in 1..(i - 1))
    BY DEF FirstAt
  <1> QED
    BY <1>1, <1>2

\* FAT32_WriteDirEntry is given a size that is no less.
LEMMA EntryGrows ==
    ASSUME Volume, WriteEntry
    PROVE  /\ file'.open = file.open /\ file'.dir = file.dir
           /\ file'.entry.long = file.entry.long /\ file'.entry.sfn = file.entry.sfn
           /\ file.entry.size \in Nat /\ file'.entry.size \in Nat /\ file.entry.size <= file'.entry.size
  <1>1. OpInv /\ OpenInv /\ Writing
    BY CallOf DEF Volume, WriteEntry
  <1>2. /\ file \in [open : BOOLEAN, dir : Table, entry : Entries] /\ file.entry.size \in Nat
        /\ op.written \in Nat
    BY <1>1 DEF OpInv, WritingInv, OpenInv, Frame, Entries
  <1>3. PICK z \in Nat : z = NewSize /\ file.entry.size <= z
    BY <1>2 DEF NewSize
  <1>4. file' = [file EXCEPT !.entry.size = z]
    BY <1>3 DEF WriteEntry
  <1> QED
    BY <1>2, <1>3, <1>4 DEF Entries

LEMMA OpenSameStep ==
    ASSUME Volume, OpenSame, [Next]_vars
    PROVE  OpenSame'
  <1> SUFFICES ASSUME file'.open, NEW i \in Slots, FirstAt(file.dir, i, file.entry.sfn)'
               PROVE  /\ dirs'[file'.dir][i].long = file'.entry.long
                      /\ dirs'[file'.dir][i].size <= file'.entry.size
    BY DEF OpenSame
  <1>1. FatInv /\ DirInv /\ OpInv /\ OpenInv
    BY DEF Volume
  <1>2. CASE WriteEntry
    <2>1. PICK d \in Dirs, k \in Slots, v \in Entries :
             /\ d = file.dir /\ OpenEntry(d, k) /\ v = file'.entry /\ v.sfn = file.entry.sfn
             /\ file'.open /\ file'.dir = d
             /\ IsEntry(dirs[d][k]) /\ dirs[d][k].kind = v.kind /\ dirs[d][k].sfn = v.sfn
             /\ dirs' = dirs \/ dirs' = [dirs EXCEPT ![d][k] = v]
      BY <1>2, EntryWritten
    <2>2. FirstAt(d, k, v.sfn) /\ file.open
      BY <1>2, <2>1, EntryGrows DEF OpenEntry
    <2>3. dirs[d][k].long = v.long /\ dirs[d][k].size <= v.size
      <3>1. dirs[d][k].long = file.entry.long /\ dirs[d][k].size <= file.entry.size
        BY <2>1, <2>2 DEF OpenSame
      <3>2. dirs[d][k] \in Entries
        <4>1. dirs[d][k] \in SlotValues
          BY <1>1 DEF DirInv
        <4> QED
          BY <2>1, <4>1, SlotKinds
      <3>3. dirs[d][k].size \in Nat
        BY <3>2 DEF Entries
      <3> QED
        BY <1>2, <2>1, <3>1, <3>3, EntryGrows
    <2>4. FirstAt(d, i, v.sfn)'
      BY <2>1
    <2>5. CASE dirs' = dirs
      <3>1. FirstAt(d, i, v.sfn)
        BY <2>4, <2>5 DEF FirstAt, Answers
      <3>2. i = k
        BY <2>2, <3>1, OnlyFirst
      <3> QED
        BY <2>1, <2>3, <2>5, <3>2
    <2>6. CASE dirs' = [dirs EXCEPT ![d][k] = v]
      <3>1. v \in SlotValues
        BY DEF SlotValues
      <3>2. dirs'[d][k] = v /\ \A j \in Slots : j # k => dirs'[d][j] = dirs[d][j]
        <4>1. dirs \in [Table -> [Slots -> SlotValues]] /\ d \in Table
          BY <1>1 DEF DirInv
        <4> QED
          BY <2>6, <4>1
      <3>3. FirstAt(d, i, v.sfn)
        <4>1. ASSUME NEW j \in Slots PROVE Answers(d, j, v.sfn) <=> IsEntry(dirs'[d][j]) /\ dirs'[d][j].sfn = v.sfn
          BY <2>1, <3>1, <3>2, SlotKinds DEF Answers, IsEntry
        <4>2. 1..(i - 1) \subseteq Slots
          BY Fat32Assumption DEF Slots
        <4> QED
          BY <2>4, <4>1, <4>2 DEF FirstAt, Answers
      <3>4. i = k
        BY <2>2, <3>3, OnlyFirst
      <3>5. v.size <= v.size
        BY DEF Entries
      <3> QED
        BY <2>1, <3>2, <3>4, <3>5
    <2> QED
      BY <2>1, <2>5, <2>6
  <1>3. ASSUME file.open, file'.dir = file.dir, file'.entry.sfn = file.entry.sfn, file'.entry.long = file.entry.long,
               file'.entry.size = file.entry.size, SameDirs
        PROVE  /\ dirs'[file'.dir][i].long = file'.entry.long
               /\ dirs'[file'.dir][i].size <= file'.entry.size
    <2>1. PICK d \in Dirs : d = file.dir
      BY <1>1, <1>3 DEF OpenInv
    <2>2. dirs'[d] = dirs[d]
      BY <1>3 DEF SameDirs
    <2>3. FirstAt(d, i, file.entry.sfn)
      BY <1>3, <2>1, <2>2 DEF FirstAt, Answers
    <2> QED
      BY <1>3, <2>1, <2>2, <2>3 DEF OpenSame
  <1>4. CASE UNCHANGED file /\ ~WriteEntry
    <2>1. ~Creating /\ ~Removal
      BY <1>1, <1>4 DEF OpInv, CreatingInv, RemovalInv
    <2>2. ~MarkDeleted /\ ~WriteSlot
      BY <1>1, <2>1, CallOf DEF MarkDeleted, WriteSlot
    <2>3. SameDirs
      BY <1>4, <2>2, DirectoryWriters DEF RenameFile
    <2> QED
      BY <1>3, <1>4, <2>3
  <1>5. CASE FirstCluster
    <2>1. PICK c : file' = [file EXCEPT !.entry.start = c]
      BY <1>5 DEF FirstCluster
    <2>2. file \in [open : BOOLEAN, dir : Table, entry : Entries] /\ UNCHANGED dirs /\ file.open
      BY <1>1, <1>5 DEF OpenInv, FirstCluster
    <2>3. /\ file'.dir = file.dir /\ file'.entry.sfn = file.entry.sfn /\ file'.entry.long = file.entry.long
          /\ file'.entry.size = file.entry.size
      BY <2>1, <2>2 DEF Entries
    <2>4. SameDirs
      BY <1>1, <2>2 DEF SameDirs, DirInv
    <2> QED
      BY <1>3, <2>2, <2>3, <2>4
  <1>6. ASSUME NEW d \in Dirs, NEW n \in Names, OpenFile(d, n)
        PROVE  /\ dirs'[file'.dir][i].long = file'.entry.long
               /\ dirs'[file'.dir][i].size <= file'.entry.size
    <2>1. Found(d, n) /\ file' = [open |-> TRUE, dir |-> d, entry |-> FAT32_FindEntryAny(d, n)] /\ UNCHANGED dirs
      BY <1>6 DEF OpenFile, disk
    <2>2. PICK k \in Slots : FirstAt(d, k, name_to_83[n]) /\ FAT32_FindEntryAny(d, n) = dirs[d][k]
      BY <1>1, <2>1, Lookup
    <2>3. file'.dir = d /\ file'.entry = dirs[d][k] /\ IsEntry(dirs[d][k]) /\ dirs[d][k].sfn = name_to_83[n]
      BY <2>1, <2>2 DEF FirstAt, Answers
    <2>4. FirstAt(d, i, name_to_83[n])
      BY <2>1, <2>3 DEF FirstAt, Answers
    <2>5. i = k
      BY <2>2, <2>4, OnlyFirst
    <2>6. dirs[d][k].size \in Nat
      <3>1. dirs[d][k] \in SlotValues
        BY <1>1 DEF DirInv
      <3> QED
        BY <2>3, <3>1, SlotKinds DEF Entries
    <2>7. dirs[d][k].size <= dirs[d][k].size
      BY <2>6
    <2> QED
      BY <2>1, <2>3, <2>5, <2>7
  <1> QED
    BY <1>2, <1>4, <1>5, <1>6, FileStep

LEMMA InitSame == Init => SameInv
  BY DEF Init, Closed, SameInv, OpenSame

LEMMA NextSame == VolumeInv /\ SameInv /\ [Next]_vars => SameInv'
  BY MishapStays, OpenSameStep DEF VolumeInv, SameInv, Clean

\* The call under way is the one that was asked for until it ends.
LEMMA CallKept ==
    ASSUME Volume, [Next]_vars
    PROVE  op.call = "none" \/ op'.call = "none" \/ SameTarget
  <1>1. OpInv /\ op \in Frame
    BY DEF Volume, OpInv
  <1>2. ASSUME op' = Idle \/ op' = [Idle EXCEPT !.pc = "hung"] PROVE op'.call = "none"
    BY <1>2, SMT DEF Idle
  <1>3. op = Idle => op.call = "none"
    BY SMT DEF Idle
  <1>4. CASE Step
    <2>1. CASE WriteData
      <3>1. WriteRound.call = op.call /\ WriteRound.d = op.d /\ WriteRound.n = op.n
        BY <1>1 DEF WriteRound, Frame
      <3> QED
        BY <1>2, <2>1, <3>1 DEF WriteData, SameTarget
    <2>2. CASE Extend \/ Link
      <3> DEFINE y == [op EXCEPT !.pc = "link", !.next = Picked]
                 z == [op EXCEPT !.pc = "data", !.cluster = op.next, !.next = 0, !.offset = 0]
      <3>1. y.call = op.call /\ y.d = op.d /\ y.n = op.n /\ z.call = op.call /\ z.d = op.d /\ z.n = op.n
        BY <1>1 DEF Frame
      <3>2. op' = Idle \/ op' = [Idle EXCEPT !.pc = "hung"] \/ op' = y \/ op' = z
        BY <2>2 DEF Extend, Link, NoCluster, Return
      <3> QED
        BY <1>2, <3>1, <3>2 DEF SameTarget
    <2>3. CASE Trim \/ TrimUnread
      <3> DEFINE y == [op EXCEPT !.pc = "free", !.next = fat[op.cluster]]
                 z == [op EXCEPT !.pc = "entry"]
      <3>1. y.call = op.call /\ y.d = op.d /\ y.n = op.n /\ z.call = op.call /\ z.d = op.d /\ z.n = op.n
        BY <1>1 DEF Frame
      <3>2. op' = y \/ op' = z
        BY <2>3 DEF Trim, TrimUnread
      <3> QED
        BY <3>1, <3>2 DEF SameTarget
    <2>4. CASE FreeClusterChain
      <3> DEFINE y == [op EXCEPT !.pc = After, !.next = 0]
                 z == [op EXCEPT !.next = NextToFree]
      <3>1. y.call = op.call /\ y.d = op.d /\ y.n = op.n /\ z.call = op.call /\ z.d = op.d /\ z.n = op.n
        BY <1>1 DEF Frame
      <3>2. op' = Idle \/ op' = y \/ op' = z
        BY <2>4 DEF FreeClusterChain
      <3> QED
        BY <1>2, <3>1, <3>2 DEF SameTarget
    <2>5. CASE MakeDirCluster \/ GrowDir
      <3> DEFINE y == [op EXCEPT !.pc = "fill", !.cluster = Picked]
                 z == [op EXCEPT !.pc = "attach", !.next = Picked]
      <3>1. y.call = op.call /\ y.d = op.d /\ y.n = op.n /\ z.call = op.call /\ z.d = op.d /\ z.n = op.n
        BY <1>1 DEF Frame
      <3>2. op' = Idle \/ op' = [Idle EXCEPT !.pc = "hung"] \/ op' = y \/ op' = z
        BY <2>5 DEF MakeDirCluster, GrowDir, NoCluster, Return
      <3> QED
        BY <1>2, <3>1, <3>2 DEF SameTarget
    <2>6. CASE FillDirCluster \/ WriteSlot
      <3> DEFINE y == [op EXCEPT !.pc = "slot"]
                 z == [op EXCEPT !.pc = "grow"]
      <3>1. y.call = op.call /\ y.d = op.d /\ y.n = op.n /\ z.call = op.call /\ z.d = op.d /\ z.n = op.n
        BY <1>1 DEF Frame
      <3>2. op' = Idle \/ op' = y \/ op' = z
        BY <2>6 DEF FillDirCluster, WriteSlot
      <3> QED
        BY <1>2, <3>1, <3>2 DEF SameTarget
    <2>7. CASE WriteEntry \/ MarkDeleted \/ AttachToDir
      BY <1>2, <2>7 DEF WriteEntry, MarkDeleted, AttachToDir, Return
    <2> QED
      BY <1>4, <2>1, <2>2, <2>3, <2>4, <2>5, <2>6, <2>7 DEF Step
  <1>5. CASE op = Idle \/ PowerLoss
    BY <1>2, <1>3, <1>5 DEF PowerLoss
  <1>6. CASE UNCHANGED vars
    BY <1>6 DEF vars, SameTarget
  <1> QED
    BY <1>4, <1>5, <1>6 DEF Next, CloseFile

LEMMA UnderWayIs ==
    /\ UnderWay.name = op.call /\ UnderWay.d = op.d /\ UnderWay.n = op.n
    /\ UnderWay'.name = op'.call
    /\ SameTarget => UnderWay' = UnderWay
  BY DEF UnderWay, SameTarget

\* The open file stays open, under its 8.3 name, until it is closed.
LEMMA OpenedKept ==
    ASSUME Volume, [Next]_vars
    PROVE  \/ Opened' = Opened
           \/ Opened' = <<>> /\ op' = Idle
           \/ \E d \in Dirs, n \in Names : OpenFile(d, n)
  <1>1. CASE UNCHANGED file
    BY <1>1 DEF Opened
  <1>2. CASE ~file'.open /\ op' = Idle
    BY <1>2 DEF Opened
  <1>3. CASE WriteEntry
    BY <1>3, EntryGrows DEF Opened
  <1>4. CASE FirstCluster
    <2>1. PICK c : file' = [file EXCEPT !.entry.start = c]
      BY <1>4 DEF FirstCluster
    <2>2. file \in [open : BOOLEAN, dir : Table, entry : Entries]
      BY <1>4 DEF FirstCluster, Volume, OpenInv
    <2>3. file'.open = file.open /\ file'.dir = file.dir /\ file'.entry.sfn = file.entry.sfn
      BY <2>1, <2>2 DEF Entries
    <2> QED
      BY <2>3 DEF Opened
  <1> QED
    BY <1>1, <1>2, <1>3, <1>4, FileStep

\* A step that changes nothing a listing shows.
LEMMA QuietStep ==
    ASSUME Volume, [Next]_vars, Tree' = Tree,
           ~Clean({"torn", "misread"}) => ~Clean({"torn", "misread"})'
    PROVE  Files!Next
  <1>1. Idle.call = "none"
    BY SMT DEF Idle
  <1>2. CASE Opened' = Opened
    <2>1. Files!Ask \/ Files!Work \/ Files!GiveUp
      BY <1>2, CallKept, UnderWayIs DEF Files!Ask, Files!Work, Files!GiveUp
    <2> QED
      BY <2>1, Zenon DEF Files!Next
  <1>3. CASE Opened' = <<>> /\ op' = Idle
    <2>1. Files!Close
      BY <1>1, <1>3, UnderWayIs DEF Files!Close
    <2> QED
      BY <2>1, Zenon DEF Files!Next
  <1>4. ASSUME NEW d \in Dirs, NEW n \in Names, OpenFile(d, n) PROVE Files!Next
    <2>1. Found(d, n) /\ file' = [open |-> TRUE, dir |-> d, entry |-> FAT32_FindEntryAny(d, n)]
          /\ ~file.open /\ op = Idle /\ op' = op
      BY <1>4 DEF OpenFile, Ready
    <2>2. FatInv /\ DirInv
      BY DEF Volume
    <2>3. PICK k \in Slots : FirstAt(d, k, name_to_83[n]) /\ FAT32_FindEntryAny(d, n) = dirs[d][k]
      BY <2>1, <2>2, Lookup
    <2>4. PICK e : e = dirs[d][k] /\ e \in Content(d)
      BY <2>3, EntryInContent DEF FirstAt, Answers
    <2>5. Tree = [c \in Dirs |-> Content(c)]
      BY <2>2, TreeRead
    <2>6. d \in DOMAIN Tree /\ e \in Tree[d]
      <3> HIDE DEF Tree, Content
      <3> QED
        BY <2>4, <2>5
    <2>7. Opened = <<>> /\ Opened' = <<d, e.sfn>>
      BY <2>1, <2>3, <2>4 DEF Opened
    <2>8. Files!Open(d, e)
      BY <1>1, <2>1, <2>7, UnderWayIs DEF Files!Open, UnderWay
    <2> QED
      BY <2>6, <2>8, Zenon DEF Files!Next
  <1> QED
    BY <1>2, <1>3, <1>4, OpenedKept

LEMMA LastStep ==
    ASSUME op' = Idle, Opened' = Opened
    PROVE  Files!Done(op.call)
  <1>1. Idle.call = "none"
    BY SMT DEF Idle
  <1> QED
    BY <1>1, UnderWayIs DEF Files!Done

NewEmpty == \A i \in Slots : ~IsEntry(NewDir[i])
LEMMA NewIsEmpty == NewEmpty
  BY SMT DEF NewEmpty, NewDir, Blank, Slots, Dots, End, IsEntry

\* What the tree becomes when a directory's entry is replaced,
LEMMA TreeReplaced ==
    ASSUME Volume, NamesApart, [Next]_vars, "torn" \notin mishap,
           NEW d \in Dirs, NEW i \in Slots, NEW v \in Entries, dirs' = [dirs EXCEPT ![d][i] = v],
           IsEntry(dirs[d][i]), v.kind = dirs[d][i].kind, v.kind = "dir" => v.start = dirs[d][i].start
    PROVE  /\ d \in DOMAIN Tree /\ dirs[d][i] \in Tree[d] /\ v \in Tree'[d]
           /\ Tree' = Files!Replaced(d, dirs[d][i], v)
  <1>1. FatInv /\ DirInv /\ FatInv' /\ DirInv' /\ OneEach(d)
    BY TablesStay DEF Volume, NamesApart
  <1>2. v \in SlotValues
    BY DEF SlotValues
  <1>3. Dirs' = Dirs
    BY <1>1, <1>2, DirsKept
  <1>4. IsEntry(v)
    BY <1>2, SlotKinds
  <1>5. /\ \A e \in Table : e # d => Content(e)' = Content(e)
        /\ Content(d)' = (Content(d) \ {dirs[d][i]}) \cup {v}
    BY <1>1, <1>2, <1>4, ContentAfter
  <1>6. Tree = [e \in Dirs |-> Content(e)] /\ Tree' = [e \in Dirs |-> Content(e)']
    BY <1>1, <1>3, TreeRead, TreeReadNext
  <1>7. Dirs \subseteq Table
    BY <1>1 DEF DirInv
  <1>8. dirs[d][i] \in Content(d)
    BY EntryInContent
  <1> HIDE DEF Content, Tree
  <1> QED
    BY <1>5, <1>6, <1>7, <1>8 DEF Files!Replaced

\* or not written to at all.
LEMMA TreeStays ==
    ASSUME Volume, [Next]_vars, "torn" \notin mishap, SameDirs
    PROVE  Tree' = Tree
  <1>1. FatInv /\ DirInv /\ FatInv' /\ DirInv'
    BY TablesStay DEF Volume
  <1>2. Dirs' = Dirs
    BY <1>1, DirsStay
  <1>3. ASSUME NEW d \in Dirs PROVE Content(d)' = Content(d)
    BY <1>3 DEF SameDirs, Content, InUse
  <1> QED
    BY <1>1, <1>2, <1>3, TreeRead, TreeReadNext

LEMMA AllSame ==
    ASSUME Volume, [Next]_vars, "torn" \notin mishap, dirs' = dirs
    PROVE  Tree' = Tree
  BY TreeStays DEF SameDirs, Volume, DirInv

LEMMA SameRecord ==
    ASSUME NEW e \in Entries, NEW v \in Entries, v.kind = e.kind, v.sfn = e.sfn, v.long = e.long
    PROVE  v = [e EXCEPT !.start = v.start, !.size = v.size]
  BY DEF Entries

\* FAT32_WriteDirEntry is Write.
LEMMA WriteIsWrite ==
    ASSUME Volume, NamesApart, OpenSame, [Next]_vars, "torn" \notin mishap, WriteEntry
    PROVE  Tree' = Tree \/ \E d \in DOMAIN Tree : \E e \in Tree[d] : Files!Write(d, e)
  <1>1. PICK d \in Dirs, i \in Slots, v \in Entries :
             /\ d = file.dir /\ OpenEntry(d, i) /\ v = file'.entry /\ v.kind = "file" /\ v.sfn = file.entry.sfn
             /\ IsEntry(dirs[d][i]) /\ dirs[d][i].kind = v.kind /\ dirs[d][i].sfn = v.sfn
             /\ dirs[d][i].start \in {0, v.start}
             /\ dirs' = dirs \/ dirs' = [dirs EXCEPT ![d][i] = v]
    BY EntryWritten
  <1>2. PICK e \in Entries : e = dirs[d][i]
    <2>1. dirs[d][i] \in SlotValues
      BY DEF Volume, DirInv
    <2> QED
      BY <1>1, <2>1, SlotKinds
  <1>3. e.long = v.long /\ e.size <= v.size
    <2>1. FirstAt(file.dir, i, file.entry.sfn) /\ file'.open
      BY <1>1, EntryWritten DEF OpenEntry
    <2>2. e.long = file.entry.long /\ e.size <= file.entry.size
      BY <1>1, <1>2, <2>1, EntryGrows DEF OpenSame
    <2>3. e.size \in Nat
      BY DEF Entries
    <2> QED
      BY <1>1, <2>2, <2>3, EntryGrows
  <1>4. CASE dirs' = [dirs EXCEPT ![d][i] = v]
    <2>1. d \in DOMAIN Tree /\ e \in Tree[d] /\ v \in Tree'[d] /\ Tree' = Files!Replaced(d, e, v)
      BY <1>1, <1>2, <1>4, TreeReplaced
    <2>2. v = [e EXCEPT !.start = v.start, !.size = v.size]
      <3>1. v.kind = e.kind /\ v.sfn = e.sfn
        BY <1>1, <1>2
      <3>2. v.long = e.long
        BY <1>3
      <3> QED
        BY <3>1, <3>2, SameRecord, Zenon
    <2>3. Opened = <<d, e.sfn>> /\ Opened' = Opened
      BY <1>1, <1>2, EntryWritten, EntryGrows DEF Opened
    <2>4. Files!Done("write") \/ Files!Done("append")
      <3>1. op.call \in {"write", "append"} /\ op' = Idle
        BY CallOf DEF WriteEntry, Volume, Writing
      <3> QED
        BY <2>3, <3>1, LastStep
    <2>5. e.kind = "file"
      BY <1>1, <1>2
    <2>6. Files!Write(d, e)
      BY <1>1, <1>2, <1>3, <2>1, <2>2, <2>3, <2>4, <2>5, Zenon DEF Files!Write
    <2> QED
      BY <2>1, <2>6
  <1> QED
    BY <1>1, <1>4, AllSame

\* A new entry in a slot is CreateFile or CreateDir.
LEMMA SlotIsCreation ==
    ASSUME Volume, NamesApart, NewName, [Next]_vars, "torn" \notin mishap, WriteSlot, FreePlaces(op.d) # {}
    PROVE  \/ Tree' = Tree
           \/ Files!CreateFile
           \/ \E place \in Table : Files!CreateDir(place)
  <1>1. PICK d \in Dirs, i \in Slots, v \in Entries :
             /\ d = op.d /\ Usable(dirs[d][i]) /\ v = NewEntry /\ v.start = op.cluster
             /\ v.kind = "dir" => d = root_cluster /\ Loose(v.start) /\ dirs[v.start] = NewDir
             /\ dirs' = dirs \/ dirs' = [dirs EXCEPT ![d][i] = v]
    BY SlotWritten
  <1>2. FatInv /\ DirInv /\ FatInv' /\ DirInv' /\ OneEach(d) /\ Dirs \subseteq Table
    BY TablesStay DEF Volume, NamesApart, DirInv
  <1>3. Creating
    BY CallOf DEF WriteSlot, Volume
  <1>4. op.n \in Names /\ (op.call = "create" => op.cluster = 0)
    BY <1>3 DEF Volume, OpInv, CreatingInv
  <1>5. Files!Absent(d, op.n)
    BY <1>1, <1>2, <1>3, <1>4, AbsentName DEF NewName
  <1>6. v \in SlotValues /\ IsEntry(v) /\ ~IsEntry(dirs[d][i]) /\ dirs[d][i].kind # "dir"
    <2>1. v \in SlotValues /\ dirs[d][i] \in SlotValues
      BY <1>2 DEF SlotValues, DirInv
    <2>2. IsEntry(v) /\ ~IsEntry(dirs[d][i])
      BY <1>1, <2>1, SlotKinds
    <2> QED
      BY <2>1, <2>2 DEF IsEntry
  <1>7. Tree = [e \in Dirs |-> Content(e)] /\ Tree' = [e \in Dirs' |-> Content(e)']
    BY <1>2, TreeRead, TreeReadNext
  <1>9. Files!Done(op.call) /\ UnderWay.d = d /\ UnderWay.n = op.n
    BY <1>1, LastStep, UnderWayIs DEF WriteSlot, Opened
  <1>8. CASE dirs' = [dirs EXCEPT ![d][i] = v]
    <2>1. /\ \A e \in Table : e # d => Content(e)' = Content(e)
          /\ Content(d)' = Content(d) \cup {v}
      BY <1>2, <1>6, <1>8, ContentAfter
    <2>2. CASE op.call = "create"
      <3>1. v = Files!New("file", op.n, 0)
        BY <1>1, <1>4, <2>2 DEF Files!New, NewEntry
      <3>2. v.kind # "dir"
        BY <1>1, <2>2 DEF NewEntry
      <3>3. Dirs' = Dirs
        BY <1>2, <1>6, <1>8, <3>2, DirsKept
      <3>4. Tree' = [Tree EXCEPT ![d] = @ \cup {Files!New("file", op.n, 0)}]
        <4> HIDE DEF Tree, Content
        <4> QED
          BY <1>2, <1>7, <2>1, <3>1, <3>3
      <3> QED
        BY <1>5, <1>9, <2>2, <3>4, Zenon DEF Files!CreateFile
    <2>3. CASE op.call = "mkdir"
      <3>1. v = Files!New("dir", op.n, op.cluster) /\ v.kind = "dir"
        BY <1>1, <2>3 DEF Files!New, NewEntry
      <3>2. d = root_cluster /\ Loose(op.cluster) /\ dirs[op.cluster] = NewDir
        BY <1>1, <3>1
      <3>3. PICK place \in Table : place = op.cluster /\ place \notin Dirs /\ place # d
        BY <3>2, LooseNoDir
      <3>4. Dirs' = Dirs \cup {place}
        BY <1>1, <1>2, <1>6, <1>8, <3>1, <3>2, <3>3, DirsMade
      <3>5. Content(place)' = {}
        <4>1. dirs'[place] = NewDir
          BY <1>2, <1>8, <3>2, <3>3 DEF DirInv
        <4> QED
          BY <4>1, NewIsEmpty DEF Content, InUse, NewEmpty
      <3>6. place \notin DOMAIN Tree
        BY <1>7, <3>3
      <3>7. Tree' = [e \in DOMAIN Tree \cup {place} |->
                       CASE e = place -> {}
                         [] e = root_cluster -> Tree[root_cluster] \cup {Files!New("dir", UnderWay.n, place)}
                         [] OTHER -> Tree[e]]
        <4> HIDE DEF Tree, Content
        <4>1. ASSUME NEW e \in Dirs PROVE Tree'[e] = IF e = root_cluster THEN Tree[e] \cup {v} ELSE Tree[e]
          BY <1>2, <1>7, <2>1, <3>2, <3>4
        <4>2. Tree'[place] = {}
          BY <1>7, <3>4, <3>5
        <4>3. DOMAIN Tree = Dirs /\ DOMAIN Tree' = Dirs \cup {place} /\ Tree' = [e \in DOMAIN Tree' |-> Tree'[e]]
          BY <1>7, <3>4
        <4> QED
          BY <1>9, <3>1, <3>2, <3>3, <4>1, <4>2, <4>3
      <3>8. Files!Absent(root_cluster, UnderWay.n) /\ Files!Done("mkdir")
        BY <1>5, <1>9, <2>3, <3>2
      <3> QED
        BY <3>6, <3>7, <3>8, Zenon DEF Files!CreateDir
    <2> QED
      BY <1>3, <2>2, <2>3 DEF Creating
  <1> QED
    BY <1>1, <1>8, AllSame

\* Marking an entry is DeleteFile or RemoveDir.
LEMMA MarkIsRemoval ==
    ASSUME Volume, NamesApart, EmptyTarget, [Next]_vars, "torn" \notin mishap, MarkDeleted
    PROVE  \/ Tree' = Tree
           \/ \E e \in Tree[UnderWay.d] : Files!DeleteFile(e)
           \/ \E e \in Tree[root_cluster] : Files!RemoveDir(e)
  <1>1. PICK d \in Dirs, i \in Slots :
             /\ d = op.d /\ IsEntry(dirs[d][i]) /\ Removal /\ FirstAt(d, i, name_to_83[op.n])
             /\ dirs' = [dirs EXCEPT ![d][i] = Deleted] \/ dirs' = dirs
    BY MarkWritten
  <1>2. FatInv /\ DirInv /\ HeadInv /\ FatInv' /\ DirInv' /\ OneEach(d) /\ Dirs \subseteq Table
    BY TablesStay DEF Volume, NamesApart, DirInv
  <1>3. Deleted \in SlotValues /\ ~IsEntry(Deleted) /\ Deleted.kind # "dir"
    BY SMT DEF SlotValues, Deleted, IsEntry
  <1>4. Tree = [e \in Dirs |-> Content(e)] /\ Tree' = [e \in Dirs' |-> Content(e)']
    BY <1>2, TreeRead, TreeReadNext
  <1>5. PICK e : e = dirs[d][i]
    OBVIOUS
  <1>6. e \in Tree[d] /\ d \in DOMAIN Tree
    BY SMTT(30), <1>1, <1>4, <1>5, EntryInContent
  <1>8. Files!Done(op.call) /\ UnderWay.d = d /\ UnderWay.n = op.n
    BY <1>1, LastStep, UnderWayIs DEF MarkDeleted, Opened
  <1>9. Files!Answers(e, op.n)
    BY <1>1, <1>5 DEF Files!Answers, FirstAt, Answers
  <1>10. op.call \in {"delete", "rmdir"} /\ (op.call = "delete" <=> e.kind = "file")
    BY <1>1, <1>5 DEF Removal, EmptyTarget
  <1>7. CASE dirs' = [dirs EXCEPT ![d][i] = Deleted]
    <2>1. /\ \A c \in Table : c # d => Content(c)' = Content(c)
          /\ Content(d)' = Content(d) \ {e}
      BY <1>1, <1>2, <1>3, <1>5, <1>7, ContentAfter
    <2>2. CASE e.kind = "file"
      <3>1. Dirs' = Dirs
        BY <1>2, <1>3, <1>5, <1>7, <2>2, DirsKept
      <3>2. Tree' = [Tree EXCEPT ![d] = @ \ {e}]
        <4> HIDE DEF Tree, Content
        <4> QED
          BY <1>2, <1>4, <2>1, <3>1
      <3> QED
        BY <1>6, <1>8, <1>9, <1>10, <2>2, <3>2, Zenon DEF Files!DeleteFile
    <2>3. CASE e.kind = "dir"
      <3>1. d = root_cluster
        BY <1>1, <1>2, <1>5, <2>3 DEF DirInv
      <3>2. PICK gone \in Dirs : gone = e.start
        BY <1>5, <2>3, <3>1 DEF Dirs
      <3>3. Tree[gone] = {}
        <4>1. \A j \in Slots : ~IsEntry(dirs[gone][j])
          BY <1>1, <1>5, <2>3, <3>2 DEF EmptyTarget
        <4> QED
          BY <1>4, <4>1 DEF Content, InUse
      <3>4. Dirs' = Dirs \ {gone}
        BY <1>2, <1>3, <1>5, <1>7, <2>3, <3>1, <3>2, DirsLost
      <3>5. Tree' = [c \in DOMAIN Tree \ {gone} |-> IF c = root_cluster THEN Tree[root_cluster] \ {e} ELSE Tree[c]]
        <4> HIDE DEF Tree, Content
        <4> QED
          BY <1>2, <1>4, <2>1, <3>1, <3>4
      <3>6. op.call = "rmdir"
        BY <1>10, <2>3
      <3> QED
        BY <1>6, <1>8, <1>9, <2>3, <3>1, <3>2, <3>3, <3>5, <3>6, Zenon DEF Files!RemoveDir
    <2> QED
      BY <1>1, <1>5, <2>2, <2>3 DEF IsEntry
  <1> QED
    BY <1>1, <1>7, AllSame

\* Renaming is Rename.
LEMMA RenameIsRename ==
    ASSUME Volume, NamesApart, [Next]_vars, "torn" \notin mishap,
           NEW d \in Dirs, NEW n \in Names, NEW m \in Names, RenameFile(d, n, m)
    PROVE  Tree' = Tree \/ \E e \in Tree[d] : d \in DOMAIN Tree /\ Files!Rename(d, e, n, m)
  <1>1. PICK i \in Slots, v \in Entries :
             /\ v.sfn = name_to_83[m] /\ v.long \in {m, NoName} /\ dirs[d][i].sfn = name_to_83[n]
             /\ IsEntry(dirs[d][i]) /\ dirs[d][i].kind = v.kind /\ dirs[d][i].start = v.start /\ dirs[d][i].size = v.size
             /\ dirs' = dirs \/ dirs' = [dirs EXCEPT ![d][i] = v]
    BY NameWritten
  <1>2. FatInv /\ DirInv
    BY DEF Volume
  <1>3. Files!Absent(d, m) \/ ~Clean({"torn", "misread"})'
    <2>1. CASE Found(d, m)
      BY <2>1 DEF RenameFile, NoteMisread, Clean
    <2>2. CASE ~Found(d, m)
      BY <1>2, <2>2, NotFound, AbsentName
    <2> QED
      BY <2>1, <2>2
  <1>4. PICK e \in Entries : e = dirs[d][i]
    <2>1. dirs[d][i] \in SlotValues
      BY <1>2 DEF DirInv
    <2> QED
      BY <1>1, <2>1, SlotKinds
  <1>5. CASE dirs' = [dirs EXCEPT ![d][i] = v]
    <2>1. d \in DOMAIN Tree /\ e \in Tree[d] /\ Tree' = Files!Replaced(d, e, v)
      BY <1>1, <1>4, <1>5, TreeReplaced
    <2>2. v = [e EXCEPT !.long = v.long, !.sfn = name_to_83[m]]
      <3>1. e.kind = v.kind /\ e.start = v.start /\ e.size = v.size
        BY <1>1, <1>4
      <3> QED
        BY <1>1, <3>1 DEF Entries
    <2>3. Files!Done("none")
      <3>1. op = Idle /\ op' = Idle /\ Opened' = Opened /\ Idle.call = "none"
        BY SMT DEF RenameFile, Ready, Opened, Idle
      <3> QED
        BY <3>1, LastStep
    <2>4. Files!Answers(e, n)
      BY <1>1, <1>4 DEF Files!Answers
    <2>5. Files!Rename(d, e, n, m)
      BY <1>1, <1>3, <2>1, <2>2, <2>3, <2>4, Zenon DEF Files!Rename
    <2> QED
      BY <2>1, <2>5
  <1> QED
    BY <1>1, <1>5, AllSame

LEMMA FilesStep ==
    ASSUME Volume, NamesApart, NewName, EmptyTarget, OpenSame, Clean({"torn", "misread"}), [Next]_vars
    PROVE  Files!Next
  <1>1. ~Clean({"torn", "misread"}) => ~Clean({"torn", "misread"})'
    BY MishapStays DEF Clean
  <1>2. "torn" \notin mishap
    BY DEF Clean
  <1>3. OpenDirs \subseteq Dirs
    BY DirsNamed DEF Volume
  <1>4. ASSUME Tree' = Tree PROVE Files!Next
    BY <1>1, <1>4, QuietStep
  <1>5. CASE SameDirs
    BY <1>2, <1>4, <1>5, TreeStays
  <1>6. CASE WriteEntry
    <2>1. Tree' = Tree \/ \E d \in DOMAIN Tree : \E e \in Tree[d] : Files!Write(d, e)
      BY <1>2, <1>6, WriteIsWrite
    <2> QED
      BY <1>1, <1>4, <2>1, Zenon DEF Files!Next
  <1>7. CASE MarkDeleted
    <2>1. \/ Tree' = Tree
          \/ \E e \in Tree[UnderWay.d] : Files!DeleteFile(e)
          \/ \E e \in Tree[root_cluster] : Files!RemoveDir(e)
      BY <1>2, <1>7, MarkIsRemoval
    <2> QED
      BY <1>1, <1>4, <2>1, Zenon DEF Files!Next
  <1>8. CASE WriteSlot /\ FreePlaces(op.d) # {}
    <2>1. Tree' = Tree \/ Files!CreateFile \/ \E place \in Table : Files!CreateDir(place)
      BY <1>2, <1>8, SlotIsCreation
    <2> QED
      BY <1>1, <1>4, <2>1, Zenon DEF Files!Next
  <1>9. ASSUME NEW d \in OpenDirs, NEW n \in Names, NEW m \in Names, RenameFile(d, n, m) PROVE Files!Next
    <2>1. d \in Dirs
      BY <1>3
    <2>2. Tree' = Tree \/ \E e \in Tree[d] : d \in DOMAIN Tree /\ Files!Rename(d, e, n, m)
      BY <1>2, <1>9, <2>1, RenameIsRename
    <2> QED
      BY <1>1, <1>4, <2>2, Zenon DEF Files!Next
  <1> QED
    BY <1>5, <1>6, <1>7, <1>8, <1>9, DirectoryWriters, Zenon

\* FAT32 keeps the promise of a file system, for every volume, every set of names and every
\* sequence of calls: each write of the driver to a directory is all that the call under way
\* was asked for, on the entry it was asked for, done in the last step of the call; every
\* other step - on the table, on a new directory's cluster, of a removal that has not marked
\* its entry yet - changes nothing that a listing shows, so a disk error or a power loss
\* leaves the tree as it was before the call or as it is after it.  It is so until a removal
\* is cut short with its chain half free, or FAT32_FindEntryAny fails on a name and the caller
\* takes it for a new one.
THEOREM FileSystemKept == Spec => ImplementsFiles
  <1>1. Init => Files!Init
    <2> SUFFICES ASSUME Init PROVE Files!Init
      OBVIOUS
    <2>1. FatInv /\ DirInv /\ Clean({"torn", "misread"})
      BY InitVolume DEF VolumeInv, Volume, Clean, Init
    <2>2. \A d \in Table, i \in Slots : dirs[d][i] = End
      BY DEF Init, Blank, Slots
    <2>3. ~IsEntry(End) /\ End.kind # "dir" /\ root_cluster \in Table
      BY TableSize, SMT DEF End, IsEntry
    <2>4. Dirs = {root_cluster}
      BY <2>2, <2>3 DEF Dirs
    <2>5. Content(root_cluster) = {}
      BY <2>2, <2>3 DEF Content, InUse
    <2>6. Tree = [d \in {root_cluster} |-> {}]
      BY <2>1, <2>4, <2>5, TreeRead
    <2>7. UnderWay = Files!NoCall /\ Opened = <<>>
      BY SMT DEF Init, UnderWay, Files!NoCall, Opened, Idle, Closed
    <2> QED
      BY <2>1, <2>6, <2>7 DEF Files!Init
  <1>2. VolumeInv /\ NamesInv /\ EmptyInv /\ SameInv /\ [Next]_vars
          => [Files!Next]_<<Tree, UnderWay, Opened, ~Clean({"torn", "misread"})>>
    <2> SUFFICES ASSUME VolumeInv, NamesInv, EmptyInv, SameInv, [Next]_vars PROVE Files!Next
      OBVIOUS
    <2>1. CASE Clean({"torn", "misread"})
      BY <2>1, FilesStep DEF VolumeInv, NamesInv, EmptyInv, SameInv, Clean
    <2>2. CASE ~Clean({"torn", "misread"})
      <3>1. ~Clean({"torn", "misread"})'
        BY <2>2, MishapStays DEF Clean
      <3> QED
        BY <2>2, <3>1 DEF Files!Next
    <2> QED
      BY <2>1, <2>2
  <1> QED
    BY <1>1, <1>2, InitNames, NextNames, InitEmpty, NextEmpty, InitSame, NextSame, VolumeInvariant, PTL
       DEF Spec, ImplementsFiles, Files!Spec
=============================================================================
