-------------------------- MODULE BufferPoolProofs --------------------------
(***************************************************************************)
(* Proofs about BufferPool, for any number of frames and pages.            *)
(***************************************************************************)
EXTENDS BufferPool, FiniteSetTheorems, SequenceTheorems, WellFoundedInduction,
        TLAPS

-----------------------------------------------------------------------------
(***************************************************************************)
(* Sequences without repetitions: the free frames and the free pages.      *)
(***************************************************************************)
(* A sequence that grows at the end by an element that it does not have.   *)
LEMMA AppendFresh ==
  ASSUME NEW S, NEW s \in Seq(S), IsInjective(s), NEW x \in S \ ToSet(s)
  PROVE  /\ Append(s, x) \in Seq(S)
         /\ IsInjective(Append(s, x))
         /\ ToSet(Append(s, x)) = ToSet(s) \cup {x}
<1>1. Append(s, x) \in Seq(S) /\ Len(s) \in Nat
  OBVIOUS
<1>2. DOMAIN Append(s, x) = 1 .. (Len(s) + 1) /\ DOMAIN s = 1 .. Len(s)
  OBVIOUS
<1>3. Append(s, x)[Len(s) + 1] = x /\ \A i \in 1 .. Len(s) : Append(s, x)[i] = s[i]
  OBVIOUS
<1>4. \A i : i \in DOMAIN Append(s, x) <=> i \in DOMAIN s \/ i = Len(s) + 1
  BY <1>1, <1>2
<1>5. ToSet(Append(s, x)) = ToSet(s) \cup {x}
  BY Zenon, <1>2, <1>3, <1>4 DEF ToSet
<1>6. \A i \in DOMAIN s : s[i] # x
  BY Zenon DEF ToSet
<1>7. IsInjective(Append(s, x))
  BY Zenon, <1>2, <1>3, <1>4, <1>6 DEF IsInjective
<1> QED BY Zenon, <1>1, <1>5, <1>7

(* A stack from which the last element is popped.                          *)
LEMMA FrontLast ==
  ASSUME NEW S, NEW s \in Seq(S), s # <<>>
  PROVE  /\ Front(s) \in Seq(S)
         /\ Len(Front(s)) = Len(s) - 1
         /\ Last(s) \in S /\ Last(s) \in ToSet(s)
         /\ IsInjective(s) => IsInjective(Front(s)) /\ ToSet(Front(s)) = ToSet(s) \ {Last(s)}
<1>1. Len(s) \in Nat \ {0} /\ DOMAIN s = 1 .. Len(s) /\ \A i \in 1 .. Len(s) : s[i] \in S
  OBVIOUS
<1>2. Len(s) \in DOMAIN s
  BY <1>1
<1>3. Front(s) \in Seq(S) /\ Len(Front(s)) = Len(s) - 1
  BY <1>1 DEF Front
<1>4. DOMAIN Front(s) = 1 .. (Len(s) - 1) /\ \A i \in 1 .. (Len(s) - 1) : Front(s)[i] = s[i]
  BY <1>1 DEF Front
<1>5. Last(s) \in S /\ Last(s) \in ToSet(s)
  BY Zenon, <1>1, <1>2 DEF Last, ToSet
<1>6. \A i : i \in DOMAIN Front(s) <=> i \in DOMAIN s /\ i # Len(s)
  BY <1>1, <1>4
<1>7. ASSUME IsInjective(s) PROVE IsInjective(Front(s))
  BY Zenon, <1>4, <1>6, <1>7 DEF IsInjective
<1>8. ASSUME IsInjective(s) PROVE ToSet(Front(s)) = ToSet(s) \ {Last(s)}
  <2>1. \A i \in DOMAIN s : s[i] = s[Len(s)] <=> i = Len(s)
    BY Zenon, <1>2, <1>8 DEF IsInjective
  <2> QED BY Zenon, <1>2, <1>4, <1>6, <2>1 DEF ToSet, Last
<1> QED BY Zenon, <1>3, <1>5, <1>7, <1>8

(* A sequence from which the element at a place is removed.                *)
LEMMA RemovedAt ==
  ASSUME NEW S, NEW s \in Seq(S), IsInjective(s), NEW k \in DOMAIN s
  PROVE  /\ RemoveAt(s, k) \in Seq(S)
         /\ IsInjective(RemoveAt(s, k))
         /\ ToSet(RemoveAt(s, k)) = ToSet(s) \ {s[k]}
<1> DEFINE r == RemoveAt(s, k)
<1>1. Len(s) \in Nat /\ DOMAIN s = 1 .. Len(s) /\ k \in 1 .. Len(s) /\ \A i \in 1 .. Len(s) : s[i] \in S
  OBVIOUS
<1>2. /\ SubSeq(s, 1, k - 1) \in Seq(S) /\ Len(SubSeq(s, 1, k - 1)) = k - 1
      /\ \A i \in 1 .. k - 1 : SubSeq(s, 1, k - 1)[i] = s[i]
  BY <1>1
<1>3. /\ SubSeq(s, k + 1, Len(s)) \in Seq(S) /\ Len(SubSeq(s, k + 1, Len(s))) = Len(s) - k
      /\ \A i \in 1 .. Len(s) - k : SubSeq(s, k + 1, Len(s))[i] = s[k + i]
  <2>1. k + 1 \in Int /\ \A i \in k + 1 .. Len(s) : s[i] \in S
    BY <1>1
  <2>2. /\ SubSeq(s, k + 1, Len(s)) \in Seq(S)
        /\ Len(SubSeq(s, k + 1, Len(s))) = IF k + 1 <= Len(s) THEN Len(s) - (k + 1) + 1 ELSE 0
        /\ \A i \in 1 .. Len(s) - (k + 1) + 1 : SubSeq(s, k + 1, Len(s))[i] = s[(k + 1) + i - 1]
    BY <1>1, <2>1, SubSeqProperties
  <2>3. Len(SubSeq(s, k + 1, Len(s))) = Len(s) - k
    BY <1>1, <2>2
  <2>4. Len(s) - (k + 1) + 1 = Len(s) - k
    BY <1>1
  <2>5. \A i \in 1 .. Len(s) - k : (k + 1) + i - 1 = k + i
    BY <1>1
  <2> QED BY Zenon, <2>2, <2>3, <2>4, <2>5
<1>4. /\ r \in Seq(S) /\ DOMAIN r = 1 .. Len(s) - 1
      /\ \A i \in 1 .. Len(s) - 1 : r[i] = IF i < k THEN s[i] ELSE s[i + 1]
  <2> DEFINE a == SubSeq(s, 1, k - 1)
             b == SubSeq(s, k + 1, Len(s))
  <2>1. /\ a \in Seq(S) /\ Len(a) = k - 1 /\ \A i \in 1 .. k - 1 : a[i] = s[i]
        /\ b \in Seq(S) /\ Len(b) = Len(s) - k /\ \A i \in 1 .. Len(s) - k : b[i] = s[k + i]
        /\ r = a \o b
    BY Zenon, <1>2, <1>3 DEF RemoveAt
  <2> HIDE DEF a, b, r
  <2>2. /\ r \in Seq(S) /\ Len(r) = Len(a) + Len(b)
        /\ \A i \in 1 .. Len(a) + Len(b) : r[i] = IF i <= Len(a) THEN a[i] ELSE b[i - Len(a)]
    BY Zenon, <2>1, ConcatProperties
  <2>3. DOMAIN r = 1 .. Len(s) - 1
    <3>1. Len(r) = Len(s) - 1
      BY <1>1, <2>1, <2>2
    <3>2. DOMAIN r = 1 .. Len(r)
      BY <2>2
    <3> QED BY Zenon, <3>1, <3>2
  <2>4. ASSUME NEW i \in 1 .. Len(s) - 1 PROVE r[i] = IF i < k THEN s[i] ELSE s[i + 1]
    <3>1. CASE i < k
      <4>1. i \in 1 .. k - 1 /\ i \in 1 .. Len(a) + Len(b) /\ i <= Len(a)
        BY <1>1, <2>1, <3>1
      <4>2. r[i] = a[i]
        BY Zenon, <2>2, <4>1
      <4> QED BY Zenon, <2>1, <3>1, <4>1, <4>2
    <3>2. CASE ~(i < k)
      <4>1. r[i] = b[i - (k - 1)] /\ i - (k - 1) \in 1 .. Len(s) - k
        <5>1. Len(a) = k - 1 /\ Len(a) + Len(b) = Len(s) - 1
          BY <1>1, <2>1
        <5>2. /\ i \in 1 .. Len(a) + Len(b) /\ ~(i <= Len(a))
              /\ i - (k - 1) \in 1 .. Len(s) - k
          BY <1>1, <3>2, <5>1
        <5>3. r[i] = b[i - Len(a)]
          BY Zenon, <2>2, <5>2
        <5> QED BY Zenon, <5>1, <5>2, <5>3
      <4>2. b[i - (k - 1)] = s[k + (i - (k - 1))]
        BY Zenon, <2>1, <4>1
      <4>3. k + (i - (k - 1)) = i + 1
        BY <1>1
      <4> QED BY Zenon, <3>2, <4>1, <4>2, <4>3
    <3> QED BY Zenon, <3>1, <3>2
  <2> QED BY Zenon, <2>2, <2>3, <2>4
<1> HIDE DEF r
<1> DEFINE at(i) == IF i < k THEN i ELSE i + 1
<1>5a. \A i \in DOMAIN r : at(i) \in DOMAIN s /\ at(i) # k /\ r[i] = s[at(i)]
  BY <1>1, <1>4
<1>5b. \A i, j \in DOMAIN r : at(i) = at(j) => i = j
  BY <1>1, <1>4
<1> HIDE DEF at
<1>5. IsInjective(r)
  BY Zenon, <1>5a, <1>5b DEF IsInjective
<1>6. ToSet(r) \subseteq ToSet(s) \ {s[k]}
  BY <1>5a DEF ToSet, IsInjective
<1>7. ASSUME NEW x \in ToSet(s) \ {s[k]} PROVE x \in ToSet(r)
  <2>1. PICK i \in 1 .. Len(s) : s[i] = x /\ i # k
    BY Zenon, <1>1 DEF ToSet
  <2>2. CASE i < k
    BY <1>1, <1>4, <2>1, <2>2 DEF ToSet
  <2>3. CASE i > k
    <3>1. i - 1 \in DOMAIN r /\ r[i - 1] = x
      BY <1>1, <1>4, <2>1, <2>3
    <3> QED BY Zenon, <3>1 DEF ToSet
  <2> QED BY <1>1, <2>1, <2>2, <2>3
<1> QED BY Zenon, <1>4, <1>5, <1>6, <1>7 DEF r

(* A sequence that grows at the front by an element that it does not have. *)
LEMMA ConsFresh ==
  ASSUME NEW S, NEW s \in Seq(S), IsInjective(s), NEW x \in S \ ToSet(s)
  PROVE  /\ <<x>> \o s \in Seq(S)
         /\ IsInjective(<<x>> \o s)
         /\ ToSet(<<x>> \o s) = ToSet(s) \cup {x}
<1> DEFINE r == <<x>> \o s
<1>1. Len(s) \in Nat /\ DOMAIN s = 1 .. Len(s)
  OBVIOUS
<1>2. /\ r \in Seq(S) /\ DOMAIN r = 1 .. Len(s) + 1 /\ r[1] = x
      /\ \A i \in 1 .. Len(s) : r[i + 1] = s[i]
  BY <1>1
<1> HIDE DEF r
<1>3. \A i \in DOMAIN r : i = 1 \/ (i - 1 \in DOMAIN s /\ r[i] = s[i - 1])
  BY <1>1, <1>2
<1>4. \A i \in DOMAIN s : s[i] # x /\ i + 1 \in DOMAIN r /\ r[i + 1] = s[i]
  BY <1>1, <1>2 DEF ToSet
<1>5. IsInjective(r)
  BY <1>1, <1>2, <1>3, <1>4 DEF IsInjective
<1>6. 1 \in DOMAIN r
  BY <1>1, <1>2
<1>7. ToSet(r) \subseteq ToSet(s) \cup {x}
  BY <1>2, <1>3 DEF ToSet
<1>8. ToSet(s) \cup {x} \subseteq ToSet(r)
  BY <1>2, <1>4, <1>6 DEF ToSet
<1> QED BY Zenon, <1>2, <1>5, <1>7, <1>8 DEF r

(* A finite set in some order.                                             *)
LEMMA SetInOrder ==
  ASSUME NEW S, IsFiniteSet(S)
  PROVE  /\ SetToSeq(S) \in Seq(S)
         /\ IsInjective(SetToSeq(S))
         /\ ToSet(SetToSeq(S)) = S
<1> DEFINE r == SetToSeq(S)
<1>1. Cardinality(S) \in Nat /\ ExistsBijection(1 .. Cardinality(S), S)
  BY Zenon, FS_CardinalityType
<1>2. \E f \in [1 .. Cardinality(S) -> S] : IsInjective(f)
  BY Zenon, <1>1 DEF ExistsBijection, Bijection, Injection
<1>3. r \in [1 .. Cardinality(S) -> S] /\ IsInjective(r)
  BY Zenon, <1>2 DEF SetToSeq
<1> HIDE DEF r
<1>4. r \in Seq(S)
  BY <1>1, <1>3
<1>5. IsFiniteSet(1 .. Cardinality(S)) /\ Cardinality(1 .. Cardinality(S)) = Cardinality(S)
  BY <1>1, FS_Interval
<1>6. r \in Surjection(1 .. Cardinality(S), S)
  <2>1. r \in Injection(1 .. Cardinality(S), S)
    BY Zenon, <1>3 DEF Injection
  <2> QED BY Zenon, <1>5, <2>1, FS_Injection
<1>7. ToSet(r) = S
  BY Zenon, <1>3, <1>6 DEF ToSet, Surjection
<1> QED BY Zenon, <1>3, <1>4, <1>7 DEF r

-----------------------------------------------------------------------------

(* Some steps carry many definitions: the solver gets the time they need.  *)
USE SMTT(60)

(* Pages beyond the end of the file hold nothing, and a page in the pool   *)
(* is allocated: a recycled page is never in a frame already.              *)
Beyond == \A p \in PageId : p >= num_pages => contents[p] = Free
Resident == \A p \in PageId : page_table[p] # NoFrame => contents[p] # Free

(* What the operations preserve together.                                  *)
IInv ==
  /\ TypeOK /\ CacheCoherent /\ PoolConsistent /\ PagesAccounted /\ PageZeroShared
  /\ IsInjective(free_frames)
  /\ Beyond /\ Resident

FrameType == [id: 0 .. MaxPages, data: Contents, pin_count: 0 .. MaxPin,
              is_dirty: BOOLEAN, in_use: BOOLEAN]

(* What TypeOK says of the frames and their table.                         *)
LEMMA Types ==
  ASSUME TypeOK
  PROVE  /\ frames \in [FrameId -> FrameType]
         /\ page_table \in [PageId -> FrameId \cup {NoFrame}]
         /\ free_frames \in Seq(FrameId) /\ lru_list \in Seq(FrameId)
         /\ free_pages \in Seq(PageId) /\ num_pages \in 1 .. MaxPages + 1
         /\ disk \in [PageId -> Page]
         /\ contents \in [PageId -> Contents \cup {Free}]
  BY Zenon DEF TypeOK, FrameType

(* A list that fits on page 0 is read back as it was saved, and leaves the *)
(* root slot behind it alone.                                              *)
LEMMA SavedList ==
  ASSUME TypeOK, NEW list \in Seq(PageId), Len(list) <= MAX_FREE_PAGES, page0' = save(list)
  PROVE  /\ page0' \in [0 .. ROOT_ID_OFFSET -> Nat \cup {INVALID_PAGE_ID}]
         /\ load' = list /\ page0'[ROOT_ID_OFFSET] = page0[ROOT_ID_OFFSET]
<1>1. /\ MAX_FREE_PAGES \in Nat /\ Len(list) \in Nat /\ DOMAIN list = 1 .. Len(list)
      /\ \A i \in DOMAIN list : list[i] \in Nat
      /\ page0 \in [0 .. ROOT_ID_OFFSET -> Nat \cup {INVALID_PAGE_ID}]
  BY PoolAssumption DEF PageId, TypeOK
<1>2. page0' \in [0 .. ROOT_ID_OFFSET -> Nat \cup {INVALID_PAGE_ID}]
  BY <1>1 DEF save
<1>3. /\ page0'[0] = Len(list) /\ \A i \in 1 .. Len(list) : page0'[i] = list[i]
      /\ page0'[ROOT_ID_OFFSET] = page0[ROOT_ID_OFFSET]
  BY <1>1 DEF save, ROOT_ID_OFFSET
<1>4. load' = list
  BY <1>1, <1>3 DEF load
<1> QED BY Zenon, <1>2, <1>3, <1>4

LEMMA PageInFile == \A p \in PageId : p \in 0 .. MaxPages /\ p # 0
  BY PoolAssumption DEF PageId

-----------------------------------------------------------------------------
(***************************************************************************)
(* The LRU list.                                                           *)
(***************************************************************************)
LEMMA WithoutFrame ==
  ASSUME NEW s \in Seq(FrameId), IsInjective(s), NEW f
  PROVE  /\ Without(s, f) \in Seq(FrameId)
         /\ IsInjective(Without(s, f))
         /\ ToSet(Without(s, f)) = ToSet(s) \ {f}
<1>1. CASE f \in ToSet(s)
  <2>1. lru_map(s, f) \in DOMAIN s /\ s[lru_map(s, f)] = f
    BY Zenon, <1>1 DEF lru_map, ToSet
  <2> QED BY Zenon, <1>1, <2>1, RemovedAt DEF Without
<1>2. CASE f \notin ToSet(s)
  BY Zenon, <1>2 DEF Without
<1> QED BY Zenon, <1>1, <1>2

(* touch() puts a frame at the head, once, wherever it was.                *)
LEMMA Touched ==
  ASSUME NEW s \in Seq(FrameId), IsInjective(s), NEW f \in FrameId
  PROVE  /\ touch(s, f) \in Seq(FrameId)
         /\ IsInjective(touch(s, f))
         /\ ToSet(touch(s, f)) = ToSet(s) \cup {f}
<1>1. /\ Without(s, f) \in Seq(FrameId) /\ IsInjective(Without(s, f))
      /\ ToSet(Without(s, f)) = ToSet(s) \ {f}
  BY Zenon, WithoutFrame
<1>2. f \in FrameId \ ToSet(Without(s, f))
  BY Zenon, <1>1
<1>3. /\ <<f>> \o Without(s, f) \in Seq(FrameId) /\ IsInjective(<<f>> \o Without(s, f))
      /\ ToSet(<<f>> \o Without(s, f)) = ToSet(Without(s, f)) \cup {f}
  BY <1>1, <1>2, ConsFresh
<1> QED BY Zenon, <1>1, <1>3 DEF touch

(* The victim is a frame of the list that nobody has pinned.               *)
LEMMA VictimUnpinned ==
  ASSUME TypeOK, Unpinned # {}
  PROVE  Victim \in ToSet(lru_list) /\ frames[Victim].pin_count = 0
<1>1. lru_list \in Seq(FrameId)
  BY Zenon, Types
<1>2. Len(lru_list) \in Nat /\ DOMAIN lru_list = 1 .. Len(lru_list)
  BY <1>1
<1>3. Unpinned \in SUBSET Nat /\ \A i \in Unpinned : i <= Len(lru_list)
  BY <1>2 DEF Unpinned
<1>4. Max(Unpinned) \in Unpinned
  <2> DEFINE After == {Len(lru_list) - i : i \in Unpinned}
  <2>1. After \subseteq Nat /\ After # {}
    <3>1. \A i \in Unpinned : Len(lru_list) - i \in Nat
      BY <1>2, <1>3
    <3> QED BY Zenon, <3>1
  <2>2. \E m \in After : \A n \in After : ~(<<n, m>> \in OpToRel(<, Nat))
    <3> HIDE DEF After
    <3> QED BY Zenon, <2>1, NatLessThanWellFounded, WFMin
  <2>3. PICK m \in After : \A n \in After : ~(n < m)
    BY Zenon, <2>1, <2>2 DEF OpToRel
  <2>4. PICK i \in Unpinned : m = Len(lru_list) - i
    BY Zenon, <2>3
  <2>5. \A j \in Unpinned : ~(Len(lru_list) - j < Len(lru_list) - i)
    BY Zenon, <2>3, <2>4
  <2>6. \A j \in Unpinned : i >= j
    BY <1>2, <1>3, <2>5
  <2> QED BY Zenon, <2>6 DEF Max
<1> QED BY Zenon, <1>4 DEF Unpinned, Victim, ToSet

-----------------------------------------------------------------------------
(***************************************************************************)
(* What find_free_frame finds: a frame without a page, or the victim, whose*)
(* page is written back and forgotten.  Other pages keep their places.     *)
(***************************************************************************)
LEMMA FoundFrame ==
  ASSUME IInv, NEW f, f = find_free_frame, f # NoFrame
  PROVE  /\ f \in FrameId
         /\ frames[f].in_use => frames[f].pin_count = 0
         /\ FramesLeft \in Seq(FrameId) /\ IsInjective(FramesLeft)
         /\ ToSet(FramesLeft) = ToSet(free_frames) \ {f}
         /\ evict_frame(Evicted)
              = [p \in PageId |-> IF page_table[p] = f THEN NoFrame ELSE page_table[p]]
         /\ WriteBack(Evicted) \in [PageId -> Page]
         /\ \A p \in PageId : WriteBack(Evicted)[p] =
              IF page_table[p] = f THEN [id |-> p, data |-> contents[p]] ELSE disk[p]
<1> USE DEF IInv
<1>1. /\ frames \in [FrameId -> FrameType] /\ page_table \in [PageId -> FrameId \cup {NoFrame}]
      /\ free_frames \in Seq(FrameId) /\ lru_list \in Seq(FrameId)
      /\ disk \in [PageId -> Page] /\ contents \in [PageId -> Contents \cup {Free}]
  BY Zenon, Types
<1>2. NoFrame \notin FrameId
  BY Zenon, PoolAssumption
<1>3. CASE free_frames # <<>>
  <2>1. f = Last(free_frames) /\ Evicted = {} /\ FramesLeft = Front(free_frames)
    BY Zenon, <1>3 DEF find_free_frame, Evicted, FramesLeft
  <2>2. /\ f \in FrameId /\ f \in ToSet(free_frames)
        /\ FramesLeft \in Seq(FrameId) /\ IsInjective(FramesLeft)
        /\ ToSet(FramesLeft) = ToSet(free_frames) \ {f}
    BY <1>1, <1>3, <2>1, FrontLast
  <2>3. ~frames[f].in_use
    BY Zenon, <2>2 DEF PoolConsistent
  <2>4. \A p \in PageId : page_table[p] # f
    BY Zenon, <1>2, <2>2, <2>3 DEF PoolConsistent
  <2>5. evict_frame(Evicted) = page_table
    BY Zenon, <1>1, <2>1 DEF evict_frame
  <2>6. WriteBack(Evicted) = disk
    BY Zenon, <1>1, <2>1 DEF WriteBack
  <2> QED BY Zenon, <1>1, <2>2, <2>3, <2>4, <2>5, <2>6
<1>4. CASE free_frames = <<>>
  <2>1. f = Victim /\ Unpinned # {} /\ Evicted = {f} /\ FramesLeft = <<>>
    BY Zenon, <1>4 DEF find_free_frame, Evicted, FramesLeft
  <2>2. f \in ToSet(lru_list) /\ frames[f].pin_count = 0
    BY Zenon, <2>1, VictimUnpinned
  <2>3. f \in FrameId /\ frames[f].in_use
    BY Zenon, <2>2 DEF PoolConsistent
  <2> DEFINE q == frames[f].id
  <2>4. q \in PageId /\ page_table[q] = f
    BY Zenon, <2>3 DEF PoolConsistent
  <2>5. \A p \in PageId : page_table[p] = f <=> p = q
    BY Zenon, <1>2, <2>3, <2>4 DEF PoolConsistent
  <2>6. /\ FramesLeft \in Seq(FrameId) /\ IsInjective(FramesLeft)
        /\ ToSet(FramesLeft) = ToSet(free_frames) \ {f}
    BY <1>4, <2>1 DEF IsInjective, ToSet
  <2>7. evict_frame(Evicted)
          = [p \in PageId |-> IF page_table[p] = f THEN NoFrame ELSE page_table[p]]
    BY Zenon, <2>1, <2>5 DEF evict_frame
  <2>8. contents[q] \in Contents /\ frames[f].data = contents[q]
    BY Zenon, <1>1, <1>2, <2>3, <2>4 DEF Resident, CacheCoherent
  <2>9. \A p \in PageId : WriteBack(Evicted)[p] =
          IF page_table[p] = f THEN [id |-> p, data |-> contents[p]] ELSE disk[p]
    <3>1. CASE frames[f].is_dirty
      <4>1. {g \in Evicted : frames[g].is_dirty} = {f}
        BY Zenon, <2>1, <3>1
      <4>2. \A p \in PageId : WriteBack(Evicted)[p] =
              IF frames[f].id = p THEN [id |-> p, data |-> frames[f].data] ELSE disk[p]
        BY Zenon, <4>1 DEF WriteBack
      <4> QED BY ZenonT(60), <2>5, <2>8, <4>2
    <3>2. CASE ~frames[f].is_dirty
      <4>1. {g \in Evicted : frames[g].is_dirty} = {}
        BY Zenon, <2>1, <3>2
      <4>2. \A p \in PageId : WriteBack(Evicted)[p] = disk[p]
        BY Zenon, <4>1 DEF WriteBack
      <4>3. disk[q] = [id |-> q, data |-> contents[q]]
        BY Zenon, <1>1, <1>2, <2>3, <2>4, <3>2 DEF Resident, CacheCoherent
      <4> QED BY Zenon, <2>5, <4>2, <4>3
    <3> QED BY Zenon, <3>1, <3>2
  <2>10. WriteBack(Evicted) \in [PageId -> Page]
    <3>1. \A p \in PageId : WriteBack(Evicted)[p] \in Page
      <4>1. [id |-> q, data |-> contents[q]] \in Page
        BY Zenon, <2>4, <2>8, PageInFile DEF Page
      <4> QED BY ZenonT(60), <1>1, <2>5, <2>9, <4>1
    <3>2. WriteBack(Evicted) = [p \in PageId |-> WriteBack(Evicted)[p]]
      BY Zenon DEF WriteBack
    <3> QED BY Zenon, <3>1, <3>2
  <2> QED BY Zenon, <2>2, <2>3, <2>6, <2>7, <2>9, <2>10
<1> QED BY Zenon, <1>3, <1>4

(***************************************************************************)
(* A page that was not in the pool is put into the frame found for it.     *)
(***************************************************************************)
LEMMA Installed ==
  ASSUME IInv, NEW p \in PageId, page_table[p] = NoFrame,
         NEW d \in Contents, NEW dirty \in BOOLEAN,
         Install(find_free_frame, p, [id |-> p, data |-> d], dirty),
         contents' = [contents EXCEPT ![p] = d],
         \A q \in PageId \ {p} : disk'[q] = WriteBack(Evicted)[q],
         ~dirty => disk'[p] = [id |-> p, data |-> d]
  PROVE  /\ frames' \in [FrameId -> FrameType]
         /\ page_table' \in [PageId -> FrameId \cup {NoFrame}]
         /\ free_frames' \in Seq(FrameId) /\ lru_list' \in Seq(FrameId)
         /\ contents' \in [PageId -> Contents \cup {Free}]
         /\ PoolConsistent' /\ IsInjective(free_frames)' /\ CacheCoherent' /\ Resident'
<1> DEFINE f == find_free_frame
           new == [id |-> p, data |-> d, pin_count |-> 1, is_dirty |-> dirty, in_use |-> TRUE]
<1>1. /\ frames \in [FrameId -> FrameType] /\ page_table \in [PageId -> FrameId \cup {NoFrame}]
      /\ lru_list \in Seq(FrameId) /\ contents \in [PageId -> Contents \cup {Free}]
  BY Zenon, Types DEF IInv
<1>2. NoFrame \notin FrameId /\ Free \notin Contents
  BY Zenon, PoolAssumption DEF Contents
<1>3. f # NoFrame
  BY Zenon DEF Install
<1>4. /\ f \in FrameId /\ (frames[f].in_use => frames[f].pin_count = 0)
      /\ FramesLeft \in Seq(FrameId) /\ IsInjective(FramesLeft)
      /\ ToSet(FramesLeft) = ToSet(free_frames) \ {f}
      /\ evict_frame(Evicted)
           = [q \in PageId |-> IF page_table[q] = f THEN NoFrame ELSE page_table[q]]
      /\ \A q \in PageId : WriteBack(Evicted)[q] =
           IF page_table[q] = f THEN [id |-> q, data |-> contents[q]] ELSE disk[q]
  BY <1>3, FoundFrame
<1>5. /\ frames' = [frames EXCEPT ![f] = new]
      /\ page_table' = [evict_frame(Evicted) EXCEPT ![p] = f]
      /\ free_frames' = FramesLeft /\ lru_list' = touch(lru_list, f)
  BY Zenon DEF Install
<1> HIDE DEF f
<1>6. new \in FrameType
  <2>1. 1 \in 0 .. MaxPin
    BY PoolAssumption
  <2> QED BY Zenon, <2>1, PageInFile DEF FrameType
<1>7. frames' \in [FrameId -> FrameType]
  BY Zenon, <1>1, <1>4, <1>5, <1>6
<1>8. page_table' = [q \in PageId |-> IF q = p THEN f
                                      ELSE IF page_table[q] = f THEN NoFrame ELSE page_table[q]]
  BY Zenon, <1>4, <1>5
<1>9. page_table' \in [PageId -> FrameId \cup {NoFrame}]
  BY Zenon, <1>1, <1>4, <1>8
<1>10. free_frames' \in Seq(FrameId) /\ IsInjective(free_frames)'
  BY Zenon, <1>4, <1>5
<1>11. /\ lru_list' \in Seq(FrameId) /\ IsInjective(lru_list')
       /\ ToSet(lru_list') = ToSet(lru_list) \cup {f}
  BY <1>1, <1>4, <1>5, Touched DEF IInv, PoolConsistent
<1>12. contents' \in [PageId -> Contents \cup {Free}]
  BY Zenon, <1>1
<1>13. /\ frames'[f] = new /\ \A g \in FrameId : g # f => frames'[g] = frames[g]
       /\ page_table'[p] = f
       /\ \A q \in PageId \ {p} : page_table'[q] = IF page_table[q] = f THEN NoFrame ELSE page_table[q]
       /\ contents'[p] = d /\ \A q \in PageId \ {p} : contents'[q] = contents[q]
  BY Zenon, <1>1, <1>4, <1>5, <1>8
<1> HIDE DEF new
<1>14. new.id = p /\ new.data = d /\ new.is_dirty = dirty /\ new.in_use
  BY Zenon DEF new
<1>15. PoolConsistent'
  <2>1. ASSUME NEW q \in PageId, page_table'[q] # NoFrame
        PROVE  frames'[page_table'[q]].in_use /\ frames'[page_table'[q]].id = q
    <3>1. CASE q = p
      BY Zenon, <1>13, <1>14, <3>1
    <3>2. CASE q # p
      <4>1. page_table'[q] = page_table[q] /\ page_table[q] # f /\ page_table[q] \in FrameId
        BY Zenon, <1>1, <1>13, <2>1, <3>2
      <4> QED BY <1>2, <1>13, <4>1 DEF IInv, PoolConsistent
    <3> QED BY Zenon, <3>1, <3>2
  <2>2. ASSUME NEW g \in FrameId, frames'[g].in_use
        PROVE  frames'[g].id \in PageId /\ page_table'[frames'[g].id] = g
    <3>1. CASE g = f
      BY Zenon, <1>13, <1>14, <3>1
    <3>2. CASE g # f
      <4>1. frames'[g] = frames[g] /\ frames[g].id \in PageId /\ page_table[frames[g].id] = g
        BY Zenon, <1>13, <2>2, <3>2 DEF IInv, PoolConsistent
      <4>2. frames[g].id # p
        BY Zenon, <1>2, <4>1
      <4> QED BY <1>13, <3>2, <4>1, <4>2
    <3> QED BY Zenon, <3>1, <3>2
  <2>3. ToSet(lru_list') = {g \in FrameId : frames'[g].in_use}
    BY <1>4, <1>11, <1>13, <1>14 DEF IInv, PoolConsistent
  <2>4. ToSet(free_frames') \cap ToSet(lru_list') = {}
    BY Zenon, <1>4, <1>5, <1>11 DEF IInv, PoolConsistent
  <2> QED BY Zenon, <1>11, <2>1, <2>2, <2>3, <2>4 DEF PoolConsistent
<1>16. CacheCoherent'
  <2>1. SUFFICES ASSUME NEW q \in PageId, contents'[q] # Free
                 PROVE  IF page_table'[q] = NoFrame
                        THEN disk'[q] = [id |-> q, data |-> contents'[q]]
                        ELSE /\ frames'[page_table'[q]].data = contents'[q]
                             /\ ~frames'[page_table'[q]].is_dirty
                                  => disk'[q] = [id |-> q, data |-> contents'[q]]
    BY Zenon DEF CacheCoherent
  <2>2. CASE q = p
    BY <1>2, <1>4, <1>13, <1>14, <2>2
  <2>3. CASE q # p /\ page_table[q] = f
    BY Zenon, <1>4, <1>13, <2>3
  <2>4. CASE q # p /\ page_table[q] # f
    <3>1. /\ disk'[q] = disk[q] /\ page_table'[q] = page_table[q] /\ contents'[q] = contents[q]
      BY Zenon, <1>4, <1>13, <2>4
    <3>2. page_table[q] # NoFrame => frames'[page_table[q]] = frames[page_table[q]]
      BY <1>1, <1>13, <2>4
    <3> QED BY <2>1, <3>1, <3>2 DEF IInv, CacheCoherent
  <2> QED BY Zenon, <2>2, <2>3, <2>4
<1>17. Resident'
  BY <1>2, <1>13 DEF IInv, Resident
<1> QED BY Zenon, <1>7, <1>9, <1>10, <1>11, <1>12, <1>15, <1>16, <1>17

(***************************************************************************)
(* Writing back through the table: a page of the set that is in the pool   *)
(* is in the file afterwards as its last writer left it.                   *)
(***************************************************************************)
LEMMA FlushedPages ==
  ASSUME IInv, NEW P \in SUBSET PageId
  PROVE  /\ Flushed(P) \in [PageId -> Page]
         /\ \A q \in PageId : page_table[q] = NoFrame \/ q \notin P => Flushed(P)[q] = disk[q]
         /\ \A q \in P : page_table[q] # NoFrame => Flushed(P)[q] = [id |-> q, data |-> contents[q]]
<1>1. /\ frames \in [FrameId -> FrameType] /\ page_table \in [PageId -> FrameId \cup {NoFrame}]
      /\ disk \in [PageId -> Page] /\ contents \in [PageId -> Contents \cup {Free}]
  BY Zenon, Types DEF IInv
<1>2. ASSUME NEW q \in PageId, page_table[q] # NoFrame
      PROVE  /\ page_table[q] \in FrameId /\ frames[page_table[q]].id = q
             /\ contents[q] \in Contents /\ frames[page_table[q]].data = contents[q]
             /\ ~frames[page_table[q]].is_dirty => disk[q] = [id |-> q, data |-> contents[q]]
  BY <1>1, <1>2 DEF IInv, PoolConsistent, Resident, CacheCoherent
<1>3. \A q \in PageId : page_table[q] = NoFrame \/ q \notin P => Flushed(P)[q] = disk[q]
  BY Zenon DEF Flushed, DirtyPages
<1>4. \A q \in P : page_table[q] # NoFrame => Flushed(P)[q] = [id |-> q, data |-> contents[q]]
  BY Zenon, <1>2 DEF Flushed, DirtyPages
<1>5. \A q \in PageId : Flushed(P)[q] \in Page
  <2>1. ASSUME NEW q \in P, page_table[q] # NoFrame PROVE Flushed(P)[q] \in Page
    <3>1. contents[q] \in Contents /\ q \in 0 .. MaxPages
      BY Zenon, <1>2, <2>1, PageInFile
    <3>2. [id |-> q, data |-> contents[q]] \in Page
      BY Zenon, <3>1 DEF Page
    <3> QED BY Zenon, <1>4, <2>1, <3>2
  <2> QED BY Zenon, <1>1, <1>3, <2>1
<1>6. Flushed(P) = [q \in PageId |-> Flushed(P)[q]]
  BY Zenon DEF Flushed
<1> QED BY Zenon, <1>3, <1>4, <1>5, <1>6

-----------------------------------------------------------------------------
(***************************************************************************)
(* The operations, one by one.  First those that leave the table alone: a  *)
(* hit and both kinds of unpin change one frame in use.                    *)
(***************************************************************************)
LEMMA HitStep == ASSUME IInv, NEW p \in PageId, FetchHit(p) PROVE IInv'
<1> DEFINE f == page_table[p]
<1>1. /\ frames \in [FrameId -> FrameType] /\ page_table \in [PageId -> FrameId \cup {NoFrame}]
      /\ lru_list \in Seq(FrameId)
  BY Zenon, Types DEF IInv
<1>2. f \in FrameId /\ f \in ToSet(lru_list) /\ frames[f].pin_count < MaxPin
  BY <1>1 DEF FetchHit, IInv, PoolConsistent
<1>3. /\ touch(lru_list, f) \in Seq(FrameId) /\ IsInjective(touch(lru_list, f))
      /\ ToSet(touch(lru_list, f)) = ToSet(lru_list)
  BY <1>1, <1>2, Touched DEF IInv, PoolConsistent
<1>4. /\ frames' = [frames EXCEPT ![f].pin_count = @ + 1] /\ lru_list' = touch(lru_list, f)
      /\ UNCHANGED <<page_table, free_frames, free_pages, num_pages, page0, disk, contents, root>>
  BY Zenon DEF FetchHit
<1> HIDE DEF f
<1>5. frames' \in [FrameId -> FrameType]
  <2>1. frames[f].pin_count + 1 \in 0 .. MaxPin
    BY <1>1, <1>2, PoolAssumption DEF FrameType
  <2> QED BY Zenon, <1>1, <1>2, <1>4, <2>1 DEF FrameType
<1>6. \A g \in FrameId : /\ frames'[g].id = frames[g].id /\ frames'[g].data = frames[g].data
                         /\ frames'[g].is_dirty = frames[g].is_dirty
                         /\ frames'[g].in_use = frames[g].in_use
  BY Zenon, <1>1, <1>2, <1>4 DEF FrameType
<1>7. TypeOK'
  BY Zenon, <1>3, <1>4, <1>5 DEF IInv, TypeOK, FrameType
<1>8. PoolConsistent'
  BY <1>1, <1>3, <1>4, <1>6 DEF IInv, PoolConsistent
<1>9. CacheCoherent'
  BY <1>1, <1>4, <1>6 DEF IInv, CacheCoherent
<1>10. PagesAccounted' /\ PageZeroShared' /\ IsInjective(free_frames)' /\ Beyond' /\ Resident'
  BY Zenon, <1>4 DEF IInv, PagesAccounted, PageZeroShared, load, Beyond, Resident
<1> QED BY Zenon, <1>7, <1>8, <1>9, <1>10 DEF IInv

LEMMA UnpinReadStep == ASSUME IInv, NEW p \in PageId, UnpinRead(p) PROVE IInv'
<1> DEFINE f == page_table[p]
<1>1. frames \in [FrameId -> FrameType] /\ page_table \in [PageId -> FrameId \cup {NoFrame}]
  BY Zenon, Types DEF IInv
<1>2. f \in FrameId /\ frames[f].pin_count > 0
  BY Zenon, <1>1 DEF UnpinRead
<1>3. /\ frames' = [frames EXCEPT ![f].pin_count = @ - 1]
      /\ UNCHANGED <<page_table, free_frames, lru_list, free_pages, num_pages, page0, disk,
                     contents, root>>
  BY Zenon DEF UnpinRead
<1> HIDE DEF f
<1>4. frames' \in [FrameId -> FrameType]
  <2>1. frames[f].pin_count - 1 \in 0 .. MaxPin
    BY <1>1, <1>2, PoolAssumption DEF FrameType
  <2> QED BY Zenon, <1>1, <1>2, <1>3, <2>1 DEF FrameType
<1>5. \A g \in FrameId : /\ frames'[g].id = frames[g].id /\ frames'[g].data = frames[g].data
                         /\ frames'[g].is_dirty = frames[g].is_dirty
                         /\ frames'[g].in_use = frames[g].in_use
  BY Zenon, <1>1, <1>2, <1>3 DEF FrameType
<1>6. TypeOK'
  BY Zenon, <1>3, <1>4 DEF IInv, TypeOK, FrameType
<1>7. PoolConsistent'
  BY <1>1, <1>3, <1>5 DEF IInv, PoolConsistent
<1>8. CacheCoherent'
  BY <1>1, <1>3, <1>5 DEF IInv, CacheCoherent
<1>9. PagesAccounted' /\ PageZeroShared' /\ IsInjective(free_frames)' /\ Beyond' /\ Resident'
  BY Zenon, <1>3 DEF IInv, PagesAccounted, PageZeroShared, load, Beyond, Resident
<1> QED BY Zenon, <1>6, <1>7, <1>8, <1>9 DEF IInv

(* The page that is written keeps its frame, and no other page has it.     *)
LEMMA UnpinWrittenStep ==
  ASSUME IInv, NEW p \in PageId, NEW d \in Data, UnpinWritten(p, d) PROVE IInv'
<1> DEFINE f == page_table[p]
<1>1. /\ frames \in [FrameId -> FrameType] /\ page_table \in [PageId -> FrameId \cup {NoFrame}]
      /\ contents \in [PageId -> Contents \cup {Free}]
  BY Zenon, Types DEF IInv
<1>2. f \in FrameId /\ frames[f].pin_count > 0 /\ d \in Contents /\ d # Free
  BY Zenon, <1>1, PoolAssumption DEF UnpinWritten, Contents
<1>3. \A q \in PageId : page_table[q] = f => q = p
  BY <1>1, <1>2, PoolAssumption DEF IInv, PoolConsistent
<1>4. contents[p] # Free
  BY Zenon, <1>2, PoolAssumption DEF IInv, Resident
<1>5. /\ frames' = [frames EXCEPT ![f].pin_count = @ - 1, ![f].is_dirty = TRUE, ![f].data = d]
      /\ contents' = [contents EXCEPT ![p] = d]
      /\ UNCHANGED <<page_table, free_frames, lru_list, free_pages, num_pages, page0, disk, root>>
  BY Zenon DEF UnpinWritten
<1>6. page_table[p] = f
  BY Zenon
<1> HIDE DEF f
<1>7. frames' \in [FrameId -> FrameType]
  <2>1. frames[f].pin_count - 1 \in 0 .. MaxPin
    BY <1>1, <1>2, PoolAssumption DEF FrameType
  <2> DEFINE fr == [frames[f] EXCEPT !.pin_count = @ - 1, !.is_dirty = TRUE, !.data = d]
  <2>2. fr \in FrameType
    <3>1. frames[f] \in FrameType
      BY Zenon, <1>1, <1>2
    <3> QED BY Zenon, <1>2, <2>1, <3>1 DEF FrameType
  <2>3. frames' = [frames EXCEPT ![f] = fr]
    BY Zenon, <1>1, <1>2, <1>5
  <2> HIDE DEF fr
  <2> QED BY Zenon, <1>1, <1>2, <2>2, <2>3
<1>8. /\ \A g \in FrameId : g # f => frames'[g] = frames[g]
      /\ frames'[f].id = frames[f].id /\ frames'[f].in_use = frames[f].in_use
      /\ frames'[f].data = d /\ frames'[f].is_dirty
  BY Zenon, <1>1, <1>2, <1>5 DEF FrameType
<1>9. contents' \in [PageId -> Contents \cup {Free}] /\ contents'[p] = d
      /\ \A q \in PageId \ {p} : contents'[q] = contents[q]
  BY Zenon, <1>1, <1>2, <1>5
<1>10. TypeOK'
  BY Zenon, <1>5, <1>7, <1>9 DEF IInv, TypeOK, FrameType
<1>11. PoolConsistent'
  <2>1. \A g \in FrameId : frames'[g].id = frames[g].id /\ frames'[g].in_use = frames[g].in_use
    BY Zenon, <1>8
  <2> QED BY <1>1, <1>5, <2>1 DEF IInv, PoolConsistent
<1>12. CacheCoherent'
  <2>1. SUFFICES ASSUME NEW q \in PageId, contents'[q] # Free
                 PROVE  IF page_table[q] = NoFrame
                        THEN disk[q] = [id |-> q, data |-> contents'[q]]
                        ELSE /\ frames'[page_table[q]].data = contents'[q]
                             /\ ~frames'[page_table[q]].is_dirty
                                  => disk[q] = [id |-> q, data |-> contents'[q]]
    BY ZenonT(60), <1>5 DEF CacheCoherent
  <2>2. CASE q = p
    BY Zenon, <1>2, <1>6, <1>8, <1>9, <2>2, PoolAssumption
  <2>3. CASE q # p
    <3>1. contents'[q] = contents[q] /\ page_table[q] # f
      BY Zenon, <1>3, <1>9, <2>3
    <3>2. page_table[q] # NoFrame => frames'[page_table[q]] = frames[page_table[q]]
      BY Zenon, <1>1, <1>8, <3>1
    <3> QED BY Zenon, <2>1, <3>1, <3>2 DEF IInv, CacheCoherent
  <2> QED BY Zenon, <2>2, <2>3
<1>13. \A q \in PageId : contents'[q] = Free <=> contents[q] = Free
  BY Zenon, <1>2, <1>4, <1>9
<1>14. PagesAccounted' /\ PageZeroShared' /\ IsInjective(free_frames)' /\ Beyond' /\ Resident'
  BY Zenon, <1>5, <1>13 DEF IInv, PagesAccounted, PageZeroShared, load, Beyond, Resident
<1> QED BY Zenon, <1>10, <1>11, <1>12, <1>14 DEF IInv

(* flush_page and flush_all: what is marked clean has been written.        *)
LEMMA FlushStep ==
  ASSUME IInv, NEW P \in SUBSET PageId, FlushPages(P),
         UNCHANGED <<page_table, free_frames, lru_list, free_pages, num_pages, page0, contents, root>>
  PROVE  IInv'
<1>1. /\ frames \in [FrameId -> FrameType] /\ page_table \in [PageId -> FrameId \cup {NoFrame}]
  BY Zenon, Types DEF IInv
<1>2. /\ Flushed(P) \in [PageId -> Page]
      /\ \A q \in PageId : page_table[q] = NoFrame \/ q \notin P => Flushed(P)[q] = disk[q]
      /\ \A q \in P : page_table[q] # NoFrame => Flushed(P)[q] = [id |-> q, data |-> contents[q]]
  BY Zenon, FlushedPages
<1>3. /\ disk' = Flushed(P)
      /\ frames' = [g \in FrameId |->
           [frames[g] EXCEPT !.is_dirty = @ /\ \A p \in P : page_table[p] # g]]
  BY Zenon DEF FlushPages
<1>4. frames' \in [FrameId -> FrameType]
  <2> SUFFICES ASSUME NEW g \in FrameId
               PROVE  [frames[g] EXCEPT !.is_dirty = @ /\ \A p \in P : page_table[p] # g] \in FrameType
    BY Zenon, <1>3
  <2> DEFINE b == frames[g].is_dirty /\ \A p \in P : page_table[p] # g
  <2>1. b \in BOOLEAN
    BY Zenon
  <2>2. frames[g] \in FrameType
    BY Zenon, <1>1
  <2> HIDE DEF b
  <2>3. [frames[g] EXCEPT !.is_dirty = b] \in FrameType
    BY Zenon, <2>1, <2>2 DEF FrameType
  <2> QED BY Zenon, <2>3 DEF b
<1>5. \A g \in FrameId :
        /\ frames'[g].id = frames[g].id /\ frames'[g].data = frames[g].data
        /\ frames'[g].in_use = frames[g].in_use
        /\ frames'[g].is_dirty <=> frames[g].is_dirty /\ \A p \in P : page_table[p] # g
  BY ZenonT(60), <1>1, <1>3 DEF FrameType
<1>6. TypeOK'
  BY Zenon, <1>2, <1>3, <1>4 DEF IInv, TypeOK, FrameType
<1>7. PoolConsistent'
  BY <1>1, <1>5 DEF IInv, PoolConsistent
<1>8. CacheCoherent'
  <2>1. SUFFICES ASSUME NEW q \in PageId, contents[q] # Free
                 PROVE  IF page_table[q] = NoFrame
                        THEN disk'[q] = [id |-> q, data |-> contents[q]]
                        ELSE /\ frames'[page_table[q]].data = contents[q]
                             /\ ~frames'[page_table[q]].is_dirty
                                  => disk'[q] = [id |-> q, data |-> contents[q]]
    BY Zenon DEF CacheCoherent
  <2>2. CASE page_table[q] = NoFrame
    BY ZenonT(60), <1>2, <1>3, <2>1, <2>2 DEF IInv, CacheCoherent
  <2>3. CASE page_table[q] # NoFrame
    <3>1. page_table[q] \in FrameId
      BY Zenon, <1>1, <2>3
    <3>2. /\ frames[page_table[q]].data = contents[q]
          /\ ~frames[page_table[q]].is_dirty => disk[q] = [id |-> q, data |-> contents[q]]
      BY Zenon, <2>1, <2>3 DEF IInv, CacheCoherent
    <3>3. \A p \in P : page_table[p] = page_table[q] => p = q
      BY <2>3 DEF IInv, PoolConsistent
    <3>4. CASE q \in P
      BY Zenon, <1>2, <1>3, <1>5, <2>3, <3>1, <3>2, <3>4
    <3>5. CASE q \notin P
      <4>1. \A p \in P : page_table[p] # page_table[q]
        BY Zenon, <3>3, <3>5
      <4>2. frames'[page_table[q]].is_dirty <=> frames[page_table[q]].is_dirty
        BY Zenon, <1>5, <3>1, <4>1
      <4>3. frames'[page_table[q]].data = contents[q] /\ disk'[q] = disk[q]
        BY Zenon, <1>2, <1>3, <1>5, <3>1, <3>2, <3>5
      <4> QED BY Zenon, <2>3, <3>2, <4>2, <4>3
    <3> QED BY Zenon, <3>4, <3>5
  <2> QED BY Zenon, <2>2, <2>3
<1>9. PagesAccounted' /\ PageZeroShared' /\ IsInjective(free_frames)' /\ Beyond' /\ Resident'
  BY Zenon DEF IInv, PagesAccounted, PageZeroShared, load, Beyond, Resident
<1> QED BY Zenon, <1>6, <1>7, <1>8, <1>9 DEF IInv

(* A miss brings in what the file has, which is what was last written.     *)
LEMMA MissStep == ASSUME IInv, NEW p \in PageId, FetchMiss(p) PROVE IInv'
<1> DEFINE d == contents[p]
           f == find_free_frame
<1>1. contents \in [PageId -> Contents \cup {Free}] /\ d \in Contents /\ page_table[p] = NoFrame
  BY Zenon, Types DEF FetchMiss, IInv
<1>2. f # NoFrame
  BY Zenon DEF FetchMiss, Install
<1>3. /\ WriteBack(Evicted) \in [PageId -> Page]
      /\ WriteBack(Evicted)[p] = IF page_table[p] = f THEN [id |-> p, data |-> d] ELSE disk[p]
  BY Zenon, <1>2, FoundFrame
<1>4. WriteBack(Evicted)[p] = [id |-> p, data |-> d]
  BY Zenon, <1>1, <1>2, <1>3 DEF FetchMiss, IInv, CacheCoherent
<1>5. /\ Install(f, p, [id |-> p, data |-> d], FALSE) /\ disk' = WriteBack(Evicted)
      /\ UNCHANGED <<free_pages, num_pages, page0, contents, root>>
  BY Zenon, <1>4 DEF FetchMiss
<1>6. contents' = [contents EXCEPT ![p] = d]
  BY Zenon, <1>1, <1>5
<1> HIDE DEF d
<1>7. /\ frames' \in [FrameId -> FrameType]
      /\ page_table' \in [PageId -> FrameId \cup {NoFrame}]
      /\ free_frames' \in Seq(FrameId) /\ lru_list' \in Seq(FrameId)
      /\ PoolConsistent' /\ IsInjective(free_frames)' /\ CacheCoherent' /\ Resident'
  BY Zenon, <1>1, <1>4, <1>5, <1>6, Installed
<1>8. TypeOK'
  BY Zenon, <1>3, <1>5, <1>7 DEF IInv, TypeOK, FrameType
<1>9. PagesAccounted' /\ PageZeroShared' /\ Beyond'
  BY Zenon, <1>5 DEF IInv, PagesAccounted, PageZeroShared, load, Beyond
<1> QED BY Zenon, <1>7, <1>8, <1>9 DEF IInv

(* A recycled page was on the free list, so it is nobody's and in no frame.*)
LEMMA RecycledStep == ASSUME IInv, NewRecycled PROVE IInv'
<1> DEFINE p == Last(free_pages)
           f == find_free_frame
<1>1. free_pages \in Seq(PageId) /\ free_pages # <<>> /\ Len(free_pages) <= MAX_FREE_PAGES
  BY Zenon DEF NewRecycled, IInv, TypeOK
<1>2. /\ Popped \in Seq(PageId) /\ Len(Popped) = Len(free_pages) - 1
      /\ p \in PageId /\ p \in ToSet(free_pages)
      /\ IsInjective(Popped) /\ ToSet(Popped) = ToSet(free_pages) \ {p}
  BY Zenon, <1>1, FrontLast DEF IInv, PagesAccounted, Popped
<1>3. p < num_pages /\ contents[p] = Free /\ page_table[p] = NoFrame
  BY Zenon, <1>2 DEF IInv, PagesAccounted, Resident
<1>4. /\ Install(f, p, [id |-> p, data |-> Zero], TRUE)
      /\ contents' = [contents EXCEPT ![p] = Zero]
      /\ free_pages' = Popped /\ page0' = save(Popped) /\ disk' = WriteBack(Evicted)
      /\ UNCHANGED <<num_pages, root>>
  BY Zenon DEF NewRecycled
<1>5. f # NoFrame
  BY Zenon, <1>4 DEF Install
<1>6. WriteBack(Evicted) \in [PageId -> Page]
  BY Zenon, <1>5, FoundFrame
<1>7. Zero \in Contents /\ Zero # Free
  BY Zenon, PoolAssumption DEF Contents
<1> HIDE DEF p
<1>8. /\ frames' \in [FrameId -> FrameType]
      /\ page_table' \in [PageId -> FrameId \cup {NoFrame}]
      /\ free_frames' \in Seq(FrameId) /\ lru_list' \in Seq(FrameId)
      /\ contents' \in [PageId -> Contents \cup {Free}]
      /\ PoolConsistent' /\ IsInjective(free_frames)' /\ CacheCoherent' /\ Resident'
  BY Zenon, <1>2, <1>3, <1>4, <1>7, Installed
<1>9. /\ Len(Popped) <= MAX_FREE_PAGES /\ PageZeroShared'
      /\ page0' \in [0 .. ROOT_ID_OFFSET -> Nat \cup {INVALID_PAGE_ID}]
  <2>1. Len(Popped) <= MAX_FREE_PAGES
    BY <1>1, <1>2, PoolAssumption
  <2>2. /\ page0' \in [0 .. ROOT_ID_OFFSET -> Nat \cup {INVALID_PAGE_ID}]
        /\ load' = Popped /\ page0'[ROOT_ID_OFFSET] = page0[ROOT_ID_OFFSET]
    BY Zenon, <1>2, <1>4, <2>1, SavedList DEF IInv
  <2> QED BY Zenon, <1>4, <2>1, <2>2 DEF IInv, PageZeroShared
<1>10. TypeOK'
  BY Zenon, <1>2, <1>4, <1>6, <1>8, <1>9 DEF IInv, TypeOK, FrameType
<1>11. contents \in [PageId -> Contents \cup {Free}]
  BY Zenon, Types DEF IInv
<1>12. \A q \in PageId : contents'[q] = Free <=> contents[q] = Free /\ q # p
  BY Zenon, <1>2, <1>3, <1>4, <1>7, <1>11
<1>13. PagesAccounted'
  BY Zenon, <1>2, <1>4, <1>12 DEF IInv, PagesAccounted
<1>14. Beyond'
  <2>1. num_pages \in Nat /\ PageId \subseteq Nat
    BY PoolAssumption DEF IInv, TypeOK, PageId
  <2> QED BY <1>2, <1>3, <1>4, <1>12, <2>1 DEF IInv, Beyond
<1> QED BY Zenon, <1>8, <1>9, <1>10, <1>13, <1>14 DEF IInv

(* The page that the file grows by lies beyond its end.                    *)
LEMMA ExtendedStep == ASSUME IInv, NewExtended PROVE IInv'
<1> DEFINE p == num_pages
           f == find_free_frame
<1>1. /\ p \in PageId /\ num_pages \in 1 .. MaxPages + 1
      /\ contents \in [PageId -> Contents \cup {Free}]
  BY Zenon, Types DEF IInv, NewExtended
<1>2. PageId = 1 .. MaxPages /\ MaxPages \in Nat
  BY Zenon, PoolAssumption DEF PageId
<1>3. contents[p] = Free /\ page_table[p] = NoFrame
  BY <1>1, <1>2 DEF IInv, Beyond, Resident
<1>4. /\ Install(f, p, [id |-> p, data |-> Zero], TRUE)
      /\ contents' = [contents EXCEPT ![p] = Zero]
      /\ disk' = [WriteBack(Evicted) EXCEPT ![p] = [id |-> 0, data |-> Zero]]
      /\ num_pages' = p + 1 /\ UNCHANGED <<free_pages, page0, root>>
  BY Zenon DEF NewExtended
<1>5. f # NoFrame
  BY <1>4 DEF Install
<1>6. WriteBack(Evicted) \in [PageId -> Page]
  BY Zenon, <1>5, FoundFrame
<1>7. Zero \in Contents /\ Zero # Free
  BY Zenon, PoolAssumption DEF Contents
<1>8. disk' \in [PageId -> Page] /\ \A q \in PageId \ {p} : disk'[q] = WriteBack(Evicted)[q]
  <2>1. [id |-> 0, data |-> Zero] \in Page
    BY <1>2, <1>7 DEF Page
  <2> QED BY Zenon, <1>1, <1>4, <1>6, <2>1
<1>9. /\ frames' \in [FrameId -> FrameType]
      /\ page_table' \in [PageId -> FrameId \cup {NoFrame}]
      /\ free_frames' \in Seq(FrameId) /\ lru_list' \in Seq(FrameId)
      /\ contents' \in [PageId -> Contents \cup {Free}]
      /\ PoolConsistent' /\ IsInjective(free_frames)' /\ CacheCoherent' /\ Resident'
  <2> HIDE DEF p
  <2> QED BY Zenon, <1>1, <1>3, <1>4, <1>7, <1>8, Installed
<1>10. num_pages' \in 1 .. MaxPages + 1
  BY <1>1, <1>2, <1>4
<1>11. TypeOK'
  BY Zenon, <1>4, <1>8, <1>9, <1>10 DEF IInv, TypeOK, FrameType
<1>12. \A q \in PageId : contents'[q] = Free <=> contents[q] = Free /\ q # p
  BY Zenon, <1>1, <1>3, <1>4, <1>7
<1>13. \A q \in PageId : (q < num_pages' <=> q < p \/ q = p) /\ (q = p => ~(q < p))
  BY <1>1, <1>2, <1>4
<1>14. PagesAccounted'
  BY Zenon, <1>4, <1>12, <1>13 DEF IInv, PagesAccounted
<1>15. Beyond'
  <2>1. \A q \in PageId : q >= num_pages' => q >= p /\ q # p
    BY <1>1, <1>2, <1>4
  <2> QED BY Zenon, <1>12, <2>1 DEF IInv, Beyond
<1>16. PageZeroShared'
  BY Zenon, <1>4 DEF IInv, PageZeroShared, load
<1> QED BY Zenon, <1>9, <1>11, <1>14, <1>15, <1>16 DEF IInv

(* A deleted page leaves its frame and joins the free list, where it was   *)
(* not yet, because it was allocated.                                      *)
LEMMA DeleteStep == ASSUME IInv, NEW p \in PageId, delete_page(p) PROVE IInv'
<1> DEFINE f == page_table[p]
<1>1. /\ frames \in [FrameId -> FrameType] /\ page_table \in [PageId -> FrameId \cup {NoFrame}]
      /\ lru_list \in Seq(FrameId) /\ contents \in [PageId -> Contents \cup {Free}]
      /\ free_pages \in Seq(PageId) /\ num_pages \in 1 .. MaxPages + 1
  BY Zenon, Types DEF IInv
<1>2. PageId = 1 .. MaxPages /\ MaxPages \in Nat /\ NoFrame \notin FrameId /\ Zero \in Contents
  BY Zenon, PoolAssumption DEF PageId, Contents
<1>3. contents[p] # Free /\ p < num_pages
  BY <1>1, <1>2 DEF delete_page, IInv, Beyond
<1>4. p \in PageId \ ToSet(free_pages)
  BY Zenon, <1>3 DEF IInv, PagesAccounted
<1>5. /\ FreedPages(p) \in Seq(PageId) /\ IsInjective(FreedPages(p))
      /\ ToSet(FreedPages(p)) = ToSet(free_pages) \cup {p}
  BY <1>1, <1>4, AppendFresh DEF IInv, PagesAccounted, FreedPages
<1>6. Len(FreedPages(p)) <= MAX_FREE_PAGES
  <2>1. Len(FreedPages(p)) = Len(free_pages) + 1 /\ Len(free_pages) \in Nat
    BY <1>1 DEF FreedPages
  <2> QED BY <2>1, PoolAssumption DEF delete_page, ListHasRoom
<1>7. /\ free_pages' = FreedPages(p) /\ page0' = save(FreedPages(p))
      /\ contents' = [contents EXCEPT ![p] = Free]
      /\ UNCHANGED <<free_frames, num_pages, disk, root>>
  BY Zenon DEF delete_page
<1>8. PageZeroShared' /\ page0' \in [0 .. ROOT_ID_OFFSET -> Nat \cup {INVALID_PAGE_ID}]
  <2>1. /\ page0' \in [0 .. ROOT_ID_OFFSET -> Nat \cup {INVALID_PAGE_ID}]
        /\ load' = FreedPages(p) /\ page0'[ROOT_ID_OFFSET] = page0[ROOT_ID_OFFSET]
    BY Zenon, <1>5, <1>6, <1>7, SavedList DEF IInv
  <2> QED BY Zenon, <1>7, <2>1 DEF IInv, PageZeroShared
<1>9. /\ contents' \in [PageId -> Contents \cup {Free}] /\ contents'[p] = Free
      /\ \A q \in PageId \ {p} : contents'[q] = contents[q]
  BY Zenon, <1>1, <1>7
<1>10. /\ frames' \in [FrameId -> FrameType]
       /\ page_table' \in [PageId -> FrameId \cup {NoFrame}]
       /\ lru_list' \in Seq(FrameId) /\ page_table'[p] = NoFrame /\ PoolConsistent'
       /\ \A q \in PageId \ {p} : page_table'[q] = page_table[q]
       /\ \A q \in PageId \ {p} : page_table[q] # NoFrame
            => frames'[page_table[q]] = frames[page_table[q]]
  <2>1. CASE f = NoFrame
    <3>1. UNCHANGED <<frames, page_table, lru_list, free_frames>>
      BY Zenon, <1>7, <2>1 DEF delete_page
    <3> QED BY Zenon, <1>1, <2>1, <3>1 DEF IInv, PoolConsistent
  <2>2. CASE f # NoFrame
    <3>1. f \in FrameId /\ frames[f].in_use /\ frames[f].id = p
      BY <1>1, <2>2 DEF IInv, PoolConsistent
    <3>2. /\ frames' = [frames EXCEPT ![f] = ClearFrame]
          /\ page_table' = evict_frame({f}) /\ lru_list' = Without(lru_list, f)
      BY Zenon, <2>2 DEF delete_page
    <3>3. page_table' = [page_table EXCEPT ![p] = NoFrame]
      BY Zenon, <1>1, <3>1, <3>2 DEF evict_frame
    <3>4. /\ lru_list' \in Seq(FrameId) /\ IsInjective(lru_list')
          /\ ToSet(lru_list') = ToSet(lru_list) \ {f}
      BY Zenon, <1>1, <3>2, WithoutFrame DEF IInv, PoolConsistent
    <3>5. ClearFrame \in FrameType /\ ~ClearFrame.in_use
      BY <1>2, PoolAssumption DEF ClearFrame, FrameType
    <3>6. frames' \in [FrameId -> FrameType] /\ frames'[f] = ClearFrame
          /\ \A g \in FrameId : g # f => frames'[g] = frames[g]
      BY Zenon, <1>1, <3>1, <3>2, <3>5
    <3>7. /\ page_table' \in [PageId -> FrameId \cup {NoFrame}] /\ page_table'[p] = NoFrame
          /\ \A q \in PageId \ {p} : page_table'[q] = page_table[q]
      BY Zenon, <1>1, <3>3
    <3>8. \A q \in PageId \ {p} : page_table[q] # f
      BY Zenon, <2>2, <3>1 DEF IInv, PoolConsistent
    <3>9. \A q \in PageId \ {p} : page_table[q] # NoFrame
            => frames'[page_table[q]] = frames[page_table[q]]
      BY Zenon, <1>1, <3>6, <3>8
    <3> HIDE DEF f
    <3>10. \A q \in PageId : page_table'[q] # NoFrame =>
             frames'[page_table'[q]].in_use /\ frames'[page_table'[q]].id = q
      BY <3>7, <3>9 DEF IInv, PoolConsistent
    <3>11. \A g \in FrameId : frames'[g].in_use =>
             frames'[g].id \in PageId /\ page_table'[frames'[g].id] = g
      <4>1. SUFFICES ASSUME NEW g \in FrameId, frames'[g].in_use
                     PROVE  frames'[g].id \in PageId /\ page_table'[frames'[g].id] = g
        BY Zenon
      <4>2. g # f /\ frames'[g] = frames[g]
        BY Zenon, <3>5, <3>6, <4>1
      <4>3. frames[g].id \in PageId /\ page_table[frames[g].id] = g
        BY Zenon, <4>1, <4>2 DEF IInv, PoolConsistent
      <4>4. frames[g].id # p
        BY Zenon, <4>2, <4>3 DEF f
      <4> QED BY Zenon, <3>7, <4>2, <4>3, <4>4
    <3>12. ToSet(lru_list') = {g \in FrameId : frames'[g].in_use}
      BY <3>4, <3>5, <3>6 DEF IInv, PoolConsistent
    <3>13. ToSet(free_frames') \cap ToSet(lru_list') = {}
      BY Zenon, <1>7, <3>4 DEF IInv, PoolConsistent
    <3> QED BY Zenon, <3>4, <3>6, <3>7, <3>9, <3>10, <3>11, <3>12, <3>13 DEF PoolConsistent
  <2> QED BY Zenon, <2>1, <2>2
<1>11. TypeOK'
  BY Zenon, <1>5, <1>6, <1>7, <1>8, <1>9, <1>10 DEF IInv, TypeOK, FrameType
<1>12. CacheCoherent'
  <2>1. SUFFICES ASSUME NEW q \in PageId, contents'[q] # Free
                 PROVE  IF page_table'[q] = NoFrame
                        THEN disk[q] = [id |-> q, data |-> contents'[q]]
                        ELSE /\ frames'[page_table'[q]].data = contents'[q]
                             /\ ~frames'[page_table'[q]].is_dirty
                                  => disk[q] = [id |-> q, data |-> contents'[q]]
    BY Zenon, <1>7 DEF CacheCoherent
  <2>2. q \in PageId \ {p} /\ contents'[q] = contents[q]
    BY Zenon, <1>9, <2>1
  <2> QED BY <1>10, <2>1, <2>2 DEF IInv, CacheCoherent
<1>13. \A q \in PageId : contents'[q] = Free <=> contents[q] = Free \/ q = p
  BY Zenon, <1>9
<1>14. PagesAccounted'
  BY Zenon, <1>3, <1>5, <1>7, <1>13 DEF IInv, PagesAccounted
<1>15. Beyond' /\ Resident'
  BY Zenon, <1>7, <1>10, <1>13 DEF IInv, Beyond, Resident
<1> QED BY Zenon, <1>7, <1>8, <1>10, <1>11, <1>12, <1>14, <1>15 DEF IInv

(* The root slot and the free list are written by different calls.         *)
LEMMA RootStep == ASSUME IInv, NEW p \in PageId, set_root_page_id(p) PROVE IInv'
<1>1. /\ page0' = [page0 EXCEPT ![ROOT_ID_OFFSET] = p] /\ root' = p
      /\ UNCHANGED <<frames, page_table, free_frames, lru_list, free_pages, num_pages, disk, contents>>
  BY Zenon DEF set_root_page_id
<1>2. PageZeroShared' /\ page0' \in [0 .. ROOT_ID_OFFSET -> Nat \cup {INVALID_PAGE_ID}]
  <2>1. /\ MAX_FREE_PAGES \in Nat /\ p \in Nat /\ Len(free_pages) \in Nat
        /\ Len(free_pages) <= MAX_FREE_PAGES /\ DOMAIN free_pages = 1 .. Len(free_pages)
        /\ page0 \in [0 .. ROOT_ID_OFFSET -> Nat \cup {INVALID_PAGE_ID}]
    BY PoolAssumption DEF PageId, IInv, TypeOK
  <2>2. /\ page0' \in [0 .. ROOT_ID_OFFSET -> Nat \cup {INVALID_PAGE_ID}]
        /\ page0'[ROOT_ID_OFFSET] = p
        /\ \A i \in 0 .. MAX_FREE_PAGES : page0'[i] = page0[i]
    BY <1>1, <2>1 DEF ROOT_ID_OFFSET
  <2>3. page0[0] \in Int /\ page0[0] <= MAX_FREE_PAGES
    <3>1. page0[0] \in Nat \cup {INVALID_PAGE_ID} /\ load = free_pages
      BY <2>1 DEF ROOT_ID_OFFSET, IInv, PageZeroShared
    <3>2. DOMAIN free_pages = 1 .. page0[0]
      BY Zenon, <3>1 DEF load
    <3>3. 1 .. page0[0] = 1 .. Len(free_pages)
      BY Zenon, <2>1, <3>2
    <3>4. page0[0] \in Int
      BY <3>1 DEF INVALID_PAGE_ID
    <3> QED BY <2>1, <3>3, <3>4
  <2>4. load' = load
    BY <2>1, <2>2, <2>3 DEF load
  <2> QED BY Zenon, <1>1, <2>2, <2>4 DEF IInv, PageZeroShared
<1>3. TypeOK'
  BY Zenon, <1>1, <1>2 DEF IInv, TypeOK
<1>4. CacheCoherent' /\ PoolConsistent' /\ PagesAccounted'
  BY Zenon, <1>1 DEF IInv, CacheCoherent, PoolConsistent, PagesAccounted
<1>5. IsInjective(free_frames)' /\ Beyond' /\ Resident'
  BY Zenon, <1>1 DEF IInv, Beyond, Resident
<1> QED BY Zenon, <1>2, <1>3, <1>4, <1>5 DEF IInv

(* An empty pool: all frames are free and in no table.                     *)
LEMMA EmptyPool ==
  ASSUME frames' = [f \in FrameId |-> ClearFrame],
         page_table' = [p \in PageId |-> NoFrame],
         free_frames' = SetToSeq(FrameId), lru_list' = <<>>
  PROVE  /\ frames' \in [FrameId -> FrameType]
         /\ page_table' \in [PageId -> FrameId \cup {NoFrame}]
         /\ free_frames' \in Seq(FrameId) /\ lru_list' \in Seq(FrameId)
         /\ PoolConsistent' /\ IsInjective(free_frames)' /\ Resident'
<1>1. ClearFrame \in FrameType /\ ~ClearFrame.in_use
  BY PoolAssumption DEF ClearFrame, FrameType, Contents
<1>2. frames' \in [FrameId -> FrameType] /\ \A f \in FrameId : ~frames'[f].in_use
  BY Zenon, <1>1
<1>3. SetToSeq(FrameId) \in Seq(FrameId) /\ IsInjective(SetToSeq(FrameId))
  BY Zenon, PoolAssumption, SetInOrder
<1>4. ToSet(lru_list') = {} /\ IsInjective(lru_list')
  BY DEF ToSet, IsInjective
<1>5. PoolConsistent'
  BY Zenon, <1>2, <1>4 DEF PoolConsistent
<1> QED BY <1>2, <1>3, <1>5 DEF Resident

(* Closing writes every dirty page back; opening reads the free list.      *)
LEMMA ReopenStep == ASSUME IInv, Reopen PROVE IInv'
<1>1. /\ frames' \in [FrameId -> FrameType]
      /\ page_table' \in [PageId -> FrameId \cup {NoFrame}]
      /\ free_frames' \in Seq(FrameId) /\ lru_list' \in Seq(FrameId)
      /\ PoolConsistent' /\ IsInjective(free_frames)' /\ Resident'
  BY Zenon, EmptyPool DEF Reopen
<1>2. /\ Flushed(PageId) \in [PageId -> Page]
      /\ \A q \in PageId : page_table[q] = NoFrame => Flushed(PageId)[q] = disk[q]
      /\ \A q \in PageId : page_table[q] # NoFrame
           => Flushed(PageId)[q] = [id |-> q, data |-> contents[q]]
  BY Zenon, FlushedPages
<1>3. /\ disk' = Flushed(PageId) /\ page_table' = [p \in PageId |-> NoFrame]
      /\ UNCHANGED <<num_pages, page0, contents, root>>
  BY Zenon DEF Reopen
<1>4. free_pages' = free_pages
  BY Zenon DEF Reopen, IInv, PageZeroShared
<1>5. TypeOK'
  BY Zenon, <1>1, <1>2, <1>3, <1>4 DEF IInv, TypeOK, FrameType
<1>6. \A q \in PageId : contents[q] # Free => Flushed(PageId)[q] = [id |-> q, data |-> contents[q]]
  BY ZenonT(60), <1>2 DEF IInv, CacheCoherent
<1>7. CacheCoherent'
  BY Zenon, <1>3, <1>6 DEF CacheCoherent
<1>8. PagesAccounted' /\ PageZeroShared' /\ Beyond'
  BY Zenon, <1>3, <1>4 DEF IInv, PagesAccounted, PageZeroShared, load, Beyond
<1> QED BY Zenon, <1>1, <1>5, <1>7, <1>8 DEF IInv

-----------------------------------------------------------------------------
(***************************************************************************)
(* The invariant.                                                          *)
(***************************************************************************)
LEMMA InitInv == Init => IInv
<1> SUFFICES ASSUME Init PROVE IInv
  BY Zenon
<1> USE DEF Init
<1>1. MaxPages \in Nat \ {0} /\ PageId = 1 .. MaxPages /\ Zero \in Contents /\ MAX_FREE_PAGES \in Nat
  BY Zenon, PoolAssumption DEF PageId, Contents
<1>2. ClearFrame \in FrameType /\ ~ClearFrame.in_use
  BY <1>1, PoolAssumption DEF ClearFrame, FrameType
<1>3. frames \in [FrameId -> FrameType] /\ \A f \in FrameId : ~frames[f].in_use
  BY Zenon, <1>2
<1>4. free_frames \in Seq(FrameId) /\ IsInjective(free_frames)
  BY Zenon, PoolAssumption, SetInOrder
<1>5. ToSet(<<>>) = {} /\ IsInjective(<<>>)
  BY DEF ToSet, IsInjective
<1>6. disk \in [PageId -> Page]
  BY <1>1 DEF Page
<1>7. TypeOK
  <2>1. page0 \in [0 .. ROOT_ID_OFFSET -> Nat \cup {INVALID_PAGE_ID}]
    BY <1>1 DEF ROOT_ID_OFFSET
  <2>2. /\ lru_list \in Seq(FrameId) /\ free_pages \in Seq(PageId)
        /\ Len(free_pages) <= MAX_FREE_PAGES /\ num_pages \in 1 .. (MaxPages + 1)
    BY <1>1
  <2>3. /\ page_table \in [PageId -> FrameId \cup {NoFrame}]
        /\ contents \in [PageId -> Contents \cup {Free}]
        /\ root \in PageId \cup {INVALID_PAGE_ID}
    BY Zenon
  <2> QED BY Zenon, <1>3, <1>4, <1>6, <2>1, <2>2, <2>3 DEF TypeOK, FrameType
<1>8. PoolConsistent
  BY Zenon, <1>3, <1>5 DEF PoolConsistent
<1>9. CacheCoherent /\ Beyond /\ Resident
  BY Zenon DEF CacheCoherent, Beyond, Resident
<1>10. PagesAccounted
  BY <1>1, <1>5 DEF PagesAccounted
<1>11. PageZeroShared
  <2>1. page0[0] = 0 /\ page0[ROOT_ID_OFFSET] = INVALID_PAGE_ID
    BY <1>1 DEF ROOT_ID_OFFSET
  <2>2. load = <<>>
    <3>1. 1 .. page0[0] = {}
      BY <2>1
    <3>2. DOMAIN load = {}
      BY Zenon, <3>1 DEF load
    <3> HIDE DEF Init
    <3> QED BY <3>1, <3>2 DEF load
  <2> QED BY Zenon, <2>1, <2>2 DEF PageZeroShared
<1> QED BY Zenon, <1>4, <1>7, <1>8, <1>9, <1>10, <1>11 DEF IInv

LEMMA NextInv == IInv /\ [Next]_vars => IInv'
<1> SUFFICES ASSUME IInv, [Next]_vars PROVE IInv'
  BY Zenon
<1>1. CASE \E p \in PageId : FetchHit(p)
  BY Zenon, <1>1, HitStep
<1>2. CASE \E p \in PageId : FetchMiss(p)
  BY Zenon, <1>2, MissStep
<1>3. CASE \E p \in PageId : UnpinRead(p)
  BY Zenon, <1>3, UnpinReadStep
<1>4. CASE \E p \in PageId : \E d \in Data : UnpinWritten(p, d)
  BY Zenon, <1>4, UnpinWrittenStep
<1>5. CASE \E p \in PageId : flush_page(p)
  <2>1. PICK p \in PageId : flush_page(p)
    BY Zenon, <1>5
  <2>2. {p} \in SUBSET PageId
    BY Zenon
  <2> QED BY Zenon, <2>1, <2>2, FlushStep DEF flush_page
<1>6. CASE \E p \in PageId : delete_page(p)
  BY Zenon, <1>6, DeleteStep
<1>7. CASE \E p \in PageId : set_root_page_id(p)
  BY Zenon, <1>7, RootStep
<1>8. CASE flush_all
  BY Zenon, <1>8, FlushStep DEF flush_all
<1>9. CASE NewRecycled
  BY Zenon, <1>9, RecycledStep
<1>10. CASE NewExtended
  BY Zenon, <1>10, ExtendedStep
<1>11. CASE Reopen
  BY Zenon, <1>11, ReopenStep
<1>12. CASE UNCHANGED vars
  BY ZenonT(60), <1>12 DEF vars, IInv, TypeOK, CacheCoherent, PoolConsistent, PagesAccounted,
                PageZeroShared, load, Beyond, Resident
<1> QED BY Zenon, <1>1, <1>2, <1>3, <1>4, <1>5, <1>6, <1>7, <1>8, <1>9, <1>10, <1>11, <1>12 DEF Next

LEMMA SpecInv == Spec => []IInv
  BY InitInv, NextInv, PTL DEF Spec

-----------------------------------------------------------------------------
(***************************************************************************)
(* What a step does to the frames and to the table: nothing that matters   *)
(* here (a hit, an unpin, a flush, the root slot), a page in another frame *)
(* (Install), or a page dropped.                                           *)
(***************************************************************************)
Quiet ==
  /\ UNCHANGED page_table
  /\ \A g \in FrameId : frames'[g].id = frames[g].id

Takes(f, p) ==
  /\ frames[f].in_use => frames[f].pin_count = 0
  /\ \A g \in FrameId \ {f} : frames'[g] = frames[g]
  /\ \A q \in PageId \ {p} :
       page_table'[q] = IF page_table[q] = f THEN NoFrame ELSE page_table[q]

Drops(f, p) ==
  /\ f = page_table[p] /\ frames[f].pin_count = 0
  /\ \A g \in FrameId \ {f} : frames'[g] = frames[g]
  /\ \A q \in PageId \ {p} : page_table'[q] = page_table[q]

LEMMA InstallTakes ==
  ASSUME IInv, NEW p \in PageId, NEW page, NEW dirty, Install(find_free_frame, p, page, dirty)
  PROVE  \E f \in FrameId : Takes(f, p)
<1> DEFINE f == find_free_frame
           new == [id |-> page.id, data |-> page.data, pin_count |-> 1, is_dirty |-> dirty,
                   in_use |-> TRUE]
<1>1. frames \in [FrameId -> FrameType] /\ page_table \in [PageId -> FrameId \cup {NoFrame}]
  BY Zenon, Types DEF IInv
<1>2. f # NoFrame
  BY Zenon DEF Install
<1>3. /\ f \in FrameId /\ (frames[f].in_use => frames[f].pin_count = 0)
      /\ evict_frame(Evicted)
           = [q \in PageId |-> IF page_table[q] = f THEN NoFrame ELSE page_table[q]]
  <2>1. \A g : g = find_free_frame /\ g # NoFrame =>
          /\ g \in FrameId /\ (frames[g].in_use => frames[g].pin_count = 0)
          /\ evict_frame(Evicted)
               = [q \in PageId |-> IF page_table[q] = g THEN NoFrame ELSE page_table[q]]
    BY FoundFrame
  <2> QED BY Zenon, <1>2, <2>1
<1>4. /\ frames' = [frames EXCEPT ![f] = new]
      /\ page_table' = [evict_frame(Evicted) EXCEPT ![p] = f]
  BY Zenon DEF Install
<1> HIDE DEF f, new
<1>5. \A g \in FrameId \ {f} : frames'[g] = frames[g]
  BY Zenon, <1>1, <1>3, <1>4
<1>6. \A q \in PageId \ {p} :
        page_table'[q] = IF page_table[q] = f THEN NoFrame ELSE page_table[q]
  BY Zenon, <1>1, <1>3, <1>4
<1> QED BY ZenonT(60), <1>3, <1>5, <1>6 DEF Takes

LEMMA StepKinds ==
  ASSUME IInv, Next
  PROVE  \/ Quiet \/ Reopen
         \/ \E p \in PageId : page_table[p] = NoFrame /\ \E f \in FrameId : Takes(f, p)
         \/ \E p \in PageId : \E f \in FrameId : Drops(f, p)
<1>1. /\ frames \in [FrameId -> FrameType] /\ page_table \in [PageId -> FrameId \cup {NoFrame}]
      /\ contents \in [PageId -> Contents \cup {Free}] /\ free_pages \in Seq(PageId)
  BY Zenon, Types DEF IInv
<1>2. CASE \E p \in PageId : FetchHit(p)
  BY <1>1, <1>2 DEF FetchHit, Quiet, FrameType
<1>3. CASE \E p \in PageId : UnpinRead(p)
  BY <1>1, <1>3 DEF UnpinRead, Quiet, FrameType
<1>4. CASE \E p \in PageId : \E d \in Data : UnpinWritten(p, d)
  BY <1>1, <1>4 DEF UnpinWritten, Quiet, FrameType
<1>5. CASE (\E p \in PageId : flush_page(p)) \/ flush_all
  <2>1. PICK P \in SUBSET PageId : FlushPages(P) /\ UNCHANGED page_table
    <3>1. \A p \in PageId : {p} \in SUBSET PageId
      BY Zenon
    <3> QED BY Zenon, <1>5, <3>1 DEF flush_page, flush_all
  <2> QED BY Zenon, <1>1, <2>1 DEF FlushPages, Quiet, FrameType
<1>6. CASE \E p \in PageId : set_root_page_id(p)
  BY Zenon, <1>6 DEF set_root_page_id, Quiet
<1>7. CASE \E p \in PageId : FetchMiss(p)
  BY Zenon, <1>7, InstallTakes DEF FetchMiss
<1>8. CASE NewRecycled
  <2>1. Last(free_pages) \in PageId /\ Last(free_pages) \in ToSet(free_pages)
    BY Zenon, <1>1, <1>8, FrontLast DEF NewRecycled
  <2>2. page_table[Last(free_pages)] = NoFrame
    BY Zenon, <2>1 DEF IInv, PagesAccounted, Resident
  <2> QED BY ZenonT(60), <1>8, <2>1, <2>2, InstallTakes DEF NewRecycled
<1>9. CASE NewExtended
  <2>1. num_pages \in PageId /\ num_pages \in Nat
    BY <1>9, PoolAssumption DEF NewExtended, PageId
  <2>2. page_table[num_pages] = NoFrame
    BY <2>1 DEF IInv, Beyond, Resident
  <2> QED BY Zenon, <1>9, <2>1, <2>2, InstallTakes DEF NewExtended
<1>10. CASE \E p \in PageId : delete_page(p)
  <2>1. PICK p \in PageId : delete_page(p)
    BY Zenon, <1>10
  <2>2. CASE page_table[p] = NoFrame
    BY Zenon, <2>1, <2>2 DEF delete_page, Quiet
  <2>3. CASE page_table[p] # NoFrame
    <3> DEFINE f == page_table[p]
    <3>1. f \in FrameId /\ frames[f].id = p
      BY <1>1, <2>3 DEF IInv, PoolConsistent
    <3>2. frames[f].pin_count = 0 /\ frames' = [frames EXCEPT ![f] = ClearFrame]
          /\ page_table' = evict_frame({f})
      BY Zenon, <2>1, <2>3 DEF delete_page
    <3>3. \A q \in PageId \ {p} : page_table'[q] = page_table[q]
      BY Zenon, <3>1, <3>2 DEF evict_frame
    <3>4. Drops(f, p)
      BY ZenonT(60), <1>1, <3>1, <3>2, <3>3 DEF Drops
    <3> QED BY Zenon, <3>1, <3>4
  <2> QED BY Zenon, <2>2, <2>3
<1> QED BY Zenon, <1>2, <1>3, <1>4, <1>5, <1>6, <1>7, <1>8, <1>9, <1>10 DEF Next

-----------------------------------------------------------------------------
(***************************************************************************)
(* Theorems.                                                               *)
(***************************************************************************)
(* Every variable of the pool keeps its type; in particular the free list  *)
(* never outgrows page 0, and the file never shrinks below page 0.         *)
THEOREM TypeCorrect == Spec => []TypeOK
  BY SpecInv, PTL DEF IInv

(* No write is lost or misplaced: for any number of frames and pages, a    *)
(* page is what its last writer left, whatever was evicted, written back,  *)
(* recycled or reopened in between.                                        *)
THEOREM NoWriteIsLost == Spec => []CacheCoherent
  BY SpecInv, PTL DEF IInv

(* page_table_, the frames' headers, the LRU list and free_frames_ agree:  *)
(* no page is in two frames.                                               *)
THEOREM IndexesAgree == Spec => []PoolConsistent
  BY SpecInv, PTL DEF IInv

(* allocate() never hands out a page that is in use, and free() loses none.*)
THEOREM PagesAreAccounted == Spec => []PagesAccounted
  BY SpecInv, PTL DEF IInv

(* FreeList::save and set_root_page_id keep each other's part of page 0.   *)
THEOREM PageZeroIsShared == Spec => []PageZeroShared
  BY SpecInv, PTL DEF IInv

(* A pointer from fetch_page or new_page stays good while it is pinned.    *)
THEOREM PinsHold == Spec => PinnedPagesStay
<1> DEFINE Step == \A p \in PageId :
       page_table[p] # NoFrame /\ frames[page_table[p]].pin_count > 0
       => page_table'[p] = page_table[p] /\ frames'[page_table[p]].id = p
<1>1. ASSUME IInv, Next PROVE Step
  <2> SUFFICES ASSUME NEW p \in PageId, page_table[p] # NoFrame,
                      frames[page_table[p]].pin_count > 0
               PROVE  page_table'[p] = page_table[p] /\ frames'[page_table[p]].id = p
    BY Zenon
  <2> DEFINE g == page_table[p]
  <2>1. g \in FrameId /\ frames[g].in_use /\ frames[g].id = p /\ frames[g].pin_count # 0
    <3>1. page_table \in [PageId -> FrameId \cup {NoFrame}]
      BY Zenon, <1>1, Types DEF IInv
    <3> QED BY <1>1, <3>1 DEF IInv, PoolConsistent
  <2>2. CASE Quiet
    BY Zenon, <2>1, <2>2 DEF Quiet
  <2>3. CASE Reopen
    BY Zenon, <2>1, <2>3 DEF Reopen
  <2>4. ASSUME NEW q \in PageId, page_table[q] = NoFrame, NEW f \in FrameId, Takes(f, q)
        PROVE  page_table'[p] = g /\ frames'[g].id = p
    BY Zenon, <2>1, <2>4 DEF Takes
  <2>5. ASSUME NEW q \in PageId, NEW f \in FrameId, Drops(f, q)
        PROVE  page_table'[p] = g /\ frames'[g].id = p
    <3>1. g # f /\ p # q
      BY Zenon, <2>1, <2>5 DEF Drops
    <3> QED BY Zenon, <2>1, <2>5, <3>1 DEF Drops
  <2> QED BY <1>1, <2>2, <2>3, <2>4, <2>5, StepKinds
<1>2. IInv /\ [Next]_vars => [Step]_vars
  BY Zenon, <1>1
<1> QED BY <1>2, SpecInv, PTL DEF Spec, PinnedPagesStay
=============================================================================
