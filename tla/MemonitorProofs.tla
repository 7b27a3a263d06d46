--------------------------- MODULE MemonitorProofs ---------------------------
(***************************************************************************)
(* What a consumer of the memory monitor copies, for any number of         *)
(* consumers, cache sizes and cycles.                                      *)
(*                                                                         *)
(* CopiesAreNews speaks of copies made long ago.  Stored(k) is the cycle   *)
(* whose sample a cache holds; CachesHold says that its valid entries are  *)
(* that sample's, NewsStored that nothing newer has been announced.        *)
(***************************************************************************)
EXTENDS Memonitor, SequenceTheorems, TLAPS

\* The cycle whose sample cache k holds.
Stored(k) == IF k = "threads" /\ step = "threads" THEN cycle - 1 ELSE cycle

CopyType == [list : Seq(0 .. MaxCycles), max : 0 .. CacheSize, news : 0 .. MaxCycles]

\* Types, and that the handler of the first cycle has begun with it.
Types ==
  /\ TypeOK
  /\ step = "threads" => cycle > 0
  /\ sampled \in [Kinds -> [0 .. MaxCycles -> 0 .. CacheSize]]
  /\ copy \in [Readers -> [Kinds -> CopyType]]

\* The valid entries of a cache are the last stored sample.
CachesHold ==
  \A k \in Kinds :
    /\ count[k] = sampled[k][Stored(k)]
    /\ \A i \in 1 .. count[k] : cache[k][i] = Stored(k)

\* Nothing is announced before both caches hold it.
NewsStored ==
  /\ \A k \in Kinds : message.cycle <= Stored(k)
  /\ \A r \in Readers : told[r] <= message.cycle

\* A copy that was told of cycle `news` at the time.
Whole(c, k) ==
  \E n \in c.news .. Stored(k) :
    c.list = [i \in 1 .. Min({sampled[k][n], c.max}) |-> n]

CopiesWhole == \A r \in Readers, k \in Kinds : Whole(copy[r][k], k)

MemInv == Types /\ CachesHold /\ NewsStored /\ CopiesWhole
----------------------------------------------------------------------------
LEMMA MinPair ==
  ASSUME NEW a \in Nat, NEW b \in Nat
  PROVE  /\ Min({a, b}) \in Nat
         /\ Min({a, b}) <= a /\ Min({a, b}) <= b
         /\ Min({a, b}) = a \/ Min({a, b}) = b
<1>1. \E x \in {a, b} : \A y \in {a, b} : x <= y
  <2>1. a <= b \/ b <= a
    BY SMT
  <2>. QED
    BY <2>1, SMT
<1>2. Min({a, b}) \in {a, b} /\ \A y \in {a, b} : Min({a, b}) <= y
  BY <1>1 DEF Min
<1>. QED
  BY <1>2

LEMMA KindsAre == Kinds = {"heaps", "threads"} /\ "heaps" \in Kinds /\ "threads" \in Kinds
  BY DEF Kinds

LEMMA StoredType ==
  ASSUME Types, NEW k \in Kinds
  PROVE  Stored(k) \in 0 .. MaxCycles /\ Stored(k) <= cycle
  BY MemonitorAssumption, SMT DEF Types, TypeOK, Stored, MemonitorAssumption

\* What a getter copies is a prefix of the sample that the cache holds.
LEMMA CopiedIsSample ==
  ASSUME Types, CachesHold, NEW k \in Kinds, NEW max \in 1 .. CacheSize
  PROVE  Copied(k, max) = [i \in 1 .. Min({sampled[k][Stored(k)], max}) |-> Stored(k)]
<1> DEFINE n == Min({count[k], max})
           S == 0 .. MaxCycles
<1>1. count[k] \in 0 .. CacheSize /\ count[k] = sampled[k][Stored(k)] /\ max \in Nat
  BY SMT, MemonitorAssumption DEF Types, TypeOK, CachesHold, MemonitorAssumption
<1>2. n \in Nat /\ n <= count[k] /\ n <= CacheSize
  BY <1>1, MinPair, MemonitorAssumption, SMT DEF MemonitorAssumption
<1>3. \A i \in 1 .. n : cache[k][i] \in S /\ cache[k][i] = Stored(k)
  <2>1. cache[k] \in [1 .. CacheSize -> S]
    BY DEF Types, TypeOK
  <2>. QED
    BY <1>1, <1>2, <2>1, MemonitorAssumption, SMT DEF CachesHold, MemonitorAssumption
<1>. HIDE DEF n
<1>4. SubSeq(cache[k], 1, n) \in Seq(S) /\ Len(SubSeq(cache[k], 1, n)) = n
      /\ \A i \in 1 .. n : SubSeq(cache[k], 1, n)[i] = cache[k][i]
  <2>1. n - 1 + 1 = n /\ 1 \in Int /\ n \in Int /\ (1 <= n \/ n = 0)
    BY <1>2, SMT
  <2>. HIDE DEF S
  <2>2. /\ SubSeq(cache[k], 1, n) \in Seq(S)
        /\ Len(SubSeq(cache[k], 1, n)) = IF 1 <= n THEN n - 1 + 1 ELSE 0
        /\ \A i \in 1 .. n - 1 + 1 : SubSeq(cache[k], 1, n)[i] = cache[k][1 + i - 1]
    <3>1. \A i \in 1 .. n : cache[k][i] \in S
      BY <1>3
    <3>. QED
      BY <3>1, <2>1, SubSeqProperties
  <2>3. \A i \in 1 .. n : 1 + i - 1 = i
    BY <1>2, SMT
  <2>4. \A i \in 1 .. n : SubSeq(cache[k], 1, n)[i] = cache[k][i]
    <3>. TAKE i \in 1 .. n
    <3>1. i \in 1 .. n - 1 + 1 /\ 1 + i - 1 = i
      BY <2>1, <2>3
    <3>. QED
      BY <2>2, <3>1
  <2>5. Len(SubSeq(cache[k], 1, n)) = n
    BY <2>1, <2>2, <1>2, SMT
  <2>. QED
    BY <2>2, <2>4, <2>5
<1>5. SubSeq(cache[k], 1, n) = [i \in 1 .. n |-> Stored(k)]
  <2>1. SubSeq(cache[k], 1, n) = [i \in 1 .. n |-> SubSeq(cache[k], 1, n)[i]]
    BY <1>4, LenProperties, Zenon
  <2>. QED
    BY <1>3, <1>4, <2>1, Zenon
<1>. QED
  BY <1>1, <1>5 DEF Copied, n

\* A copy stays whole while its cache's sample and the earlier ones stay, and
\* when a later one is stored.
LEMMA CopyKeeps ==
  ASSUME Types, Types', NEW r \in Readers, NEW k \in Kinds,
         Whole(copy[r][k], k), copy'[r][k] = copy[r][k],
         Stored(k) <= Stored(k)',
         \A n \in 0 .. Stored(k) : sampled'[k][n] = sampled[k][n]
  PROVE  Whole(copy[r][k], k)'
<1>1. PICK n \in copy[r][k].news .. Stored(k) :
        copy[r][k].list = [i \in 1 .. Min({sampled[k][n], copy[r][k].max}) |-> n]
  BY DEF Whole
<1>2. n \in 0 .. Stored(k) /\ n \in copy[r][k].news .. Stored(k)'
  <2>1. Stored(k)' \in Int
    BY SMT DEF Types, TypeOK, Stored
  <2>2. copy[r][k].news \in Nat
    BY DEF Types, CopyType
  <2>. QED
    BY <2>1, <2>2, StoredType, SMT
<1>3. sampled'[k][n] = sampled[k][n]
  BY <1>2
<1>4. \E m \in copy'[r][k].news .. Stored(k)' :
        copy'[r][k].list = [i \in 1 .. Min({sampled'[k][m], copy'[r][k].max}) |-> m]
  BY <1>1, <1>2, <1>3
<1>. QED
  BY <1>4 DEF Whole

LEMMA CopiesKeep ==
  ASSUME Types, Types', CopiesWhole, copy' = copy,
         \A k \in Kinds : Stored(k) <= Stored(k)',
         \A k \in Kinds : \A n \in 0 .. Stored(k) : sampled'[k][n] = sampled[k][n]
  PROVE  CopiesWhole'
<1>. SUFFICES ASSUME NEW r \in Readers, NEW k \in Kinds
              PROVE  Whole(copy[r][k], k)'
  BY DEF CopiesWhole
<1>1. Whole(copy[r][k], k) /\ copy'[r][k] = copy[r][k]
  BY DEF CopiesWhole
<1>. QED
  BY <1>1, CopyKeeps
----------------------------------------------------------------------------
LEMMA MemInit == Init => MemInv
<1>. SUFFICES ASSUME Init PROVE MemInv
  OBVIOUS
<1>. USE MemonitorAssumption DEF MemonitorAssumption
<1>1. Types
  <2>1. [list |-> << >>, max |-> 0, news |-> 0] \in CopyType
    BY SMT DEF CopyType
  <2>2. copy \in [Readers -> [Kinds -> CopyType]]
    BY <2>1 DEF Init
  <2>3. TypeOK /\ sampled \in [Kinds -> [0 .. MaxCycles -> 0 .. CacheSize]] /\ step = "idle"
    BY SMT DEF Init, TypeOK, Kinds, Free
  <2>. QED
    BY <2>2, <2>3 DEF Types
<1>2. CachesHold
  BY SMT DEF Init, CachesHold, Stored, Kinds
<1>3. NewsStored
  BY SMT DEF Init, NewsStored, Stored, Kinds
<1>4. CopiesWhole
  <2>. SUFFICES ASSUME NEW r \in Readers, NEW k \in Kinds
                PROVE  Whole(copy[r][k], k)
    BY DEF CopiesWhole
  <2>1. copy[r][k] = [list |-> << >>, max |-> 0, news |-> 0]
    BY DEF Init
  <2>2. Stored(k) = 0 /\ sampled[k][0] = 0 /\ 0 \in 0 .. 0
    BY SMT DEF Init, Stored
  <2>3. Min({0, 0}) = 0
    BY MinPair, SMT
  <2>4. << >> = [i \in 1 .. 0 |-> 0]
    BY SMT
  <2>5. << >> = [i \in 1 .. Min({sampled[k][0], 0}) |-> 0]
    BY <2>2, <2>3, <2>4
  <2>6. copy[r][k].news = 0 /\ copy[r][k].list = << >> /\ copy[r][k].max = 0
    BY <2>1
  <2>7. 0 \in copy[r][k].news .. Stored(k)
    BY <2>2, <2>6, SMT
  <2>8. QED
    <3>. SUFFICES \E n \in copy[r][k].news .. Stored(k) :
                    copy[r][k].list
                      = [i \in 1 .. Min({sampled[k][n], copy[r][k].max}) |-> n]
      BY DEF Whole
    <3>. WITNESS 0 \in copy[r][k].news .. Stored(k)
    <3>. QED
      BY <2>5, <2>6
<1>. QED
  BY <1>1, <1>2, <1>3, <1>4 DEF MemInv

LEMMA SampleHeapsKeeps == ASSUME MemInv, SampleHeaps PROVE MemInv'
<1>. USE MemonitorAssumption DEF MemonitorAssumption
<1>1. Types /\ CachesHold /\ NewsStored /\ CopiesWhole
  BY DEF MemInv
<1>2. PICK n \in 0 .. CacheSize :
        /\ count' = [count EXCEPT !["heaps"] = n]
        /\ cache' = [cache EXCEPT !["heaps"] =
                       [i \in 1 .. CacheSize |-> IF i <= n THEN cycle' ELSE @[i]]]
        /\ sampled' = [sampled EXCEPT !["heaps"][cycle'] = n]
  <2>1. PICK found \in 0 .. CacheSize + 1 :
          /\ Store("heaps", Fitting(found))
          /\ sampled' = [sampled EXCEPT !["heaps"][cycle'] = Fitting(found)]
    BY DEF SampleHeaps
  <2>2. Fitting(found) \in 0 .. CacheSize
    BY MinPair, SMT DEF Fitting
  <2>. QED
    BY <2>1, <2>2 DEF Store
<1>3. /\ step = "idle" /\ step' = "threads" /\ cycle' = cycle + 1 /\ cycle < MaxCycles
      /\ pending' = FALSE /\ UNCHANGED <<message, holder, told, copy>>
  BY DEF SampleHeaps
<1>4. Types'
  <2>1. /\ count \in [Kinds -> 0 .. CacheSize]
        /\ cache \in [Kinds -> [1 .. CacheSize -> 0 .. MaxCycles]]
        /\ sampled \in [Kinds -> [0 .. MaxCycles -> 0 .. CacheSize]]
        /\ holder \in Readers \union {Free} /\ told \in [Readers -> 0 .. MaxCycles]
        /\ pending \in BOOLEAN
    BY <1>1 DEF Types, TypeOK
  <2>2. cycle' \in 0 .. MaxCycles /\ cycle' > 0 /\ message.cycle \in 0 .. cycle'
    BY <1>1, <1>2, <1>3, SMT DEF Types, TypeOK
  <2>3. count' \in [Kinds -> 0 .. CacheSize]
    BY <1>2, <1>3, <2>1, Zenon
  <2>4. cache' \in [Kinds -> [1 .. CacheSize -> 0 .. MaxCycles]]
    <3>1. [i \in 1 .. CacheSize |-> IF i <= n THEN cycle' ELSE cache["heaps"][i]]
             \in [1 .. CacheSize -> 0 .. MaxCycles]
      BY <1>2, <1>3, <2>1, <2>2, KindsAre
    <3>. QED
      BY <1>2, <1>3, <2>1, <3>1, Zenon
  <2>5. sampled' \in [Kinds -> [0 .. MaxCycles -> 0 .. CacheSize]]
    BY <1>2, <1>3, <2>1, <2>2, Zenon
  <2>6. copy' \in [Readers -> [Kinds -> CopyType]]
    BY <1>1, <1>3 DEF Types
  <2>. QED
    BY <1>2, <1>3, <2>1, <2>2, <2>3, <2>4, <2>5, <2>6 DEF Types, TypeOK
<1>5. /\ Stored("heaps")' = cycle + 1 /\ Stored("threads")' = cycle
      /\ \A k \in Kinds : Stored(k) = cycle
  BY <1>1, <1>3, SMT DEF Stored, Types, TypeOK
<1>6. \A k \in Kinds : \A m \in 0 .. Stored(k) : sampled'[k][m] = sampled[k][m]
  <2>. TAKE k \in Kinds
  <2>. TAKE m \in 0 .. Stored(k)
  <2>1. m # cycle' /\ m \in 0 .. MaxCycles
    BY <1>1, <1>3, <1>5, SMT DEF Types, TypeOK
  <2>2. sampled \in [Kinds -> [0 .. MaxCycles -> 0 .. CacheSize]]
    BY <1>1 DEF Types
  <2>. QED
    BY <1>2, <2>1, <2>2, Zenon
<1>7. CachesHold'
  <2>0. /\ count \in [Kinds -> 0 .. CacheSize] /\ cycle' \in 0 .. MaxCycles
        /\ cache \in [Kinds -> [1 .. CacheSize -> 0 .. MaxCycles]]
        /\ sampled \in [Kinds -> [0 .. MaxCycles -> 0 .. CacheSize]]
    BY <1>1, <1>4 DEF Types, TypeOK
  <2>3. \A i \in 1 .. n : i \in 1 .. CacheSize /\ i <= n
    BY SMT
  <2>4. \A i \in 1 .. CacheSize :
          cache'["heaps"][i] = IF i <= n THEN cycle' ELSE cache["heaps"][i]
    BY <1>2, <2>0, KindsAre, Zenon
  <2>1. /\ count'["heaps"] = n /\ sampled'["heaps"][cycle'] = n
        /\ \A i \in 1 .. n : cache'["heaps"][i] = cycle'
    BY <1>2, <2>0, <2>3, <2>4, KindsAre, Zenon
  <2>2. /\ count'["threads"] = count["threads"] /\ cache'["threads"] = cache["threads"]
        /\ sampled'["threads"] = sampled["threads"]
    BY <1>1, <1>2, KindsAre DEF Types, TypeOK
  <2>. QED
    BY <1>1, <1>3, <1>5, <2>1, <2>2, KindsAre DEF CachesHold
<1>8. NewsStored'
  <2>1. message.cycle <= cycle /\ cycle \in Nat /\ message.cycle \in Nat
    BY <1>1, SMT DEF Types, TypeOK
  <2>2. \A k \in Kinds : message.cycle <= Stored(k)'
    BY <1>3, <1>5, <2>1, KindsAre
  <2>. QED
    BY <1>1, <1>3, <2>2 DEF NewsStored
<1>9. CopiesWhole'
  <2>1. cycle \in Nat
    BY <1>1, SMT DEF Types, TypeOK
  <2>2. \A k \in Kinds : Stored(k) <= Stored(k)'
    BY <1>5, <2>1, KindsAre, SMT
  <2>. QED
    BY <1>1, <1>3, <1>4, <1>6, <2>2, CopiesKeep
<1>. QED
  BY <1>4, <1>7, <1>8, <1>9 DEF MemInv

LEMMA SampleThreadsKeeps == ASSUME MemInv, SampleThreads PROVE MemInv'
<1>. USE MemonitorAssumption DEF MemonitorAssumption
<1>1. Types /\ CachesHold /\ NewsStored /\ CopiesWhole
  BY DEF MemInv
<1>2. /\ step = "threads" /\ step' = "publish" /\ cycle' = cycle
      /\ UNCHANGED <<pending, message, holder, told, copy>>
  BY DEF SampleThreads
<1>3. PICK n \in 0 .. CacheSize :
        /\ count' = [count EXCEPT !["threads"] = n]
        /\ cache' = [cache EXCEPT !["threads"] =
                       [i \in 1 .. CacheSize |-> IF i <= n THEN cycle ELSE @[i]]]
        /\ sampled' = [sampled EXCEPT !["threads"][cycle] = n]
  <2>1. PICK found \in 1 .. CacheSize + 1 :
          /\ Store("threads", Fitting(found))
          /\ sampled' = [sampled EXCEPT !["threads"][cycle] = Fitting(found)]
    BY DEF SampleThreads
  <2>2. Fitting(found) \in 0 .. CacheSize
    BY MinPair, SMT DEF Fitting
  <2>. QED
    BY <1>2, <2>1, <2>2 DEF Store
<1>4. Types'
  <2>1. /\ count \in [Kinds -> 0 .. CacheSize]
        /\ cache \in [Kinds -> [1 .. CacheSize -> 0 .. MaxCycles]]
        /\ sampled \in [Kinds -> [0 .. MaxCycles -> 0 .. CacheSize]]
        /\ holder \in Readers \union {Free} /\ told \in [Readers -> 0 .. MaxCycles]
        /\ pending \in BOOLEAN
    BY <1>1 DEF Types, TypeOK
  <2>2. cycle' \in 0 .. MaxCycles /\ cycle' > 0 /\ message.cycle \in 0 .. cycle'
    BY <1>1, <1>2, <1>3, SMT DEF Types, TypeOK
  <2>3. count' \in [Kinds -> 0 .. CacheSize]
    BY <1>2, <1>3, <2>1, Zenon
  <2>4. cache' \in [Kinds -> [1 .. CacheSize -> 0 .. MaxCycles]]
    <3>1. [i \in 1 .. CacheSize |-> IF i <= n THEN cycle ELSE cache["threads"][i]]
             \in [1 .. CacheSize -> 0 .. MaxCycles]
      BY <1>2, <1>3, <2>1, <2>2, KindsAre
    <3>. QED
      BY <1>2, <1>3, <2>1, <3>1, Zenon
  <2>5. sampled' \in [Kinds -> [0 .. MaxCycles -> 0 .. CacheSize]]
    BY <1>2, <1>3, <2>1, <2>2, Zenon
  <2>6. copy' \in [Readers -> [Kinds -> CopyType]]
    BY <1>1, <1>2 DEF Types
  <2>. QED
    BY <1>2, <1>3, <2>1, <2>2, <2>3, <2>4, <2>5, <2>6 DEF Types, TypeOK
<1>5. /\ Stored("heaps") = cycle /\ Stored("threads") = cycle - 1
      /\ \A k \in Kinds : Stored(k)' = cycle
  BY <1>1, <1>2, SMT DEF Stored, Types, TypeOK
<1>6. \A k \in Kinds : \A m \in 0 .. Stored(k) : sampled'[k][m] = sampled[k][m]
  <2>. TAKE k \in Kinds
  <2>. TAKE m \in 0 .. Stored(k)
  <2>1. (k = "heaps" \/ m # cycle) /\ m \in 0 .. MaxCycles
    <3>1. cycle \in 0 .. MaxCycles /\ k \in {"heaps", "threads"}
      BY <1>1, KindsAre DEF Types, TypeOK
    <3>. QED
      BY <1>5, <3>1, SMT
  <2>2. sampled \in [Kinds -> [0 .. MaxCycles -> 0 .. CacheSize]]
    BY <1>1 DEF Types
  <2>. QED
    BY <1>3, <2>1, <2>2, Zenon
<1>7. CachesHold'
  <2>0. /\ count \in [Kinds -> 0 .. CacheSize] /\ cycle \in 0 .. MaxCycles
        /\ cache \in [Kinds -> [1 .. CacheSize -> 0 .. MaxCycles]]
        /\ sampled \in [Kinds -> [0 .. MaxCycles -> 0 .. CacheSize]]
    BY <1>1 DEF Types, TypeOK
  <2>3. \A i \in 1 .. n : i \in 1 .. CacheSize /\ i <= n
    BY SMT
  <2>4. \A i \in 1 .. CacheSize :
          cache'["threads"][i] = IF i <= n THEN cycle ELSE cache["threads"][i]
    BY <1>3, <2>0, KindsAre, Zenon
  <2>1. /\ count'["threads"] = n /\ sampled'["threads"][cycle] = n
        /\ \A i \in 1 .. n : cache'["threads"][i] = cycle
    BY <1>3, <2>0, <2>3, <2>4, KindsAre, Zenon
  <2>2. /\ count'["heaps"] = count["heaps"] /\ cache'["heaps"] = cache["heaps"]
        /\ sampled'["heaps"] = sampled["heaps"]
    BY <1>1, <1>3, KindsAre DEF Types, TypeOK
  <2>. QED
    BY <1>1, <1>2, <1>5, <2>1, <2>2, KindsAre DEF CachesHold
<1>8. NewsStored'
  BY <1>1, <1>2, <1>5, SMT DEF NewsStored, Types, TypeOK, Kinds
<1>9. CopiesWhole'
  <2>1. cycle \in Nat
    BY <1>1, SMT DEF Types, TypeOK
  <2>2. \A k \in Kinds : Stored(k) <= Stored(k)'
    BY <1>5, <2>1, KindsAre, SMT
  <2>. QED
    BY <1>1, <1>2, <1>4, <1>6, <2>2, CopiesKeep
<1>. QED
  BY <1>4, <1>7, <1>8, <1>9 DEF MemInv

\* Steps that leave the caches and the samples alone.
LEMMA Undisturbed ==
  ASSUME MemInv, Types', UNCHANGED <<cycle, count, cache, sampled>>,
         \A k \in Kinds : Stored(k)' = Stored(k)
  PROVE  /\ CachesHold'
         /\ copy' = copy => CopiesWhole'
<1>1. Types /\ CachesHold /\ CopiesWhole
  BY DEF MemInv
<1>2. CachesHold'
  BY <1>1 DEF CachesHold
<1>3. \A k \in Kinds : Stored(k) <= Stored(k)'
  <2>1. \A k \in Kinds : Stored(k) \in Int
    BY <1>1, SMT DEF Types, TypeOK, Stored
  <2>. QED
    BY <2>1, SMT
<1>4. ASSUME copy' = copy PROVE CopiesWhole'
  BY <1>1, <1>3, <1>4, CopiesKeep
<1>. QED
  BY <1>2, <1>4

LEMMA PublishKeeps == ASSUME MemInv, Publish PROVE MemInv'
<1>. USE MemonitorAssumption DEF MemonitorAssumption
<1>1. Types /\ CachesHold /\ NewsStored /\ CopiesWhole
  BY DEF MemInv
<1>2. /\ step = "publish" /\ step' = "idle" /\ pending' = TRUE
      /\ message' = IF holder = Free THEN [cycle |-> cycle, count |-> count] ELSE message
      /\ UNCHANGED <<cycle, count, cache, holder, told, copy, sampled>>
  BY DEF Publish
<1>3. message'.cycle = cycle \/ message'.cycle = message.cycle
  BY <1>2
<1>4. Types'
  <2>1. message'.cycle \in 0 .. cycle
    BY <1>1, <1>3, SMT DEF Types, TypeOK
  <2>. QED
    BY <1>1, <1>2, <2>1 DEF Types, TypeOK
<1>5. \A k \in Kinds : Stored(k)' = Stored(k) /\ Stored(k) = cycle
  BY <1>2 DEF Stored
<1>6. CachesHold' /\ CopiesWhole'
  BY <1>2, <1>4, <1>5, Undisturbed
<1>7. NewsStored'
  <2>1. message.cycle <= message'.cycle /\ message'.cycle <= cycle
    BY <1>1, <1>3, SMT DEF Types, TypeOK
  <2>2. \A r \in Readers : told[r] <= message'.cycle
    BY <1>1, <1>3, <2>1, SMT DEF NewsStored, Types, TypeOK
  <2>. QED
    BY <1>2, <1>5, <2>1, <2>2 DEF NewsStored
<1>. QED
  BY <1>4, <1>6, <1>7 DEF MemInv

LEMMA ClaimKeeps == ASSUME MemInv, NEW r \in Readers, Claim(r) PROVE MemInv'
<1>1. Types /\ NewsStored
  BY DEF MemInv
<1>2. /\ holder' = r
      /\ UNCHANGED <<pending, step, cycle, count, cache, message, told, copy, sampled>>
  BY DEF Claim
<1>3. Types'
  BY <1>1, <1>2 DEF Types, TypeOK
<1>4. \A k \in Kinds : Stored(k)' = Stored(k)
  BY <1>2 DEF Stored
<1>5. CachesHold' /\ CopiesWhole'
  BY <1>2, <1>3, <1>4, Undisturbed
<1>6. NewsStored'
  BY <1>1, <1>2, <1>4 DEF NewsStored
<1>. QED
  BY <1>3, <1>5, <1>6 DEF MemInv

LEMMA HearKeeps == ASSUME MemInv, NEW r \in Readers, Hear(r) PROVE MemInv'
<1>1. Types /\ NewsStored
  BY DEF MemInv
<1>2. /\ holder' = Free /\ told' = [told EXCEPT ![r] = message.cycle]
      /\ UNCHANGED <<pending, step, cycle, count, cache, message, copy, sampled>>
  BY DEF Hear
<1>3. message.cycle \in 0 .. MaxCycles
  BY <1>1, MemonitorAssumption, SMT DEF Types, TypeOK, MemonitorAssumption
<1>4. Types'
  <2>1. told' \in [Readers -> 0 .. MaxCycles]
    BY <1>1, <1>2, <1>3 DEF Types, TypeOK
  <2>. QED
    BY <1>1, <1>2, <2>1 DEF Types, TypeOK
<1>5. \A k \in Kinds : Stored(k)' = Stored(k)
  BY <1>2 DEF Stored
<1>6. CachesHold' /\ CopiesWhole'
  BY <1>2, <1>4, <1>5, Undisturbed
<1>7. NewsStored'
  <2>1. \A q \in Readers : told'[q] <= message.cycle
    BY <1>1, <1>2, <1>3, SMT DEF NewsStored, Types, TypeOK
  <2>. QED
    BY <1>1, <1>2, <1>5, <2>1 DEF NewsStored
<1>. QED
  BY <1>4, <1>6, <1>7 DEF MemInv

LEMMA GetKeeps == ASSUME MemInv, NEW r \in Readers, NEW k \in Kinds, Get(r, k) PROVE MemInv'
<1>1. Types /\ CachesHold /\ NewsStored /\ CopiesWhole
  BY DEF MemInv
<1>2. PICK max \in 1 .. CacheSize :
        copy' = [copy EXCEPT ![r][k] = [list |-> Copied(k, max), max |-> max, news |-> told[r]]]
  BY DEF Get
<1>3. UNCHANGED <<pending, step, cycle, count, cache, message, holder, told, sampled>>
  BY DEF Get
<1> DEFINE S == 0 .. MaxCycles
           n == Stored(k)
           m == Min({sampled[k][n], max})
           c == [list |-> Copied(k, max), max |-> max, news |-> told[r]]
<1>4. n \in S /\ told[r] \in S /\ told[r] <= n /\ max \in 0 .. CacheSize
  <2>1. /\ n \in S /\ told[r] \in S
        /\ told[r] <= message.cycle /\ message.cycle <= n /\ message.cycle \in Nat
    BY <1>1, StoredType DEF NewsStored, Types, TypeOK
  <2>. QED
    BY <2>1, MemonitorAssumption, SMT DEF MemonitorAssumption
<1>5. Copied(k, max) = [i \in 1 .. m |-> n]
  BY <1>1, CopiedIsSample
<1>6. c \in CopyType
  <2>1. sampled[k][n] \in Nat
    BY <1>1, <1>4, MemonitorAssumption, SMT DEF Types, MemonitorAssumption
  <2>2. m \in Nat
    BY <1>4, <2>1, MinPair, MemonitorAssumption, SMT DEF MemonitorAssumption
  <2>3. Copied(k, max) \in Seq(S)
    <3>. HIDE DEF m, n, S
    <3>. QED
      BY <1>4, <1>5, <2>2, SMT
  <2>. QED
    BY <1>4, <2>3 DEF CopyType
<1>7. Types'
  <2>1. copy' \in [Readers -> [Kinds -> CopyType]]
    <3>. HIDE DEF c
    <3>. QED
      BY <1>1, <1>2, <1>6, Zenon DEF Types, c
  <2>. QED
    BY <1>1, <1>3, <2>1 DEF Types, TypeOK
<1>8. \A j \in Kinds : Stored(j)' = Stored(j)
  BY <1>3 DEF Stored
<1>9. CachesHold'
  BY <1>3, <1>7, <1>8, Undisturbed
<1>10. NewsStored'
  BY <1>1, <1>3, <1>8 DEF NewsStored
<1>11. CopiesWhole'
  <2>. SUFFICES ASSUME NEW q \in Readers, NEW j \in Kinds PROVE Whole(copy[q][j], j)'
    BY DEF CopiesWhole
  <2>1. copy \in [Readers -> [Kinds -> CopyType]]
    BY <1>1 DEF Types
  <2>2. CASE q = r /\ j = k
    <3>1. copy'[q][j] = c
      BY <1>2, <2>1, <2>2, Zenon
    <3>2. copy'[q][j].news = told[r] /\ copy'[q][j].max = max /\ copy'[q][j].list = Copied(k, max)
      BY <3>1
    <3>3. n \in copy'[q][j].news .. Stored(j)' /\ sampled'[j][n] = sampled[k][n]
      BY <1>3, <1>4, <1>8, <2>2, <3>2, SMT
    <3>. QED
      BY <1>5, <3>2, <3>3 DEF Whole
  <2>3. CASE ~(q = r /\ j = k)
    <3>1. copy'[q][j] = copy[q][j]
      BY <1>2, <2>1, <2>3, Zenon
    <3>2. Stored(j) <= Stored(j)' /\ Whole(copy[q][j], j)
      BY <1>1, <1>8, StoredType, SMT DEF CopiesWhole
    <3>. QED
      BY <1>1, <1>3, <1>7, <3>1, <3>2, CopyKeeps
  <2>. QED
    BY <2>2, <2>3
<1>. QED
  BY <1>7, <1>9, <1>10, <1>11 DEF MemInv
----------------------------------------------------------------------------
LEMMA MemNext == MemInv /\ [Next]_vars => MemInv'
<1>. SUFFICES ASSUME MemInv, [Next]_vars PROVE MemInv'
  OBVIOUS
<1>1. CASE SampleHeaps
  BY <1>1, SampleHeapsKeeps
<1>2. CASE SampleThreads
  BY <1>2, SampleThreadsKeeps
<1>3. CASE Publish
  BY <1>3, PublishKeeps
<1>4. ASSUME NEW r \in Readers, Reader(r) PROVE MemInv'
  BY <1>4, ClaimKeeps, HearKeeps, GetKeeps DEF Reader
<1>5. CASE UNCHANGED vars
  <2>1. UNCHANGED <<pending, step, cycle, count, cache, message, holder, told, copy, sampled>>
    BY <1>5 DEF vars
  <2>2. Types' /\ \A k \in Kinds : Stored(k)' = Stored(k)
    BY <2>1 DEF MemInv, Types, TypeOK, Stored
  <2>3. CachesHold' /\ CopiesWhole'
    BY <2>1, <2>2, Undisturbed
  <2>4. NewsStored'
    BY <2>1, <2>2 DEF MemInv, NewsStored
  <2>. QED
    BY <2>2, <2>3, <2>4 DEF MemInv
<1>. QED
  BY <1>1, <1>2, <1>3, <1>4, <1>5 DEF Next

\* The inductive invariant of the memory monitor.
THEOREM MemInvariant == Spec => []MemInv
<1>. QED
  BY MemInit, MemNext, PTL DEF Spec

\* The variables of the monitor and of its consumers keep their types.
THEOREM MemTypeCorrect == Spec => []TypeOK
<1>1. MemInv => TypeOK
  BY DEF MemInv, Types
<1>. QED
  BY <1>1, MemInvariant, PTL

\* memonitor_get_heaps and memonitor_get_threads: whatever interrupts the work
\* item, a consumer copies one whole sample, of the cycle it has heard of or a
\* later one.
THEOREM CopiesAreNewsHolds == Spec => []CopiesAreNews
<1>1. ASSUME MemInv PROVE CopiesAreNews
  <2>. SUFFICES ASSUME NEW r \in Readers, NEW k \in Kinds
                PROVE  \E n \in copy[r][k].news .. cycle :
                         copy[r][k].list
                           = [i \in 1 .. Min({sampled[k][n], copy[r][k].max}) |-> n]
    BY DEF CopiesAreNews
  <2>1. Types /\ Whole(copy[r][k], k)
    BY <1>1 DEF MemInv, CopiesWhole
  <2>2. PICK n \in copy[r][k].news .. Stored(k) :
          copy[r][k].list = [i \in 1 .. Min({sampled[k][n], copy[r][k].max}) |-> n]
    BY <2>1 DEF Whole
  <2>3. copy[r][k].news \in Nat /\ cycle \in Nat
    BY <2>1, SMT DEF Types, TypeOK, CopyType
  <2>4. n \in copy[r][k].news .. cycle
    BY <2>1, <2>2, <2>3, StoredType, SMT
  <2>. QED
    BY <2>2, <2>4
<1>. QED
  BY <1>1, MemInvariant, PTL
=============================================================================
