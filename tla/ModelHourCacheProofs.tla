------------------------ MODULE ModelHourCacheProofs ------------------------
(***************************************************************************)
(* Proofs about ModelHourCache, for any consumers, hours and sizes.        *)
(*                                                                         *)
(* The argument: a flight that everyone has given up stays so, because     *)
(* nobody joins it; hence the flight that somebody wants is the registered *)
(* one of its hour, which is not cached meanwhile, and what it publishes   *)
(* replaces nothing.  An entry counts the consumers that hold it or that   *)
(* wait for the flight that has published it; an entry that is disposed of *)
(* has none, is in the cache no more, and so gets none again.              *)
(***************************************************************************)
EXTENDS ModelHourCache, FiniteSetTheorems, SequenceTheorems, TLAPS

\* Where a flight is while it loads.
Running(f) == load[f] # "none" /\ ~Done(f)

\* A consumer has no flight and no entry before it comes to the lock, has a flight
\* while it waits for it and an entry from then on, which its flight has published
\* or which was cached.
Calls ==
  \A c \in Consumers :
    /\ pc[c] = "looking" => joined[c] = None /\ held[c] = None /\ load[c] = "none"
    /\ pc[c] = "awaiting" => joined[c] # None /\ held[c] = None
    /\ pc[c] \in {"ready", "using"} => held[c] # None
    /\ joined[c] # None => load[joined[c]] # "none"
    /\ held[c] # None => Published(held[c]) /\ joined[c] \in {None, held[c]}

\* Who waits for a flight is who joined it and has not left.
Waiters == \A f, c \in Consumers : c \in waiting[f] <=> joined[c] = f /\ pc[c] # "left"

\* A flight has failed from the step on that says so, and was cancelled only if
\* everyone who waits has stopped.
Failures ==
  \A f \in Consumers :
    /\ load[f] \in {"none", "start", "fetching", "fetched"} => failure[f] = "none"
    /\ load[f] \in {"failing", "failed"} => failure[f] # "none"
    /\ failure[f] = "cancelled" => Stopped(f)

\* The flight of an hour is registered while somebody wants it, and nothing of the
\* hour is cached then.
Registered ==
  /\ \A k \in Keys, f \in Consumers : inflight[k] = f => key[f] = k /\ Running(f)
  /\ \A f \in Consumers : Running(f) /\ ~Stopped(f) =>
       inflight[key[f]] = f /\ \A e \in ToSet(entries) : key[e] # key[f]

\* The cached entries are published and have not been given up; each hour is cached once.
CacheShape ==
  /\ Len(entries) <= MaxEntries
  /\ \A i, j \in 1..Len(entries) : key[entries[i]] = key[entries[j]] => i = j
EntriesAreSound ==
  /\ \A e \in ToSet(entries) : Published(e) /\ e \notin stale \cup overtaken \cup disposed \cup gone
  /\ \A e \in stale : Published(e)

\* What is closed or will be has no lease and is used by no flight.
Disposal ==
  \A e \in disposed \cup gone :
    leases[e] = 0 /\ load[e] \notin {"none", "start", "fetching", "fetched"}

\* A background load takes one place until it gives it back.
Loads == {f \in Stoppable : load[f] \notin {"none", "over"}}
Background ==
  /\ background = Cardinality(Loads)
  /\ \A f \in Consumers : load[f] = "closing" => f \in Stoppable

HInv ==
  /\ TypeOK /\ Calls /\ Waiters /\ Failures /\ Registered
  /\ CacheShape /\ EntriesAreSound /\ Disposal /\ LeasesCountHolders
  /\ Background /\ OnlyTheStoppedAreCancelled

-----------------------------------------------------------------------------
(* Sequences.                                                              *)

\* An element is taken out of a sequence.
LEMMA RemoveAtFacts ==
  ASSUME NEW S, NEW s \in Seq(S), NEW i \in 1..Len(s)
  PROVE  /\ RemoveAt(s, i) \in Seq(S)
         /\ Len(RemoveAt(s, i)) = Len(s) - 1
         /\ \A j \in 1..(Len(s) - 1) : RemoveAt(s, i)[j] = IF j < i THEN s[j] ELSE s[j + 1]
<1>1. Len(s) \in Nat /\ i \in Int /\ 1 <= i /\ i <= Len(s)
  OBVIOUS
<1> DEFINE front == SubSeq(s, 1, i - 1)
           back == SubSeq(s, i + 1, Len(s))
<1>2. front \in Seq(S) /\ Len(front) = i - 1 /\ \A j \in 1..(i - 1) : front[j] = s[j]
  BY <1>1, SubSeqProperties
<1>3. back \in Seq(S) /\ Len(back) = Len(s) - i /\ \A j \in 1..(Len(s) - i) : back[j] = s[i + j]
  BY <1>1, SubSeqProperties
<1>4. RemoveAt(s, i) = front \o back
  BY DEF RemoveAt
<1> HIDE DEF front, back
<1>5. /\ Len(front \o back) = Len(front) + Len(back) /\ front \o back \in Seq(S)
      /\ \A j \in 1..(Len(front) + Len(back)) :
           (front \o back)[j] = IF j <= Len(front) THEN front[j] ELSE back[j - Len(front)]
  BY <1>2, <1>3, ConcatProperties
<1>6. Len(front) + Len(back) = Len(s) - 1
  BY <1>1, <1>2, <1>3
<1>7. ASSUME NEW j \in Int, 1 <= j, j <= Len(s) - 1
      PROVE  (front \o back)[j] = IF j < i THEN s[j] ELSE s[j + 1]
  <2>1. j \in 1..(Len(front) + Len(back))
    BY <1>1, <1>6, <1>7
  <2>2. CASE j < i
    <3>1. (front \o back)[j] = front[j] /\ j \in 1..(i - 1)
      BY <1>1, <1>2, <1>5, <1>7, <2>1, <2>2
    <3> QED BY <1>2, <2>2, <3>1
  <2>3. CASE ~(j < i)
    <3>1. (front \o back)[j] = back[j - (i - 1)] /\ j - (i - 1) \in 1..(Len(s) - i)
      BY <1>1, <1>2, <1>5, <1>7, <2>1, <2>3
    <3>2. i + (j - (i - 1)) = j + 1
      BY <1>1, <1>7
    <3> QED BY <1>3, <2>3, <3>1, <3>2
  <2> QED BY <2>2, <2>3
<1> QED BY <1>1, <1>4, <1>5, <1>6, <1>7

\* The keys of the elements of a sequence are all different.
KeyedOnce(seq) == \A i, j \in 1..Len(seq) : key[seq[i]] = key[seq[j]] => i = j

\* Without a key, a sequence of different keys has lost the element of this key.
LEMMA WithoutFacts ==
  ASSUME NEW s \in Seq(Consumers), KeyedOnce(s), NEW k
  PROVE  /\ Without(s, k) \in Seq(Consumers)
         /\ Len(Without(s, k)) <= Len(s)
         /\ (\E e \in ToSet(s) : key[e] = k) => Len(Without(s, k)) = Len(s) - 1
         /\ KeyedOnce(Without(s, k))
         /\ ToSet(Without(s, k)) = {e \in ToSet(s) : key[e] # k}
<1>0. DOMAIN s = 1..Len(s) /\ Len(s) \in Nat
  OBVIOUS
<1>1. (\A i \in DOMAIN s : key[s[i]] # k) => Without(s, k) = s
  BY DEF Without
<1>2. CASE \E i \in DOMAIN s : key[s[i]] = k
  <2>1. PICK i \in 1..Len(s) : key[s[i]] = k /\ Without(s, k) = RemoveAt(s, i)
    BY <1>0, <1>2 DEF Without
  <2> DEFINE r == RemoveAt(s, i)
  <2>2. /\ r \in Seq(Consumers) /\ Len(r) = Len(s) - 1 /\ DOMAIN r = 1..(Len(s) - 1)
        /\ \A j \in 1..(Len(s) - 1) : r[j] = IF j < i THEN s[j] ELSE s[j + 1]
    BY RemoveAtFacts
  <2> HIDE DEF r
  <2>3. KeyedOnce(r)
    <3> SUFFICES ASSUME NEW a \in 1..(Len(s) - 1), NEW b \in 1..(Len(s) - 1), key[r[a]] = key[r[b]]
                 PROVE  a = b
      BY <2>2 DEF KeyedOnce
    <3>1. PICK x \in 1..Len(s), y \in 1..Len(s) :
            /\ r[a] = s[x] /\ x = (IF a < i THEN a ELSE a + 1)
            /\ r[b] = s[y] /\ y = (IF b < i THEN b ELSE b + 1)
      BY <1>0, <2>2
    <3>2. x = y
      BY <3>1 DEF KeyedOnce
    <3> QED BY <3>1, <3>2
  <2>4. ASSUME NEW e \in ToSet(r) PROVE e \in ToSet(s) /\ key[e] # k
    <3>1. PICK j \in 1..(Len(s) - 1) : e = r[j]
      BY <2>2 DEF ToSet
    <3>2. PICK x \in 1..Len(s) : e = s[x] /\ x # i
      BY <1>0, <2>2, <3>1
    <3> QED BY <1>0, <2>1, <3>2 DEF ToSet, KeyedOnce
  <2>5. ASSUME NEW e \in ToSet(s), key[e] # k PROVE e \in ToSet(r)
    <3>1. PICK x \in 1..Len(s) : e = s[x]
      BY <1>0 DEF ToSet
    <3>2. x # i
      BY <2>1, <2>5, <3>1
    <3>3. PICK j \in 1..(Len(s) - 1) : j = IF x < i THEN x ELSE x - 1
      BY <1>0, <3>2
    <3>4. r[j] = e
      BY <1>0, <2>2, <3>1, <3>2, <3>3
    <3> QED BY <2>2, <3>4 DEF ToSet
  <2>6. Without(s, k) = r
    BY <2>1 DEF r
  <2>7. ToSet(r) = {e \in ToSet(s) : key[e] # k}
    BY <2>4, <2>5
  <2>8. Len(r) <= Len(s) /\ Len(r) = Len(s) - 1 /\ r \in Seq(Consumers)
    BY <1>0, <2>2
  <2> QED BY <2>3, <2>6, <2>7, <2>8
<1>3. CASE \A i \in DOMAIN s : key[s[i]] # k
  <2>1. \A e \in ToSet(s) : key[e] # k
    BY <1>3 DEF ToSet
  <2>2. Without(s, k) = s
    BY <1>1, <1>3
  <2>3. ToSet(s) = {e \in ToSet(s) : key[e] # k}
    BY <2>1
  <2>4. Len(s) <= Len(s)
    BY <1>0
  <2>5. ~\E e \in ToSet(s) : key[e] = k
    BY <2>1
  <2> QED BY <2>2, <2>3, <2>4, <2>5, Zenon
<1> QED BY <1>2, <1>3

\* An element of a new key is appended.
LEMMA AppendFacts ==
  ASSUME NEW s \in Seq(Consumers), KeyedOnce(s), NEW e \in Consumers,
         \A d \in ToSet(s) : key[d] # key[e]
  PROVE  /\ Append(s, e) \in Seq(Consumers)
         /\ Len(Append(s, e)) = Len(s) + 1
         /\ KeyedOnce(Append(s, e))
         /\ ToSet(Append(s, e)) = ToSet(s) \cup {e}
<1> DEFINE t == Append(s, e)
<1>1. /\ t \in Seq(Consumers) /\ Len(t) = Len(s) + 1 /\ Len(s) \in Nat
      /\ DOMAIN t = 1..(Len(s) + 1) /\ DOMAIN s = 1..Len(s)
      /\ \A j \in 1..Len(s) : t[j] = s[j]
      /\ t[Len(s) + 1] = e
  BY AppendProperties
<1> HIDE DEF t
<1>2. \A j \in 1..Len(s) : key[t[j]] # key[e]
  BY <1>1 DEF ToSet
<1>3. KeyedOnce(t)
  BY <1>1, <1>2 DEF KeyedOnce
<1>4. ToSet(t) = ToSet(s) \cup {e}
  <2>1. ASSUME NEW d \in ToSet(t) PROVE d \in ToSet(s) \cup {e}
    <3>1. PICK j \in 1..(Len(s) + 1) : d = t[j]
      BY <1>1 DEF ToSet
    <3>2. j \in 1..Len(s) \/ j = Len(s) + 1
      BY <1>1
    <3> QED BY <1>1, <3>1, <3>2 DEF ToSet
  <2>2. ASSUME NEW d \in ToSet(s) \cup {e} PROVE d \in ToSet(t)
    <3>1. d \in ToSet(s) => d \in ToSet(t)
      BY <1>1 DEF ToSet
    <3> QED BY <1>1, <3>1 DEF ToSet
  <2> QED BY <2>1, <2>2
<1> QED BY <1>1, <1>3, <1>4 DEF t

\* Room is made: the oldest entries leave, and one more fits.
LEMMA RoomFacts ==
  ASSUME entries \in Seq(Consumers), Len(entries) <= MaxEntries, KeyedOnce(entries)
  PROVE  /\ Kept \in Seq(Consumers) /\ KeyedOnce(Kept)
         /\ Len(Kept) + 1 <= MaxEntries
         /\ Victims \subseteq ToSet(entries)
         /\ ToSet(Kept) = ToSet(entries) \ Victims
<1>1. Surplus \in Nat /\ Surplus <= Len(entries) /\ Len(entries) \in Nat
      /\ Len(entries) - Surplus + 1 <= MaxEntries
  BY HourCacheBounds DEF Surplus
<1> DEFINE n == Surplus
           l == Len(entries)
           front == SubSeq(entries, 1, n)
<1> HIDE DEF n, l, front
<1>2. /\ Kept \in Seq(Consumers) /\ Len(Kept) = l - n /\ DOMAIN Kept = 1..(l - n)
      /\ \A j \in 1..(l - n) : Kept[j] = entries[j + n]
  BY <1>1, SubSeqProperties DEF Kept, n, l
<1>3. /\ DOMAIN front = 1..n /\ \A j \in 1..n : front[j] = entries[j]
  BY <1>1, SubSeqProperties DEF front, n, l
<1>4. /\ n \in Nat /\ l \in Nat /\ n <= l /\ l - n + 1 <= MaxEntries
      /\ DOMAIN entries = 1..l /\ Victims = ToSet(front)
      /\ \A i, j \in 1..l : key[entries[i]] = key[entries[j]] => i = j
  BY <1>1 DEF n, l, front, Victims, KeyedOnce
<1>5. KeyedOnce(Kept)
  <2> SUFFICES ASSUME NEW i \in 1..(l - n), NEW j \in 1..(l - n), key[Kept[i]] = key[Kept[j]]
               PROVE  i = j
    BY <1>2 DEF KeyedOnce
  <2>1. i + n \in 1..l /\ j + n \in 1..l
    BY <1>4
  <2>2. key[entries[i + n]] = key[entries[j + n]]
    BY <1>2
  <2> QED BY <1>4, <2>1, <2>2
<1>6. Victims = {entries[j] : j \in 1..n}
  BY <1>3, <1>4 DEF ToSet
<1>7. ToSet(Kept) = {entries[j] : j \in (n + 1)..l}
  <2>1. ASSUME NEW d \in ToSet(Kept) PROVE \E j \in (n + 1)..l : d = entries[j]
    <3>1. PICK i \in 1..(l - n) : d = Kept[i]
      BY <1>2 DEF ToSet
    <3>2. i + n \in (n + 1)..l
      BY <1>4
    <3> QED BY <1>2, <3>1, <3>2
  <2>2. ASSUME NEW j \in (n + 1)..l PROVE entries[j] \in ToSet(Kept)
    <3>1. PICK i \in 1..(l - n) : i = j - n
      BY <1>4
    <3>2. Kept[i] = entries[j]
      BY <1>2, <1>4, <3>1
    <3> QED BY <1>2, <3>2 DEF ToSet
  <2> QED BY <2>1, <2>2
<1>8. ToSet(entries) = {entries[j] : j \in 1..l}
  BY <1>4 DEF ToSet
<1>9. ASSUME NEW d PROVE d \in ToSet(Kept) <=> d \in ToSet(entries) /\ d \notin Victims
  <2>1. ASSUME d \in ToSet(Kept) PROVE d \in ToSet(entries) /\ d \notin Victims
    <3>1. PICK j \in (n + 1)..l : d = entries[j]
      BY <1>7, <2>1
    <3>2. j \in 1..l /\ \A i \in 1..n : i # j /\ i \in 1..l
      BY <1>4
    <3>3. \A i \in 1..n : entries[i] # entries[j]
      BY <1>4, <3>2
    <3> QED BY <1>6, <1>8, <3>1, <3>2, <3>3
  <2>2. ASSUME d \in ToSet(entries), d \notin Victims PROVE d \in ToSet(Kept)
    <3>1. PICK j \in 1..l : d = entries[j]
      BY <1>8, <2>2
    <3>2. j \notin 1..n
      BY <1>6, <2>2, <3>1
    <3>3. j \in (n + 1)..l
      BY <1>4, <3>2
    <3> QED BY <1>7, <3>1, <3>3
  <2> QED BY <2>1, <2>2
<1>10. Victims \subseteq ToSet(entries)
  <2>1. \A j \in 1..n : j \in 1..l
    BY <1>4
  <2> QED BY <1>6, <1>8, <2>1
<1>11. Len(Kept) + 1 <= MaxEntries
  BY <1>2, <1>4
<1> QED BY <1>2, <1>5, <1>9, <1>10, <1>11
-----------------------------------------------------------------------------
(* The cache as a sequence of its elements.                                *)

\* A cached hour becomes the youngest one.
LEMMA HitCache ==
  ASSUME TypeOK, CacheShape, NEW e \in ToSet(entries), UNCHANGED key,
         entries' = Append(Without(entries, key[e]), e)
  PROVE  entries' \in Seq(Consumers) /\ CacheShape' /\ ToSet(entries') = ToSet(entries)
<1> DEFINE rest == Without(entries, key[e])
<1>1. entries \in Seq(Consumers) /\ KeyedOnce(entries) /\ Len(entries) <= MaxEntries /\ e \in Consumers
  BY DEF TypeOK, CacheShape, KeyedOnce, ToSet
<1>2. /\ rest \in Seq(Consumers) /\ Len(rest) = Len(entries) - 1 /\ KeyedOnce(rest)
      /\ ToSet(rest) = {d \in ToSet(entries) : key[d] # key[e]}
  BY <1>1, WithoutFacts
<1>3. \A d \in ToSet(entries) : key[d] = key[e] => d = e
  BY <1>1 DEF KeyedOnce, ToSet
<1> HIDE DEF rest
<1>4. /\ entries' \in Seq(Consumers) /\ Len(entries') = Len(rest) + 1 /\ KeyedOnce(entries')
      /\ ToSet(entries') = ToSet(rest) \cup {e}
  BY <1>1, <1>2, AppendFacts DEF rest
<1>5. ToSet(entries') = ToSet(entries)
  BY <1>2, <1>3, <1>4
<1>6. Len(entries') <= MaxEntries
  BY <1>1, <1>2, <1>4
<1> QED BY <1>4, <1>5, <1>6 DEF CacheShape, KeyedOnce

\* A suspect hour leaves the cache.
LEMMA RaiseCache ==
  ASSUME TypeOK, CacheShape, NEW e \in ToSet(entries), UNCHANGED key,
         entries' = Without(entries, key[e])
  PROVE  entries' \in Seq(Consumers) /\ CacheShape' /\ ToSet(entries') = ToSet(entries) \ {e}
<1>1. entries \in Seq(Consumers) /\ KeyedOnce(entries) /\ Len(entries) <= MaxEntries /\ e \in Consumers
  BY DEF TypeOK, CacheShape, KeyedOnce, ToSet
<1>2. /\ entries' \in Seq(Consumers) /\ Len(entries') = Len(entries) - 1 /\ KeyedOnce(entries')
      /\ ToSet(entries') = {d \in ToSet(entries) : key[d] # key[e]}
  BY <1>1, WithoutFacts
<1>3. \A d \in ToSet(entries) : key[d] = key[e] => d = e
  BY <1>1 DEF KeyedOnce, ToSet
<1>4. Len(entries') <= MaxEntries
  BY <1>1, <1>2, HourCacheBounds
<1>5. ToSet(entries') = ToSet(entries) \ {e}
  BY <1>2, <1>3
<1> QED BY <1>2, <1>4, <1>5 DEF CacheShape, KeyedOnce

\* Room is made for a new hour.
LEMMA LeadCache ==
  ASSUME TypeOK, CacheShape, UNCHANGED key, entries' = Kept
  PROVE  /\ entries' \in Seq(Consumers) /\ CacheShape'
         /\ ToSet(entries') = ToSet(entries) \ Victims /\ Victims \subseteq ToSet(entries)
<1>1. entries \in Seq(Consumers) /\ KeyedOnce(entries) /\ Len(entries) <= MaxEntries
  BY DEF TypeOK, CacheShape, KeyedOnce
<1>2. /\ entries' \in Seq(Consumers) /\ KeyedOnce(entries') /\ Len(entries') + 1 <= MaxEntries
      /\ ToSet(entries') = ToSet(entries) \ Victims /\ Victims \subseteq ToSet(entries)
  BY <1>1, RoomFacts
<1>3. Len(entries') <= MaxEntries
  BY <1>2, HourCacheBounds
<1> QED BY <1>2, <1>3 DEF CacheShape, KeyedOnce

\* A new hour is cached, in the place of others that leave.
LEMMA PublishCache ==
  ASSUME TypeOK, CacheShape, UNCHANGED key, NEW f \in Consumers,
         \A e \in ToSet(entries) : key[e] # key[f],
         entries' = Append(Without(Kept, key[f]), f)
  PROVE  /\ entries' \in Seq(Consumers) /\ CacheShape'
         /\ ToSet(entries') = (ToSet(entries) \ Victims) \cup {f} /\ Victims \subseteq ToSet(entries)
<1> DEFINE rest == Without(Kept, key[f])
<1>1. entries \in Seq(Consumers) /\ KeyedOnce(entries) /\ Len(entries) <= MaxEntries
  BY DEF TypeOK, CacheShape, KeyedOnce
<1>2. /\ Kept \in Seq(Consumers) /\ KeyedOnce(Kept) /\ Len(Kept) + 1 <= MaxEntries
      /\ ToSet(Kept) = ToSet(entries) \ Victims /\ Victims \subseteq ToSet(entries)
  BY <1>1, RoomFacts
<1>3. /\ rest \in Seq(Consumers) /\ Len(rest) <= Len(Kept) /\ KeyedOnce(rest)
      /\ ToSet(rest) = {e \in ToSet(Kept) : key[e] # key[f]}
  BY <1>2, WithoutFacts
<1> HIDE DEF rest
<1>4. ToSet(rest) = ToSet(entries) \ Victims /\ \A e \in ToSet(rest) : key[e] # key[f]
  BY <1>2, <1>3
<1>5. /\ entries' \in Seq(Consumers) /\ Len(entries') = Len(rest) + 1 /\ KeyedOnce(entries')
      /\ ToSet(entries') = ToSet(rest) \cup {f}
  BY <1>3, <1>4, AppendFacts DEF rest
<1>6. Len(entries') <= MaxEntries
  BY <1>2, <1>3, <1>5, HourCacheBounds
<1> QED BY <1>2, <1>4, <1>5, <1>6 DEF CacheShape, KeyedOnce

\* Nothing is cached.
LEMMA ClearCache ==
  ASSUME entries' = <<>>
  PROVE  entries' \in Seq(Consumers) /\ CacheShape' /\ ToSet(entries') = {}
BY HourCacheBounds DEF CacheShape, ToSet

-----------------------------------------------------------------------------
(* Facts about a state.                                                    *)

\* The consumers are finitely many, and so are the ones of any kind.
LEMMA Finite ==
  ASSUME NEW S, S \subseteq Consumers
  PROVE  IsFiniteSet(S) /\ Cardinality(S) \in Nat
BY FS_Subset, FS_CardinalityType, HourCacheAssumption DEF HourCacheAssumption

\* A background load has a place.
LEMMA HasPlace ==
  ASSUME HInv, NEW f \in Loads
  PROVE  background \in Nat /\ background - 1 \in Nat
<1>1. Loads \subseteq Consumers
  BY HourCacheAssumption DEF HourCacheAssumption, Loads
<1>2. IsFiniteSet(Loads) /\ Cardinality(Loads) \in Nat
  BY <1>1, Finite
<1>3. Cardinality(Loads) # 0
  BY <1>2, FS_EmptySet
<1> QED BY <1>2, <1>3 DEF HInv, Background

\* Nothing of the hour of a load that somebody wants is cached.
LEMMA WantedIsNotCached ==
  ASSUME HInv, NEW f \in Consumers, Running(f), ~Stopped(f)
  PROVE  \A e \in ToSet(entries) : key[e] # key[f]
BY DEF HInv, Registered

-----------------------------------------------------------------------------
(* One lemma per part of the invariant.                                    *)

\* The values of the variables.
LEMMA TypeStep ==
  ASSUME HInv, [Next]_vars
  PROVE  TypeOK'
<1>0. CASE UNCHANGED <<pc, key, stop, joined, held, cancelled, entries, inflight, load,
     failure, waiting, overtaken, leases, stale, disposed, downloads, gone, background, clears>>
  BY <1>0 DEF HInv, TypeOK
<1>1. ASSUME NEW c \in Consumers, Stop(c) PROVE TypeOK'
  BY <1>1 DEF Stop, flightVars, entryVars, diskVars, HInv, TypeOK
<1>2. ASSUME NEW c \in Consumers, Decline(c) PROVE TypeOK'
  BY <1>2 DEF Decline, Goto, flightVars, entryVars, diskVars, HInv, TypeOK
<1>3. ASSUME NEW c \in Consumers, Hit(c) PROVE TypeOK'
  <2>1. PICK e \in ToSet(entries) : entries' = Append(Without(entries, key[e]), e)
                                  /\ leases' = [leases EXCEPT ![e] = @ + 1]
                                  /\ held' = [held EXCEPT ![c] = e]
    BY <1>3 DEF Hit, Cached
  <2>2. entries' \in Seq(Consumers)
    BY <1>3, <2>1, HitCache DEF HInv, Hit
  <2>3. e \in Consumers
    BY DEF HInv, TypeOK, ToSet
  <2>4. UNCHANGED <<key, stop, joined, cancelled, inflight, load, failure, waiting, overtaken,
     stale,
                    disposed, downloads, gone, background, clears>>
    BY <1>3 DEF Hit, flightVars, diskVars
  <2> QED BY <1>3, <2>1, <2>2, <2>3, <2>4 DEF HInv, TypeOK, Hit, Goto
<1>4. ASSUME NEW c \in Consumers, Join(c) PROVE TypeOK'
  BY <1>4 DEF Join, Looking, Goto, entryVars, diskVars, HInv, TypeOK
<1>5. ASSUME NEW c \in Consumers, Lead(c) PROVE TypeOK'
  <2>1. entries' \in Seq(Consumers) /\ Victims \subseteq ToSet(entries)
    BY <1>5, LeadCache DEF HInv, Lead
  <2>2. Victims \subseteq Consumers /\ Disposable(Victims) \subseteq Consumers
    BY <2>1 DEF HInv, TypeOK, ToSet, Disposable
  <2>3. stale' \subseteq Consumers /\ disposed' \subseteq Consumers
    BY <1>5, <2>2 DEF HInv, TypeOK, Lead, Evict
  <2>4. UNCHANGED <<key, stop, held, cancelled, failure, overtaken, leases, downloads, gone,
     clears>>
    BY <1>5 DEF Lead, diskVars
  <2>5. background' \in Nat
    BY <1>5 DEF HInv, TypeOK, Lead
  <2> QED BY <1>5, <2>1, <2>3, <2>4, <2>5 DEF HInv, TypeOK, Lead, Goto, To
<1>6. ASSUME NEW c \in Consumers, Await(c) PROVE TypeOK'
  <2>1. UNCHANGED <<key, stop, joined, entries, inflight, load, failure, waiting, overtaken, leases,
                    stale, disposed, downloads, gone, background, clears>>
    BY <1>6 DEF Await, consumerRest, flightVars, diskVars, entryVars
  <2>2. joined[c] \in Consumers
    BY <1>6 DEF HInv, TypeOK, Calls, Await
  <2>3. held' \in [Consumers -> Consumers \cup {None}] /\ cancelled' \subseteq Consumers
    BY <1>6, <2>2 DEF HInv, TypeOK, Await, End
  <2>4. pc' \in {[pc EXCEPT ![c] = "ready"], [pc EXCEPT ![c] = "leaving"]}
    BY <1>6 DEF Await, End, Goto
  <2> QED BY <2>1, <2>3, <2>4 DEF HInv, TypeOK
<1>7. ASSUME NEW c \in Consumers, Receive(c) PROVE TypeOK'
  BY <1>7 DEF Receive, Goto, End, consumerRest, entryVars, flightVars, diskVars, HInv,
         TypeOK
<1>8. ASSUME NEW c \in Consumers, Return(c) PROVE TypeOK'
  BY <1>8 DEF Return, Goto, End, consumerRest, entryVars, flightVars, diskVars, HInv, TypeOK
<1>9. ASSUME NEW c \in Consumers, Raise(c) PROVE TypeOK'
  <2>1. UNCHANGED <<key, stop, joined, held, inflight, load, failure, waiting, overtaken, leases,
                    disposed, downloads, gone, background, clears>>
    BY <1>9 DEF Raise, consumerRest, flightVars, diskVars
  <2>2. pc' = [pc EXCEPT ![c] = "leaving"] /\ cancelled' \in {cancelled, cancelled \cup {c}}
    BY <1>9 DEF Raise, End, Goto
  <2>3. entries' \in Seq(Consumers) /\ stale' \subseteq Consumers
    <3>1. CASE UNCHANGED <<entries, stale>>
      BY <3>1 DEF HInv, TypeOK
    <3>2. CASE /\ held[c] \in ToSet(entries)
               /\ entries' = Without(entries, key[held[c]]) /\ stale' = stale \cup {held[c]}
      <4>1. held[c] \in Consumers
        BY <3>2 DEF HInv, TypeOK, ToSet
      <4> QED BY <2>1, <3>2, <4>1, RaiseCache DEF HInv, TypeOK
    <3> QED BY <1>9, <3>1, <3>2 DEF Raise
  <2> QED BY <2>1, <2>2, <2>3 DEF HInv, TypeOK
<1>10. ASSUME NEW c \in Consumers, Leave(c) PROVE TypeOK'
  <2>1. UNCHANGED <<key, stop, joined, held, cancelled, entries, inflight, load, failure, overtaken,
                    stale, downloads, gone, background, clears>>
    BY <1>10 DEF Leave, diskVars
  <2>2. leases' \in [Consumers -> Nat]
    BY <1>10 DEF HInv, TypeOK, Leave
  <2>3. waiting' \in [Consumers -> SUBSET Consumers] /\ disposed' \subseteq Consumers
    BY <1>10 DEF HInv, TypeOK, Leave
  <2> QED BY <1>10, <2>1, <2>2, <2>3 DEF HInv, TypeOK, Leave, Goto
<1>11. ASSUME NEW f \in Consumers, ThreadFails(f) PROVE TypeOK'
  <2>1. background' \in Nat
    BY <1>11, HasPlace DEF ThreadFails, Loads
  <2>2. UNCHANGED <<pc, key, stop, joined, held, cancelled, waiting, overtaken, entries,
     leases, stale,
                    disposed, downloads, gone, clears>>
    BY <1>11 DEF ThreadFails, callVars, entryVars, diskVars
  <2> QED BY <1>11, <2>1, <2>2 DEF HInv, TypeOK, ThreadFails, To, Land
<1>12. ASSUME NEW f \in Consumers, Prepare(f) PROVE TypeOK'
  BY <1>12 DEF Prepare, To, loadRest, callVars, HInv, TypeOK
<1>13. ASSUME NEW f \in Consumers, Fetch(f) PROVE TypeOK'
  BY <1>13 DEF Fetch, To, loadRest, callVars, diskVars, HInv, TypeOK
<1>14. ASSUME NEW f \in Consumers, Publish(f) PROVE TypeOK'
  <2>1. entries' \in Seq(Consumers) /\ stale' \subseteq Consumers /\ disposed' \subseteq Consumers
    <3>1. CASE f \notin overtaken /\ ~Stopped(f)
      <4>1. entries' = Append(Without(Kept, key[f]), f) /\ Running(f) /\ UNCHANGED key
        BY <1>14, <3>1 DEF Publish, callVars, Running, Done
      <4>2. entries' \in Seq(Consumers) /\ Victims \subseteq ToSet(entries)
        BY <3>1, <4>1, WantedIsNotCached, PublishCache DEF HInv
      <4>3. Victims \subseteq Consumers /\ Disposable(Victims) \subseteq Consumers
        BY <4>2 DEF HInv, TypeOK, ToSet, Disposable
      <4> QED BY <1>14, <3>1, <4>2, <4>3 DEF HInv, TypeOK, Publish, Evict
    <3>2. CASE ~(f \notin overtaken /\ ~Stopped(f))
      BY <1>14, <3>2 DEF HInv, TypeOK, Publish
    <3> QED BY <3>1, <3>2
  <2>2. leases' \in [Consumers -> Nat]
    <3>1. Cardinality(waiting[f]) \in Nat
      BY Finite DEF HInv, TypeOK
    <3> QED BY <1>14, <3>1 DEF HInv, TypeOK, Publish
  <2>3. UNCHANGED <<pc, key, stop, joined, held, cancelled, failure, waiting, overtaken,
     downloads, gone,
                    background, clears>>
    BY <1>14 DEF Publish, callVars, diskVars
  <2> QED BY <1>14, <2>1, <2>2, <2>3 DEF HInv, TypeOK, Publish, To, Land, Landing
<1>15. ASSUME NEW f \in Consumers, Discard(f) PROVE TypeOK'
  BY <1>15 DEF Discard, To, loadRest, callVars, HInv, TypeOK
<1>16. ASSUME NEW f \in Consumers, Fail(f) PROVE TypeOK'
  BY <1>16 DEF Fail, To, Land, Landing, loadRest, callVars, diskVars, HInv, TypeOK
<1>17. ASSUME NEW f \in Consumers, Finish(f) PROVE TypeOK'
  <2>1. background' \in Nat
    <3>1. f \in Stoppable => f \in Loads
      BY <1>17 DEF Finish, Loads
    <3> QED BY <1>17, <3>1, HasPlace DEF HInv, Background, Finish
  <2>2. UNCHANGED <<pc, key, stop, joined, held, cancelled, inflight, failure, waiting,
     overtaken, entries,
                    leases, stale, disposed, downloads, gone, clears>>
    BY <1>17 DEF Finish, callVars, entryVars, diskVars
  <2> QED BY <1>17, <2>1, <2>2 DEF HInv, TypeOK, Finish, To
<1>18. ASSUME NEW e \in Consumers, Dispose(e) PROVE TypeOK'
  BY <1>18 DEF Dispose, callVars, flightVars, entryVars, HInv, TypeOK
<1>19. ASSUME Clear PROVE TypeOK'
  <2>1. ToSet(entries) \subseteq Consumers
    BY DEF HInv, TypeOK, ToSet
  <2>2. UNCHANGED <<pc, key, stop, joined, held, cancelled, inflight, load, failure, waiting,
     leases,
                    background>>
    BY <1>19 DEF Clear, callVars
  <2>3. /\ entries' \in Seq(Consumers) /\ clears' \in Nat /\ overtaken' \subseteq Consumers
        /\ downloads' \subseteq Consumers
    BY <1>19 DEF HInv, TypeOK, Clear
  <2>4. stale' \subseteq Consumers /\ disposed' \subseteq Consumers /\ gone' \subseteq Consumers
    BY <1>19, <2>1 DEF HInv, TypeOK, Clear, Evict, Disposable
  <2> QED BY <2>2, <2>3, <2>4 DEF HInv, TypeOK
<1>20. CASE UNCHANGED vars
  BY <1>0, <1>20 DEF vars, callVars, flightVars, entryVars, diskVars
<1> QED
  BY <1>1, <1>2, <1>3, <1>4, <1>5, <1>6, <1>7, <1>8, <1>9, <1>10, <1>11, <1>12, <1>13,
     <1>14,
     <1>15, <1>16, <1>17, <1>18, <1>19, <1>20
  DEF Next, Lease, Load

\* Who has no flight and no entry, one or both, and where everyone is.
LEMMA CallsStep ==
  ASSUME HInv, [Next]_vars
  PROVE  Calls'
<1>0. CASE UNCHANGED <<pc, joined, held, load, failure>>
  BY <1>0 DEF HInv, Calls, Published, Done
<1>1. ASSUME NEW c \in Consumers, Decline(c) PROVE Calls'
  BY <1>1 DEF Decline, Goto, flightVars, entryVars, diskVars, HInv, TypeOK, Calls, Failures,
     Published, Done
<1>2. ASSUME NEW c \in Consumers, Hit(c) PROVE Calls'
  <2>1. PICK e \in ToSet(entries) : held' = [held EXCEPT ![c] = e]
    BY <1>2 DEF Hit, Cached
  <2>2. e \in Consumers /\ Published(e)
    BY DEF HInv, TypeOK, ToSet, EntriesAreSound
  <2>3. UNCHANGED <<joined, load, failure>> /\ pc[c] = "looking" /\ pc' = [pc EXCEPT ![c] = "ready"]
    BY <1>2 DEF Hit, flightVars, Looking, Goto
  <2> QED BY <2>1, <2>2, <2>3, HourCacheAssumption DEF HInv, TypeOK, Calls, Published, Done,
     HourCacheAssumption
<1>3. ASSUME NEW c \in Consumers, Join(c) PROVE Calls'
  <2>1. UNCHANGED <<held, load,
     failure>> /\ pc[c] = "looking" /\ pc' = [pc EXCEPT ![c] = "awaiting"]
    BY <1>3 DEF Join, Looking, Goto
  <2>2. PICK f \in Consumers : f = inflight[key[c]] /\ load[f] # "none"
    BY <1>3 DEF HInv, TypeOK, Registered, Join, Flying, Running
  <2>3. joined' = [joined EXCEPT ![c] = f]
    BY <1>3, <2>2 DEF Join
  <2> QED BY <2>1, <2>2, <2>3, HourCacheAssumption DEF HInv, TypeOK, Calls, Published, Done,
     HourCacheAssumption
<1>4. ASSUME NEW c \in Consumers, Lead(c) PROVE Calls'
  <2>1. UNCHANGED <<held, failure>> /\ pc[c] = "looking" /\ pc' = [pc EXCEPT ![c] = "awaiting"]
        /\ joined' = [joined EXCEPT ![c] = c] /\ load' = [load EXCEPT ![c] = "start"]
    BY <1>4 DEF Lead, Looking, Goto, To
  <2> QED BY <2>1, HourCacheAssumption DEF HInv, TypeOK, Calls, Published, Done,
                 HourCacheAssumption
<1>5. ASSUME NEW c \in Consumers, Await(c) PROVE Calls'
  <2>1. UNCHANGED <<joined, load, failure>> /\ pc[c] = "awaiting"
    BY <1>5 DEF Await, consumerRest, flightVars
  <2>2. \/ /\ Published(joined[c]) /\ held' = [held EXCEPT ![c] = joined[c]]
           /\ pc' = [pc EXCEPT ![c] = "ready"]
        \/ UNCHANGED held /\ pc' = [pc EXCEPT ![c] = "leaving"]
    BY <1>5 DEF Await, End, Goto
  <2>3. joined[c] \in Consumers
    BY <2>1 DEF HInv, TypeOK, Calls
  <2> QED BY <2>1, <2>2, <2>3, HourCacheAssumption DEF HInv, TypeOK, Calls, Published, Done,
     HourCacheAssumption
<1>6. ASSUME NEW c \in Consumers, Receive(c) PROVE Calls'
  BY <1>6 DEF Receive, Goto, End, consumerRest, entryVars, flightVars, diskVars, HInv,
         TypeOK,
     Calls, Failures, Published, Done
<1>7. ASSUME NEW c \in Consumers, Return(c) PROVE Calls'
  BY <1>7 DEF Return, Goto, End, consumerRest, entryVars, flightVars, diskVars, HInv,
         TypeOK,
     Calls, Failures, Published, Done
<1>8. ASSUME NEW c \in Consumers, Raise(c) PROVE Calls'
  BY <1>8 DEF Raise, Goto, End, consumerRest, flightVars, diskVars, HInv, TypeOK, Calls,
     Failures, Published, Done
<1>9. ASSUME NEW c \in Consumers, Leave(c) PROVE Calls'
  BY <1>9 DEF Leave, Goto, diskVars, HInv, TypeOK, Calls, Failures, Published, Done
<1>10. ASSUME NEW f \in Consumers, ThreadFails(f) PROVE Calls'
  <2>1. UNCHANGED <<pc, joined, held>>
    BY <1>10 DEF ThreadFails, loadRest, callVars
  <2>2. load[f] \in {"start", "fetching"} /\ load'[f] # "none"
        /\ \A g \in Consumers \ {f} : load'[g] = load[g] /\ failure'[g] = failure[g]
    BY <1>10 DEF HInv, TypeOK, ThreadFails, To
  <2>3. pc[f] # "looking" /\ ~Published(f)
    BY <2>2 DEF HInv, Calls, Published, Done
  <2>4. \A g \in Consumers : Published(g) => Published(g)'
    BY <2>2, <2>3 DEF Published, Done
  <2>5. \A g \in Consumers : load[g] # "none" => load'[g] # "none"
    BY <2>2
  <2>6. \A g \in Consumers : pc[g] = "looking" => load'[g] = "none"
    BY <2>2, <2>3 DEF HInv, Calls
  <2> QED BY <2>1, <2>4, <2>5, <2>6, HourCacheAssumption DEF HInv, TypeOK, Calls,
     HourCacheAssumption
<1>11. ASSUME NEW f \in Consumers, Prepare(f) PROVE Calls'
  <2>1. UNCHANGED <<pc, joined, held>>
    BY <1>11 DEF Prepare, loadRest, callVars
  <2>2. load[f] \in {"start", "fetching"} /\ load'[f] # "none"
        /\ \A g \in Consumers \ {f} : load'[g] = load[g] /\ failure'[g] = failure[g]
    BY <1>11 DEF HInv, TypeOK, Prepare, To
  <2>3. pc[f] # "looking" /\ ~Published(f)
    BY <2>2 DEF HInv, Calls, Published, Done
  <2>4. \A g \in Consumers : Published(g) => Published(g)'
    BY <2>2, <2>3 DEF Published, Done
  <2>5. \A g \in Consumers : load[g] # "none" => load'[g] # "none"
    BY <2>2
  <2>6. \A g \in Consumers : pc[g] = "looking" => load'[g] = "none"
    BY <2>2, <2>3 DEF HInv, Calls
  <2> QED BY <2>1, <2>4, <2>5, <2>6, HourCacheAssumption DEF HInv, TypeOK, Calls,
     HourCacheAssumption
<1>12. ASSUME NEW f \in Consumers, Fetch(f) PROVE Calls'
  <2>1. UNCHANGED <<pc, joined, held>>
    BY <1>12 DEF Fetch, loadRest, callVars
  <2>2. load[f] \in {"start", "fetching"} /\ load'[f] # "none"
        /\ \A g \in Consumers \ {f} : load'[g] = load[g] /\ failure'[g] = failure[g]
    BY <1>12 DEF HInv, TypeOK, Fetch, To
  <2>3. pc[f] # "looking" /\ ~Published(f)
    BY <2>2 DEF HInv, Calls, Published, Done
  <2>4. \A g \in Consumers : Published(g) => Published(g)'
    BY <2>2, <2>3 DEF Published, Done
  <2>5. \A g \in Consumers : load[g] # "none" => load'[g] # "none"
    BY <2>2
  <2>6. \A g \in Consumers : pc[g] = "looking" => load'[g] = "none"
    BY <2>2, <2>3 DEF HInv, Calls
  <2> QED BY <2>1, <2>4, <2>5, <2>6, HourCacheAssumption DEF HInv, TypeOK, Calls,
     HourCacheAssumption
<1>13. ASSUME NEW f \in Consumers, Publish(f) PROVE Calls'
  BY <1>13 DEF Publish, To, Land, Landing, Evict, callVars, diskVars, HInv, TypeOK, Calls,
     Failures, Published, Done
<1>14. ASSUME NEW f \in Consumers, Discard(f) PROVE Calls'
  BY <1>14 DEF Discard, To, loadRest, callVars, HInv, TypeOK, Calls, Failures, Published,
         Done
<1>15. ASSUME NEW f \in Consumers, Fail(f) PROVE Calls'
  BY <1>15 DEF Fail, To, Land, Landing, loadRest, callVars, diskVars, HInv, TypeOK, Calls,
     Failures, Published, Done
<1>16. ASSUME NEW f \in Consumers, Finish(f) PROVE Calls'
  BY <1>16 DEF Finish, To, callVars, entryVars, diskVars, HInv, TypeOK, Calls, Failures,
     Published, Done
<1>17. ASSUME NEW c \in Consumers, Stop(c) PROVE Calls'
  BY <1>0, <1>17 DEF Stop, flightVars, entryVars, diskVars
<1>18. ASSUME NEW e \in Consumers, Dispose(e) PROVE Calls'
  BY <1>0, <1>18 DEF Dispose, callVars, flightVars, entryVars
<1>19. ASSUME Clear PROVE Calls'
  BY <1>0, <1>19 DEF Clear, Evict, callVars
<1>20. CASE UNCHANGED vars
  BY <1>0, <1>20 DEF vars, callVars, flightVars, entryVars, diskVars
<1> QED
  BY <1>1, <1>2, <1>3, <1>4, <1>5, <1>6, <1>7, <1>8, <1>9, <1>10, <1>11, <1>12, <1>13,
     <1>14,
     <1>15, <1>16, <1>17, <1>18, <1>19, <1>20
  DEF Next, Lease, Load

\* Who waits.
LEMMA WaitersStep ==
  ASSUME HInv, [Next]_vars
  PROVE  Waiters'
<1>0. CASE UNCHANGED <<pc, joined, waiting>>
  BY <1>0 DEF HInv, Waiters
<1>1. ASSUME NEW c \in Consumers, Decline(c) PROVE Waiters'
  <2>1. pc[c] = "looking" /\ pc' = [pc EXCEPT ![c] = "left"] /\ joined[c] = None /\ UNCHANGED <<joined, waiting>>
    BY <1>1 DEF HInv, Calls, Decline, Goto, flightVars
  <2> QED BY <2>1, HourCacheAssumption DEF HInv, TypeOK, Waiters, HourCacheAssumption
<1>2. ASSUME NEW c \in Consumers, Hit(c) PROVE Waiters'
  BY <1>2 DEF Hit, Looking, Goto, flightVars, diskVars, HInv, TypeOK, Calls, Waiters
<1>3. ASSUME NEW c \in Consumers, Join(c) PROVE Waiters'
  <2>1. pc[c] = "looking" /\ pc' = [pc EXCEPT ![c] = "awaiting"] /\ joined[c] = None
    BY <1>3 DEF HInv, Calls, Join, Looking, Goto
  <2>2. PICK f \in Consumers : f = inflight[key[c]]
    BY <1>3 DEF HInv, TypeOK, Registered, Join, Flying
  <2>3. joined' = [joined EXCEPT ![c] = f] /\ waiting' = [waiting EXCEPT ![f] = @ \cup {c}]
    BY <1>3, <2>2 DEF Join
  <2> QED BY <2>1, <2>2, <2>3, HourCacheAssumption DEF HInv, TypeOK, Waiters,
                 HourCacheAssumption
<1>4. ASSUME NEW c \in Consumers, Lead(c) PROVE Waiters'
  <2>1. pc[c] = "looking" /\ pc' = [pc EXCEPT ![c] = "awaiting"] /\ joined[c] = None
        /\ joined' = [joined EXCEPT ![c] = c] /\ waiting' = [waiting EXCEPT ![c] = {c}]
    BY <1>4 DEF HInv, Calls, Lead, Looking, Goto
  <2>2. \A d \in Consumers : joined[d] # c
    BY <1>4, HourCacheAssumption DEF HInv, Calls, Lead, Looking, HourCacheAssumption
  <2> QED BY <2>1, <2>2, HourCacheAssumption DEF HInv, TypeOK, Waiters, HourCacheAssumption
<1>5. ASSUME NEW c \in Consumers, Await(c) PROVE Waiters'
  BY <1>5 DEF Await, Goto, End, consumerRest, entryVars, flightVars, diskVars, HInv, TypeOK,
     Calls, Waiters
<1>6. ASSUME NEW c \in Consumers, Receive(c) PROVE Waiters'
  BY <1>6 DEF Receive, Goto, End, consumerRest, entryVars, flightVars, diskVars, HInv,
         TypeOK,
     Calls, Waiters
<1>7. ASSUME NEW c \in Consumers, Return(c) PROVE Waiters'
  BY <1>7 DEF Return, Goto, End, consumerRest, entryVars, flightVars, diskVars, HInv,
         TypeOK,
     Calls, Waiters
<1>8. ASSUME NEW c \in Consumers, Raise(c) PROVE Waiters'
  BY <1>8 DEF Raise, Goto, End, consumerRest, flightVars, diskVars, HInv, TypeOK, Calls,
         Waiters
<1>9. ASSUME NEW c \in Consumers, Leave(c) PROVE Waiters'
  BY <1>9 DEF Leave, Goto, diskVars, HInv, TypeOK, Calls, Waiters
<1>10. ASSUME NEW c \in Consumers, Stop(c) PROVE Waiters'
  BY <1>0, <1>10 DEF Stop, flightVars, entryVars, diskVars
<1>11. ASSUME NEW f \in Consumers, ThreadFails(f) PROVE Waiters'
  BY <1>0, <1>11 DEF ThreadFails, To, Land, callVars, entryVars, diskVars
<1>12. ASSUME NEW f \in Consumers, Prepare(f) PROVE Waiters'
  BY <1>0, <1>12 DEF Prepare, To, loadRest, callVars
<1>13. ASSUME NEW f \in Consumers, Fetch(f) PROVE Waiters'
  BY <1>0, <1>13 DEF Fetch, To, loadRest, callVars, diskVars
<1>14. ASSUME NEW f \in Consumers, Publish(f) PROVE Waiters'
  BY <1>0, <1>14 DEF Publish, To, Land, Landing, Evict, callVars, diskVars
<1>15. ASSUME NEW f \in Consumers, Discard(f) PROVE Waiters'
  BY <1>0, <1>15 DEF Discard, To, loadRest, callVars
<1>16. ASSUME NEW f \in Consumers, Fail(f) PROVE Waiters'
  BY <1>0, <1>16 DEF Fail, To, Land, Landing, loadRest, callVars, diskVars
<1>17. ASSUME NEW f \in Consumers, Finish(f) PROVE Waiters'
  BY <1>0, <1>17 DEF Finish, To, callVars, entryVars, diskVars
<1>18. ASSUME NEW e \in Consumers, Dispose(e) PROVE Waiters'
  BY <1>0, <1>18 DEF Dispose, callVars, flightVars, entryVars
<1>19. ASSUME Clear PROVE Waiters'
  BY <1>0, <1>19 DEF Clear, Evict, callVars
<1>20. CASE UNCHANGED vars
  BY <1>0, <1>20 DEF vars, callVars, flightVars, entryVars, diskVars
<1> QED
  BY <1>1, <1>2, <1>3, <1>4, <1>5, <1>6, <1>7, <1>8, <1>9, <1>10, <1>11, <1>12, <1>13,
     <1>14,
     <1>15, <1>16, <1>17, <1>18, <1>19, <1>20
  DEF Next, Lease, Load

\* A flight that everyone has given up is never wanted again: nobody joins it.
LEMMA StoppedStays ==
  ASSUME HInv, [Next]_vars, NEW f \in Consumers, load[f] # "none", Stopped(f)
  PROVE  Stopped(f)'
<1>1. stop \subseteq stop'
  <2>1. ASSUME NEW c \in Consumers, Stop(c) PROVE stop \subseteq stop'
    BY <2>1 DEF Stop
  <2>2. ASSUME NEW c \in Consumers, Lease(c) PROVE stop \subseteq stop'
    BY <2>2 DEF Lease, Decline, Hit, Join, Lead, Await, Receive, Return, Raise, Leave,
           consumerRest
  <2>3. ASSUME NEW c \in Consumers, Load(c) PROVE stop \subseteq stop'
    BY <2>3 DEF Load, ThreadFails, Prepare, Fetch, Publish, Discard, Fail, Finish, loadRest,
           callVars
  <2>4. ASSUME NEW c \in Consumers, Dispose(c) PROVE stop \subseteq stop'
    BY <2>4 DEF Dispose, callVars
  <2>5. CASE Clear \/ UNCHANGED vars
    BY <2>5 DEF Clear, vars, callVars
  <2> QED BY <2>1, <2>2, <2>3, <2>4, <2>5 DEF Next
<1>2. waiting'[f] \subseteq waiting[f]
  <2>1. CASE UNCHANGED waiting
    BY <2>1
  <2>2. ASSUME NEW c \in Consumers, Join(c) PROVE waiting'[f] \subseteq waiting[f]
    <3>1. inflight[key[c]] # f
      BY <2>2 DEF Join, Flying
    <3> QED BY <2>2, <3>1 DEF HInv, TypeOK, Join
  <2>3. ASSUME NEW c \in Consumers, Lead(c) PROVE waiting'[f] \subseteq waiting[f]
    <3>1. c # f
      BY <2>3 DEF HInv, Calls, Lead, Looking
    <3> QED BY <2>3, <3>1 DEF HInv, TypeOK, Lead
  <2>4. ASSUME NEW c \in Consumers, Leave(c) PROVE waiting'[f] \subseteq waiting[f]
    BY <2>4 DEF Leave
  <2>5. ASSUME NEW c \in Consumers,
               Decline(c) \/ Hit(c) \/ Await(c) \/ Receive(c) \/ Return(c) \/ Raise(c)
        PROVE  UNCHANGED waiting
    BY <2>5 DEF Decline, Hit, Await, Receive, Return, Raise, consumerRest, flightVars
  <2>6. ASSUME NEW c \in Consumers, Stop(c) \/ Load(c) \/ Dispose(c) PROVE UNCHANGED waiting
    BY <2>6 DEF Stop, Load, ThreadFails, Prepare, Fetch, Publish, Discard, Fail, Finish,
           Dispose,
       loadRest, flightVars
  <2>7. CASE Clear \/ UNCHANGED vars
    BY <2>1, <2>7 DEF Clear, vars, flightVars
  <2> QED BY <2>1, <2>2, <2>3, <2>4, <2>5, <2>6, <2>7 DEF Next, Lease
<1> QED BY <1>1, <1>2 DEF Stopped

\* How loads fail.
LEMMA FailuresStep ==
  ASSUME HInv, [Next]_vars
  PROVE  Failures'
<1> DEFINE Sound == {"none", "start", "fetching", "fetched"}
           Unsound == {"failing", "failed"}
<1>0. ASSUME UNCHANGED failure,
             \A f \in Consumers : load'[f] \in Sound => load[f] \in Sound,
             \A f \in Consumers : load'[f] \in Unsound => load[f] \in Unsound
      PROVE  Failures'
  <2>1. \A f \in Consumers : failure'[f] = "cancelled" => Stopped(f)'
    BY <1>0, StoppedStays DEF HInv, Failures
  <2> QED BY <1>0, <2>1 DEF HInv, Failures
<1>1. ASSUME NEW f \in Consumers, ThreadFails(f) \/ Prepare(f) \/ Fetch(f) PROVE Failures'
  <2>1. \A g \in Consumers : failure[g] = "cancelled" => Stopped(g)'
    BY StoppedStays DEF HInv, Failures
  <2>2. Stopped(f) => Stopped(f)'
    BY <1>1, StoppedStays DEF ThreadFails, Prepare, Fetch
  <2>3. \A g \in Consumers \ {f} : load'[g] = load[g] /\ failure'[g] = failure[g]
    BY <1>1 DEF HInv, TypeOK, ThreadFails, Prepare, Fetch, To
  <2>4. /\ load'[f] \in Sound => failure'[f] = "none"
        /\ load'[f] \in Unsound => failure'[f] # "none"
        /\ failure'[f] = "cancelled" => Stopped(f)
    BY <1>1 DEF HInv, TypeOK, Failures, ThreadFails, Prepare, Fetch, To
  <2> QED BY <2>1, <2>2, <2>3, <2>4 DEF HInv, Failures
<1>2. ASSUME NEW f \in Consumers, Publish(f) \/ Fail(f) \/ Finish(f) \/ Discard(f) PROVE Failures'
  <2>1. UNCHANGED failure
    BY <1>2 DEF Publish, Fail, Finish, Discard
  <2>2. \A g \in Consumers \ {f} : load'[g] = load[g]
    BY <1>2 DEF HInv, TypeOK, Publish, Fail, Finish, Discard, To
  <2>3. load'[f] \notin Sound /\ (load'[f] \in Unsound => load[f] \in Unsound)
    BY <1>2 DEF HInv, TypeOK, Publish, Fail, Finish, Discard, To, Landing
  <2> QED BY <1>0, <2>1, <2>2, <2>3
<1>3. ASSUME NEW c \in Consumers, Lead(c) PROVE Failures'
  <2>1. UNCHANGED failure /\ load[c] = "none" /\ load' = [load EXCEPT ![c] = "start"]
    BY <1>3 DEF HInv, Calls, Lead, Looking, To
  <2> QED BY <1>0, <2>1 DEF HInv, TypeOK
<1>4. ASSUME NEW c \in Consumers, Lease(c) PROVE Failures'
  <2>1. UNCHANGED <<failure, load>> \/ Lead(c)
    BY <1>4 DEF Lease, Decline, Hit, Join, Await, Receive, Return, Raise, Leave,
           consumerRest, flightVars
  <2> QED BY <1>0, <1>3, <2>1
<1>5. ASSUME NEW c \in Consumers, Stop(c) \/ Dispose(c) PROVE Failures'
  <2>1. UNCHANGED <<failure, load>>
    BY <1>5 DEF Stop, Dispose, flightVars
  <2> QED BY <1>0, <2>1
<1>6. CASE Clear \/ UNCHANGED vars
  <2>1. UNCHANGED <<load, failure, waiting>> /\ stop' = stop
    BY <1>6 DEF Clear, vars, callVars, flightVars
  <2> QED BY <2>1 DEF HInv, Failures, Stopped
<1> QED BY <1>1, <1>2, <1>4, <1>5, <1>6 DEF Next, Load

\* What is published stays so.
LEMMA PublishedStays ==
  ASSUME HInv, [Next]_vars, NEW e \in Consumers, Published(e)
  PROVE  Published(e)'
<1>0. CASE load'[e] = load[e] /\ failure'[e] = failure[e]
  BY <1>0 DEF Published, Done
<1>1. ASSUME NEW f \in Consumers, ThreadFails(f) \/ Prepare(f) \/ Fetch(f) PROVE Published(e)'
  <2>1. f # e
    BY <1>1 DEF ThreadFails, Prepare, Fetch, Published, Done
  <2> QED BY <1>0, <1>1, <2>1 DEF HInv, TypeOK, ThreadFails, Prepare, Fetch, To
<1>2. ASSUME NEW f \in Consumers, Publish(f) \/ Fail(f) \/ Finish(f) \/ Discard(f) PROVE Published(e)'
  BY <1>2 DEF HInv, TypeOK, Publish, Fail, Finish, Discard, To, Landing, Published, Done
<1>3. ASSUME NEW c \in Consumers, Lead(c) PROVE Published(e)'
  <2>1. c # e
    BY <1>3 DEF HInv, Calls, Lead, Looking, Published, Done
  <2> QED BY <1>0, <1>3, <2>1 DEF HInv, TypeOK, Lead, To
<1>4. ASSUME NEW c \in Consumers, Lease(c) PROVE Published(e)'
  <2>1. UNCHANGED <<failure, load>> \/ Lead(c)
    BY <1>4 DEF Lease, Decline, Hit, Join, Await, Receive, Return, Raise, Leave,
           consumerRest, flightVars
  <2> QED BY <1>0, <1>3, <2>1
<1>5. ASSUME NEW c \in Consumers, Stop(c) \/ Dispose(c) PROVE Published(e)'
  BY <1>0, <1>5 DEF Stop, Dispose, flightVars
<1>6. CASE Clear \/ UNCHANGED vars
  BY <1>0, <1>6 DEF Clear, vars, flightVars
<1> QED BY <1>1, <1>2, <1>4, <1>5, <1>6 DEF Next, Load

\* The cache never overflows, and no hour is in it twice.
LEMMA CacheStep ==
  ASSUME HInv, [Next]_vars
  PROVE  CacheShape'
<1>0. CASE UNCHANGED <<entries, key>>
  BY <1>0 DEF HInv, CacheShape
<1>1. ASSUME NEW c \in Consumers, Hit(c) PROVE CacheShape'
  <2>1. PICK e \in ToSet(entries) : entries' = Append(Without(entries, key[e]), e)
    BY <1>1 DEF Hit, Cached
  <2> QED BY <1>1, <2>1, HitCache DEF HInv, Hit
<1>2. ASSUME NEW c \in Consumers, Lead(c) PROVE CacheShape'
  BY <1>2, LeadCache DEF HInv, Lead
<1>3. ASSUME NEW c \in Consumers, Raise(c) PROVE CacheShape'
  BY <1>0, <1>3, RaiseCache DEF HInv, Raise, consumerRest
<1>4. ASSUME NEW f \in Consumers, Publish(f) PROVE CacheShape'
  <2>1. CASE f \notin overtaken /\ ~Stopped(f)
    <3>1. entries' = Append(Without(Kept, key[f]), f) /\ Running(f) /\ UNCHANGED key
      BY <1>4, <2>1 DEF Publish, callVars, Running, Done
    <3> QED BY <2>1, <3>1, WantedIsNotCached, PublishCache DEF HInv
  <2> QED BY <1>0, <1>4, <2>1 DEF Publish, callVars
<1>5. CASE Clear
  BY <1>5, ClearCache DEF Clear
<1>6. ASSUME NEW c \in Consumers,
             \/ Stop(c) \/ Decline(c) \/ Join(c) \/ Await(c) \/ Receive(c) \/ Return(c) \/ Leave(c)
             \/ ThreadFails(c) \/ Prepare(c) \/ Fetch(c) \/ Discard(c) \/ Fail(c) \/ Finish(c)
             \/ Dispose(c)
      PROVE  CacheShape'
  BY <1>0, <1>6 DEF Stop, Decline, Join, Await, Receive, Return, Leave, ThreadFails,
         Prepare, Fetch,
     Discard, Fail, Finish, Dispose, entryVars, callVars, loadRest, consumerRest
<1>7. CASE UNCHANGED vars
  BY <1>0, <1>7 DEF vars, callVars, entryVars
<1> QED BY <1>1, <1>2, <1>3, <1>4, <1>5, <1>6, <1>7 DEF Next, Lease, Load

\* An entry has no lease before its flight has published it.
LEMMA NoLeaseYet ==
  ASSUME HInv, NEW f \in Consumers, ~Published(f)
  PROVE  leases[f] = 0
<1>1. \A c \in Consumers : f \notin LeasedBy(c)
  BY DEF HInv, Calls, LeasedBy
<1>2. {c \in Consumers : f \in LeasedBy(c) /\ pc[c] # "left"} = {}
  BY <1>1
<1> QED BY <1>2, FS_EmptySet DEF HInv, LeasesCountHolders

\* Cached entries are published and not given up.
LEMMA EntriesStep ==
  ASSUME HInv, [Next]_vars
  PROVE  EntriesAreSound'
<1>0. ToSet(entries) \subseteq Consumers /\ stale \subseteq Consumers
  BY DEF HInv, TypeOK, ToSet
<1>a. ASSUME ToSet(entries') \subseteq ToSet(entries),
             (stale' \cup overtaken' \cup disposed' \cup gone') \cap ToSet(entries') = {},
             stale' \subseteq stale \cup ToSet(entries)
      PROVE  EntriesAreSound'
  <2>1. \A e \in ToSet(entries) \cup stale : Published(e)'
    BY <1>0, PublishedStays DEF HInv, EntriesAreSound
  <2> QED BY <1>a, <2>1 DEF EntriesAreSound
<1>b. (stale \cup overtaken \cup disposed \cup gone) \cap ToSet(entries) = {}
  BY DEF HInv, EntriesAreSound
<1>1. ASSUME NEW c \in Consumers, Hit(c) PROVE EntriesAreSound'
  <2>1. PICK e \in ToSet(entries) : entries' = Append(Without(entries, key[e]), e)
    BY <1>1 DEF Hit, Cached
  <2>2. ToSet(entries') = ToSet(entries)
    BY <1>1, <2>1, HitCache DEF HInv, Hit
  <2> QED BY <1>1, <1>a, <1>b, <2>2 DEF Hit, flightVars, diskVars
<1>2. ASSUME NEW c \in Consumers, Lead(c) PROVE EntriesAreSound'
  <2>1. ToSet(entries') = ToSet(entries) \ Victims /\ Victims \subseteq ToSet(entries)
    BY <1>2, LeadCache DEF HInv, Lead
  <2>2. /\ stale' = stale \cup Victims /\ disposed' \subseteq disposed \cup Victims
        /\ UNCHANGED <<overtaken, gone>>
    BY <1>2 DEF Lead, Evict, Disposable, diskVars
  <2> QED BY <1>a, <1>b, <2>1, <2>2
<1>3. ASSUME NEW c \in Consumers, Raise(c) PROVE EntriesAreSound'
  <2>1. UNCHANGED <<key, overtaken, gone, disposed>>
    BY <1>3 DEF Raise, consumerRest, flightVars, diskVars
  <2>2. CASE UNCHANGED <<entries, stale>>
    BY <1>a, <1>b, <2>1, <2>2
  <2>3. CASE /\ held[c] \in ToSet(entries)
             /\ entries' = Without(entries, key[held[c]]) /\ stale' = stale \cup {held[c]}
    <3>1. ToSet(entries') = ToSet(entries) \ {held[c]}
      BY <2>1, <2>3, RaiseCache DEF HInv
    <3> QED BY <1>a, <1>b, <2>1, <2>3, <3>1
  <2> QED BY <1>3, <2>2, <2>3 DEF Raise
<1>4. ASSUME NEW c \in Consumers, Leave(c) PROVE EntriesAreSound'
  <2>1. UNCHANGED <<entries, stale, overtaken, gone>> /\ disposed' \subseteq disposed \cup stale
    BY <1>4 DEF Leave, diskVars
  <2> QED BY <1>a, <1>b, <2>1
<1>5. ASSUME NEW f \in Consumers, Publish(f) PROVE EntriesAreSound'
  <2>1. /\ ~Published(f) /\ f \notin stale \cup ToSet(entries) \cup disposed \cup gone
    BY <1>5 DEF HInv, EntriesAreSound, Disposal, Publish, Published, Done
  <2>2. Published(f)'
    BY <1>5 DEF HInv, TypeOK, Failures, Publish, Published, Done, To, Landing
  <2>3. UNCHANGED <<overtaken, gone>>
    BY <1>5 DEF Publish, diskVars
  <2>4. \A e \in ToSet(entries) \cup stale : Published(e)'
    BY <1>0, PublishedStays DEF HInv, EntriesAreSound
  <2>5. CASE f \notin overtaken /\ ~Stopped(f)
    <3>1. /\ entries' = Append(Without(Kept, key[f]), f) /\ Running(f) /\ UNCHANGED key
          /\ stale' = stale \cup Victims /\ disposed' \subseteq disposed \cup Victims
      BY <1>5, <2>5 DEF Publish, callVars, Running, Done, Evict, Disposable
    <3>2. ToSet(entries') = (ToSet(entries) \ Victims) \cup {f} /\ Victims \subseteq ToSet(entries)
      BY <2>5, <3>1, WantedIsNotCached, PublishCache DEF HInv
    <3>3. \A e \in ToSet(entries') : e \notin stale' \cup overtaken' \cup disposed' \cup gone'
      BY <1>b, <2>1, <2>3, <2>5, <3>1, <3>2
    <3> QED BY <2>2, <2>4, <3>1, <3>2, <3>3 DEF EntriesAreSound
  <2>6. CASE ~(f \notin overtaken /\ ~Stopped(f))
    <3>1. UNCHANGED entries /\ stale' = stale \cup {f} /\ disposed' \subseteq disposed \cup {f}
      BY <1>5, <2>6 DEF Publish
    <3> QED BY <1>b, <2>1, <2>2, <2>3, <2>4, <3>1 DEF EntriesAreSound
  <2> QED BY <2>5, <2>6
<1>6. ASSUME NEW f \in Consumers, Discard(f) PROVE EntriesAreSound'
  <2>1. f \notin ToSet(entries)
    BY <1>6 DEF HInv, EntriesAreSound, Discard, Published, Done
  <2>2. UNCHANGED <<entries, stale, overtaken, disposed>> /\ gone' = gone \cup {f}
    BY <1>6 DEF Discard, loadRest
  <2> QED BY <1>a, <1>b, <2>1, <2>2
<1>7. ASSUME NEW e \in Consumers, Dispose(e) PROVE EntriesAreSound'
  <2>1. UNCHANGED <<entries, stale, overtaken, disposed>> /\ gone' \subseteq gone \cup disposed
    BY <1>7 DEF Dispose, flightVars, entryVars
  <2> QED BY <1>a, <1>b, <2>1
<1>8. CASE Clear
  <2>1. ToSet(entries') = {}
    BY <1>8, ClearCache DEF Clear
  <2> QED BY <1>8, <1>a, <2>1 DEF Clear, Evict
<1>9. ASSUME NEW c \in Consumers,
             \/ Stop(c) \/ Decline(c) \/ Join(c) \/ Await(c) \/ Receive(c) \/ Return(c)
             \/ ThreadFails(c) \/ Prepare(c) \/ Fetch(c) \/ Fail(c) \/ Finish(c)
      PROVE  EntriesAreSound'
  <2>1. UNCHANGED <<entries, stale, overtaken, disposed, gone>>
    BY <1>9 DEF Stop, Decline, Join, Await, Receive, Return, ThreadFails, Prepare, Fetch,
       Fail, Finish, entryVars, flightVars, diskVars, loadRest, consumerRest
  <2> QED BY <1>a, <1>b, <2>1
<1>10. CASE UNCHANGED vars
  BY <1>10, <1>a, <1>b DEF vars, flightVars, entryVars, diskVars
<1> QED BY <1>1, <1>2, <1>3, <1>4, <1>5, <1>6, <1>7, <1>8, <1>9, <1>10 DEF Next, Lease, Load

\* The registered flights.
LEMMA RegisteredStep ==
  ASSUME HInv, [Next]_vars
  PROVE  Registered'
<1>a. ASSUME UNCHANGED <<key, inflight>>, ToSet(entries') \subseteq ToSet(entries),
             \A f \in Consumers : Running(f)' <=> Running(f)
      PROVE  Registered'
  <2>1. \A f \in Consumers : Running(f) /\ ~Stopped(f)' => ~Stopped(f)
    BY StoppedStays DEF Running
  <2>2. \A k \in Keys : inflight[k] # None => inflight[k] \in Consumers
    BY DEF HInv, TypeOK
  <2> QED BY <1>a, <2>1, <2>2 DEF HInv, Registered
<1>b. ASSUME NEW f \in Consumers, Land(f), UNCHANGED key,
             \A e \in ToSet(entries') : e \in ToSet(entries) \/ (e = f /\ ~Stopped(f)),
             Running(f), ~Running(f)',
             \A g \in Consumers \ {f} : Running(g)' <=> Running(g)
      PROVE  Registered'
  <2>1. \A g \in Consumers : Running(g)' => g # f /\ Running(g)
    BY <1>b
  <2>2. \A k \in Keys : inflight'[k] # None => inflight'[k] = inflight[k] /\ inflight[k] # f
    BY <1>b DEF Land
  <2>3. ASSUME NEW k \in Keys, NEW g \in Consumers, inflight'[k] = g
        PROVE  key'[g] = k /\ Running(g)'
    <3>1. inflight[k] = g /\ g # f
      BY <2>2, <2>3, HourCacheAssumption DEF HourCacheAssumption
    <3> QED BY <1>b, <3>1 DEF HInv, Registered
  <2>4. ASSUME NEW g \in Consumers, Running(g)', ~Stopped(g)'
        PROVE  inflight'[key'[g]] = g /\ \A e \in ToSet(entries') : key'[e] # key'[g]
    <3>1. g # f /\ Running(g) /\ ~Stopped(g)
      BY <2>1, <2>4, StoppedStays DEF Running
    <3>2. inflight[key[g]] = g /\ \A e \in ToSet(entries) : key[e] # key[g]
      BY <3>1 DEF HInv, Registered
    <3>3. ~Stopped(f) => inflight[key[f]] = f
      BY <1>b DEF HInv, Registered
    <3>4. key[g] \in Keys
      BY DEF HInv, TypeOK
    <3>5. inflight'[key[g]] = g
      BY <1>b, <3>1, <3>2, <3>4 DEF Land
    <3> QED BY <1>b, <3>1, <3>2, <3>3, <3>5
  <2> QED BY <2>3, <2>4 DEF Registered
<1>1. ASSUME NEW c \in Consumers, Hit(c) PROVE Registered'
  <2>1. PICK e \in ToSet(entries) : entries' = Append(Without(entries, key[e]), e)
    BY <1>1 DEF Hit, Cached
  <2>2. ToSet(entries') = ToSet(entries) /\ UNCHANGED <<key, inflight, load>>
    BY <1>1, <2>1, HitCache DEF HInv, Hit, flightVars
  <2> QED BY <1>a, <2>2 DEF Running, Done
<1>2. ASSUME NEW c \in Consumers, Lead(c) PROVE Registered'
  <2>1. ToSet(entries') \subseteq ToSet(entries) /\ UNCHANGED key
    BY <1>2, LeadCache DEF HInv, Lead
  <2>2. /\ inflight' = [inflight EXCEPT ![key[c]] = c] /\ load' = [load EXCEPT ![c] = "start"]
        /\ load[c] = "none" /\ key[c] \in Keys /\ Cached(key[c]) = {}
        /\ (inflight[key[c]] # None => Stopped(inflight[key[c]]))
    BY <1>2 DEF HInv, TypeOK, Calls, Lead, Looking, Flying, To
  <2>3. /\ Running(c)' /\ \A f \in Consumers \ {c} : Running(f)' <=> Running(f)
    BY <2>2 DEF HInv, TypeOK, Running, Done
  <2>4. ASSUME NEW k \in Keys, NEW f \in Consumers, inflight'[k] = f
        PROVE  key'[f] = k /\ Running(f)'
    <3>1. CASE k = key[c]
      BY <2>1, <2>2, <2>3, <2>4, <3>1 DEF HInv, TypeOK
    <3>2. CASE k # key[c]
      <4>1. inflight[k] = f
        BY <2>2, <2>4, <3>2 DEF HInv, TypeOK
      <4>2. f # c /\ key[f] = k /\ Running(f)
        BY <2>2, <4>1 DEF HInv, Registered, Running
      <4> QED BY <2>1, <2>3, <4>2
    <3> QED BY <3>1, <3>2
  <2>5. ASSUME NEW f \in Consumers, Running(f)', ~Stopped(f)'
        PROVE  inflight'[key'[f]] = f /\ \A e \in ToSet(entries') : key'[e] # key'[f]
    <3>1. CASE f = c
      BY <2>1, <2>2, <3>1 DEF HInv, TypeOK, Cached
    <3>2. CASE f # c
      <4>1. Running(f) /\ ~Stopped(f)
        BY <2>3, <2>5, <3>2, StoppedStays DEF Running
      <4>2. inflight[key[f]] = f /\ \A e \in ToSet(entries) : key[e] # key[f]
        BY <4>1 DEF HInv, Registered
      <4>3. key[f] # key[c]
        BY <2>2, <4>1, <4>2, HourCacheAssumption DEF HourCacheAssumption
      <4> QED BY <2>1, <2>2, <4>2, <4>3 DEF HInv, TypeOK
    <3> QED BY <3>1, <3>2
  <2> QED BY <2>4, <2>5 DEF Registered
<1>3. ASSUME NEW c \in Consumers, Raise(c) PROVE Registered'
  <2>1. UNCHANGED <<key, inflight, load>>
    BY <1>3 DEF Raise, consumerRest, flightVars
  <2>2. ToSet(entries') \subseteq ToSet(entries)
    <3>1. \/ UNCHANGED entries
          \/ held[c] \in ToSet(entries) /\ entries' = Without(entries, key[held[c]])
      BY <1>3 DEF Raise
    <3> QED BY <2>1, <3>1, RaiseCache DEF HInv
  <2> QED BY <1>a, <2>1, <2>2 DEF Running, Done
<1>4. ASSUME NEW f \in Consumers, Publish(f) PROVE Registered'
  <2>1. Land(f) /\ UNCHANGED key /\ Running(f) /\ ~Running(f)'
    BY <1>4 DEF HInv, TypeOK, Publish, callVars, Running, Done, To, Landing
  <2>2. \A g \in Consumers \ {f} : Running(g)' <=> Running(g)
    BY <1>4 DEF HInv, TypeOK, Publish, Running, Done, To
  <2>3. \A e \in ToSet(entries') : e \in ToSet(entries) \/ (e = f /\ ~Stopped(f))
    <3>1. CASE f \notin overtaken /\ ~Stopped(f)
      <4>1. entries' = Append(Without(Kept, key[f]), f)
        BY <1>4, <3>1 DEF Publish
      <4> QED BY <2>1, <3>1, <4>1, WantedIsNotCached, PublishCache DEF HInv
    <3> QED BY <1>4, <3>1 DEF Publish
  <2> QED BY <1>b, <2>1, <2>2, <2>3
<1>5. ASSUME NEW f \in Consumers, ThreadFails(f) \/ Fail(f) PROVE Registered'
  <2>1. Land(f) /\ UNCHANGED <<key, entries>> /\ Running(f) /\ ~Running(f)'
    BY <1>5 DEF HInv, TypeOK, ThreadFails, Fail, callVars, entryVars, loadRest, Running,
           Done, To, Landing
  <2>2. \A g \in Consumers \ {f} : Running(g)' <=> Running(g)
    BY <1>5 DEF HInv, TypeOK, ThreadFails, Fail, Running, Done, To
  <2> QED BY <1>b, <2>1, <2>2
<1>6. ASSUME NEW f \in Consumers, Prepare(f) \/ Fetch(f) \/ Discard(f) \/ Finish(f) PROVE Registered'
  <2>1. UNCHANGED <<key, entries, inflight>>
    BY <1>6 DEF Prepare, Fetch, Discard, Finish, callVars, entryVars, loadRest
  <2>2. \A g \in Consumers : Running(g)' <=> Running(g)
    BY <1>6 DEF HInv, TypeOK, Prepare, Fetch, Discard, Finish, Running, Done, To
  <2> QED BY <1>a, <2>1, <2>2
<1>7. CASE Clear
  <2>1. ToSet(entries') = {} /\ UNCHANGED <<key, inflight, load>>
    BY <1>7, ClearCache DEF Clear, callVars
  <2> QED BY <1>a, <2>1 DEF Running, Done
<1>8. ASSUME NEW c \in Consumers,
             \/ Stop(c) \/ Decline(c) \/ Join(c) \/ Await(c) \/ Receive(c) \/ Return(c) \/ Leave(c)
             \/ Dispose(c)
      PROVE  Registered'
  <2>1. UNCHANGED <<key, inflight, load, entries>>
    BY <1>8 DEF Stop, Decline, Join, Await, Receive, Return, Leave, Dispose, entryVars,
           flightVars,
       callVars, consumerRest
  <2> QED BY <1>a, <2>1 DEF Running, Done
<1>9. CASE UNCHANGED vars
  BY <1>9, <1>a DEF vars, callVars, flightVars, entryVars, Running, Done
<1> QED BY <1>1, <1>2, <1>3, <1>4, <1>5, <1>6, <1>7, <1>8, <1>9 DEF Next, Lease, Load

\* What is closed, or will be, is leased by nobody and used by no load.
LEMMA DisposalStep ==
  ASSUME HInv, [Next]_vars
  PROVE  Disposal'
<1> DEFINE Early == {"none", "start", "fetching", "fetched"}
           Free(e) == leases[e] = 0 /\ load[e] \notin Early
<1>0. /\ ToSet(entries) \subseteq Consumers /\ disposed \cup gone \subseteq Consumers
      /\ \A e \in disposed \cup gone : Free(e)
      /\ \A e \in ToSet(entries) : load[e] \notin Early /\ e \notin disposed \cup gone
  <2>1. ToSet(entries) \subseteq Consumers /\ disposed \cup gone \subseteq Consumers
    BY DEF HInv, TypeOK, ToSet
  <2>2. \A e \in disposed \cup gone : Free(e)
    BY DEF HInv, Disposal
  <2>3. \A e \in ToSet(entries) : load[e] \notin Early /\ e \notin disposed \cup gone
    BY DEF HInv, EntriesAreSound, Published, Done
  <2> QED BY <2>1, <2>2, <2>3
<1>a. ASSUME disposed' \cup gone' \subseteq disposed \cup gone, UNCHANGED leases,
             \A e \in Consumers : load[e] \notin Early => load'[e] \notin Early
      PROVE  Disposal'
  BY <1>0, <1>a DEF Disposal
<1>1. ASSUME NEW c \in Consumers, Hit(c) PROVE Disposal'
  <2>1. PICK e \in ToSet(entries) : leases' = [leases EXCEPT ![e] = @ + 1]
    BY <1>1 DEF Hit, Cached
  <2>2. UNCHANGED <<load, disposed, gone>>
    BY <1>1 DEF Hit, flightVars, diskVars
  <2>3. \A d \in Consumers \ {e} : leases'[d] = leases[d]
    BY <2>1 DEF HInv, TypeOK
  <2> QED BY <1>0, <2>2, <2>3 DEF Disposal
<1>2. ASSUME NEW c \in Consumers, Lead(c) PROVE Disposal'
  <2>1. Victims \subseteq ToSet(entries)
    BY <1>2, LeadCache DEF HInv, Lead
  <2>2. disposed' = disposed \cup Disposable(Victims) /\ UNCHANGED <<leases, gone>>
    BY <1>2 DEF Lead, Evict, diskVars
  <2>3. load' = [load EXCEPT ![c] = "start"] /\ load[c] = "none"
    BY <1>2 DEF HInv, Calls, Lead, Looking, To
  <2>4. \A e \in disposed' \cup gone' : Free(e) /\ e \in Consumers
    BY <1>0, <2>1, <2>2 DEF Disposable
  <2> QED BY <2>2, <2>3, <2>4 DEF HInv, TypeOK, Disposal
<1>3. ASSUME NEW c \in Consumers, Leave(c) PROVE Disposal'
  <2>1. UNCHANGED <<load, gone>> /\ leases' = [e \in Consumers |->
                  IF e \in LeasedBy(c) /\ leases[e] > 0 THEN leases[e] - 1 ELSE leases[e]]
    BY <1>3 DEF Leave, diskVars
  <2>2. disposed' = disposed \cup {e \in stale \cap LeasedBy(c) : leases[e] <= 1}
    BY <1>3 DEF Leave
  <2>3. \A e \in disposed \cup gone : leases'[e] = 0
    BY <1>0, <2>1
  <2>4. ASSUME NEW e \in stale \cap LeasedBy(c), leases[e] <= 1 PROVE leases'[e] = 0 /\ load[e] \notin Early
    <3>1. e \in Consumers /\ leases[e] \in Nat
      BY DEF HInv, TypeOK
    <3>2. Published(e)
      BY DEF HInv, EntriesAreSound
    <3> QED BY <2>1, <2>4, <3>1, <3>2 DEF Published, Done
  <2> QED BY <1>0, <2>1, <2>2, <2>3, <2>4 DEF Disposal
<1>4. ASSUME NEW f \in Consumers, Publish(f) PROVE Disposal'
  <2>1. f \notin disposed \cup gone /\ f \notin ToSet(entries) /\ UNCHANGED gone
    BY <1>0, <1>4 DEF Publish, diskVars
  <2>2. /\ leases'[f] = Cardinality(waiting[f]) /\ load'[f] \notin Early
        /\ \A e \in Consumers \ {f} : leases'[e] = leases[e] /\ load'[e] = load[e]
    BY <1>4 DEF HInv, TypeOK, Publish, To, Landing
  <2>3. CASE f \notin overtaken /\ ~Stopped(f)
    <3>1. /\ entries' = Append(Without(Kept, key[f]), f) /\ Running(f) /\ UNCHANGED key
          /\ disposed' = disposed \cup Disposable(Victims)
      BY <1>4, <2>3 DEF Publish, callVars, Running, Done, Evict
    <3>2. Victims \subseteq ToSet(entries)
      BY <2>3, <3>1, WantedIsNotCached, PublishCache DEF HInv
    <3>3. \A e \in disposed' \cup gone' : Free(e) /\ e \in Consumers \ {f}
      BY <1>0, <2>1, <3>1, <3>2 DEF Disposable
    <3> QED BY <2>2, <3>3 DEF Disposal
  <2>4. CASE ~(f \notin overtaken /\ ~Stopped(f))
    <3>1. disposed' = IF waiting[f] = {} THEN disposed \cup {f} ELSE disposed
      BY <1>4, <2>4 DEF Publish
    <3>2. waiting[f] = {} => leases'[f] = 0
      BY <2>2, FS_EmptySet
    <3> QED BY <1>0, <2>1, <2>2, <3>1, <3>2 DEF Disposal
  <2> QED BY <2>3, <2>4
<1>5. ASSUME NEW f \in Consumers, Discard(f) PROVE Disposal'
  <2>1. UNCHANGED <<leases, disposed>> /\ gone' = gone \cup {f} /\ load' = [load EXCEPT ![f] = "failed"]
    BY <1>5 DEF Discard, loadRest, To
  <2>2. leases[f] = 0
    BY <1>5, NoLeaseYet DEF Discard, Published, Done
  <2> QED BY <1>0, <2>1, <2>2 DEF HInv, TypeOK, Disposal
<1>6. ASSUME NEW e \in Consumers, Dispose(e) PROVE Disposal'
  BY <1>6, <1>a DEF Dispose, flightVars, entryVars
<1>7. CASE Clear
  <2>1. /\ UNCHANGED <<load, leases>> /\ disposed' = disposed \cup Disposable(ToSet(entries))
        /\ gone' = gone \cup Disposable(ToSet(entries))
                   \cup {f \in downloads : ~Protected(f) /\ f \notin Disposable(ToSet(entries))}
    BY <1>7 DEF Clear, Evict
  <2>2. \A f \in downloads : ~Protected(f) => Free(f)
    BY DEF HInv, TypeOK, Protected, Published, Done
  <2>3. \A e \in Disposable(ToSet(entries)) : Free(e)
    BY <1>0 DEF Disposable
  <2> QED BY <1>0, <2>1, <2>2, <2>3 DEF Disposal
<1>8. ASSUME NEW f \in Consumers, ThreadFails(f) \/ Prepare(f) \/ Fetch(f) \/ Fail(f) \/ Finish(f)
      PROVE  Disposal'
  <2>1. UNCHANGED <<leases, disposed, gone>>
    BY <1>8 DEF ThreadFails, Prepare, Fetch, Fail, Finish, entryVars, diskVars, loadRest
  <2>2. \A e \in Consumers : load[e] \notin Early => load'[e] \notin Early
    BY <1>8 DEF HInv, TypeOK, ThreadFails, Prepare, Fetch, Fail, Finish, To, Landing
  <2> QED BY <1>a, <2>1, <2>2
<1>9. ASSUME NEW c \in Consumers,
             Stop(c) \/ Decline(c) \/ Join(c) \/ Await(c) \/ Receive(c) \/ Return(c) \/ Raise(c)
      PROVE  Disposal'
  <2>1. UNCHANGED <<leases, disposed, gone, load>>
    BY <1>9 DEF Stop, Decline, Join, Await, Receive, Return, Raise, entryVars, flightVars,
           diskVars,
       consumerRest
  <2> QED BY <1>a, <2>1
<1>10. CASE UNCHANGED vars
  BY <1>10, <1>a DEF vars, flightVars, entryVars, diskVars
<1> QED BY <1>1, <1>2, <1>3, <1>4, <1>5, <1>6, <1>7, <1>8, <1>9, <1>10 DEF Next, Lease, Load

\* Who will give back a lease of an entry.
Holders(e) == {c \in Consumers : e \in LeasedBy(c) /\ pc[c] # "left"}

\* The leases are counted right.
LEMMA CountStep ==
  ASSUME HInv, [Next]_vars
  PROVE  LeasesCountHolders'
<1>0. \A e \in Consumers : leases[e] = Cardinality(Holders(e)) /\ leases[e] \in Nat
  BY DEF HInv, TypeOK, LeasesCountHolders, Holders
<1>a. ASSUME UNCHANGED leases, \A e \in Consumers : Holders(e)' = Holders(e)
      PROVE  LeasesCountHolders'
  BY <1>0, <1>a DEF LeasesCountHolders, Holders
<1>b. ASSUME \A e \in Consumers : leases'[e] = Cardinality(Holders(e)')
      PROVE  LeasesCountHolders'
  BY <1>b DEF LeasesCountHolders, Holders
<1>c. ASSUME UNCHANGED <<joined, held>>, \A e \in Consumers : Published(e)' <=> Published(e),
             \A c \in Consumers : pc'[c] = "left" <=> pc[c] = "left"
      PROVE  \A e \in Consumers : Holders(e)' = Holders(e)
  <2>1. \A c \in Consumers : LeasedBy(c)' = LeasedBy(c)
    BY <1>c DEF HInv, TypeOK, LeasedBy
  <2> QED BY <1>c, <2>1 DEF Holders
<1>1. ASSUME NEW c \in Consumers, Decline(c) PROVE LeasesCountHolders'
  <2>1. UNCHANGED <<leases, joined, held, load, failure>> /\ pc[c] = "looking" /\ pc' = [pc EXCEPT ![c] = "left"]
    BY <1>1 DEF Decline, Goto, flightVars, entryVars
  <2>2. joined[c] = None /\ held[c] = None
    BY <2>1 DEF HInv, Calls
  <2>3. \A d \in Consumers : LeasedBy(d)' = LeasedBy(d)
    BY <2>1 DEF LeasedBy, Published, Done
  <2>4. LeasedBy(c) = {}
    BY <2>2 DEF LeasedBy
  <2>5. \A e \in Consumers : Holders(e)' = Holders(e)
    BY <2>1, <2>3, <2>4 DEF HInv, TypeOK, Holders
  <2> QED BY <1>a, <2>1, <2>5
<1>2. ASSUME NEW c \in Consumers, Hit(c) PROVE LeasesCountHolders'
  <2>1. PICK e \in ToSet(entries) :
          leases' = [leases EXCEPT ![e] = @ + 1] /\ held' = [held EXCEPT ![c] = e]
    BY <1>2 DEF Hit, Cached
  <2>2. UNCHANGED <<joined, load, failure>> /\ pc[c] = "looking" /\ pc' = [pc EXCEPT ![c] = "ready"]
    BY <1>2 DEF Hit, Looking, Goto, flightVars
  <2>3. e \in Consumers /\ joined[c] = None /\ held[c] = None
    BY <2>2 DEF HInv, TypeOK, Calls, ToSet
  <2>4. LeasedBy(c) = {} /\ LeasedBy(c)' = {e}
    BY <2>1, <2>3, HourCacheAssumption DEF HInv, TypeOK, LeasedBy, HourCacheAssumption
  <2>5. \A d \in Consumers \ {c} : LeasedBy(d)' = LeasedBy(d) /\ pc'[d] = pc[d]
    BY <2>1, <2>2 DEF HInv, TypeOK, LeasedBy, Published, Done
  <2>6. pc'[c] = "ready"
    BY <2>2 DEF HInv, TypeOK
  <2>7. Holders(e)' = Holders(e) \cup {c} /\ c \notin Holders(e)
    BY <2>4, <2>5, <2>6 DEF Holders
  <2>8. \A d \in Consumers \ {e} : Holders(d)' = Holders(d)
    BY <2>4, <2>5 DEF Holders
  <2>9. Cardinality(Holders(e)') = Cardinality(Holders(e)) + 1
    BY <2>7, Finite, FS_AddElement DEF Holders
  <2>10. \A d \in Consumers : leases'[d] = IF d = e THEN leases[e] + 1 ELSE leases[d]
    BY <2>1, <2>3 DEF HInv, TypeOK
  <2> QED BY <1>0, <1>b, <2>3, <2>8, <2>9, <2>10
<1>3. ASSUME NEW c \in Consumers, Join(c) \/ Lead(c) PROVE LeasesCountHolders'
  <2>1. UNCHANGED <<leases, held, failure>> /\ pc[c] = "looking" /\ pc' = [pc EXCEPT ![c] = "awaiting"]
    BY <1>3 DEF Join, Lead, Looking, Goto, entryVars
  <2>2. PICK f \in Consumers : joined' = [joined EXCEPT ![c] = f] /\ ~Published(f)'
    <3>1. CASE Join(c)
      <4>1. PICK f \in Consumers : f = inflight[key[c]] /\ ~Published(f) /\ UNCHANGED load
        BY <3>1 DEF HInv, TypeOK, Registered, Join, Flying, Running, Published
      <4> QED BY <2>1, <3>1, <4>1 DEF Join, Published, Done
    <3>2. CASE Lead(c)
      BY <3>2 DEF HInv, TypeOK, Lead, To, Published, Done
    <3> QED BY <1>3, <3>1, <3>2
  <2>3. joined[c] = None /\ held[c] = None
    BY <2>1 DEF HInv, Calls
  <2>4. LeasedBy(c) = {} /\ LeasedBy(c)' = {}
    BY <2>1, <2>2, <2>3 DEF HInv, TypeOK, LeasedBy
  <2>5. \A e \in Consumers : Published(e)' <=> Published(e)
    <3>1. UNCHANGED load \/ (load[c] = "none" /\ load' = [load EXCEPT ![c] = "start"])
      BY <1>3 DEF HInv, Calls, Join, Lead, Looking, To
    <3> QED BY <2>1, <3>1 DEF HInv, TypeOK, Published, Done
  <2>6. \A d \in Consumers \ {c} : LeasedBy(d)' = LeasedBy(d) /\ pc'[d] = pc[d]
    BY <2>1, <2>2, <2>5 DEF HInv, TypeOK, LeasedBy
  <2>7. \A e \in Consumers : Holders(e)' = Holders(e)
    BY <2>4, <2>6 DEF Holders
  <2> QED BY <1>a, <2>1, <2>7
<1>4. ASSUME NEW c \in Consumers, Await(c) PROVE LeasesCountHolders'
  <2>1. UNCHANGED <<leases, joined, load, failure>> /\ pc[c] = "awaiting"
    BY <1>4 DEF Await, consumerRest, flightVars, entryVars
  <2>2. joined[c] \in Consumers /\ held[c] = None
    BY <2>1 DEF HInv, TypeOK, Calls
  <2>3. /\ \A d \in Consumers : pc'[d] = "left" <=> pc[d] = "left"
        /\ \/ UNCHANGED held
           \/ Published(joined[c]) /\ held' = [held EXCEPT ![c] = joined[c]]
    BY <1>4, <2>1 DEF HInv, TypeOK, Await, End, Goto
  <2>4. \A d \in Consumers : LeasedBy(d)' = LeasedBy(d)
    <3>1. CASE UNCHANGED held
      BY <2>1, <3>1 DEF LeasedBy, Published, Done
    <3>2. CASE Published(joined[c]) /\ held' = [held EXCEPT ![c] = joined[c]]
      <4>1. LeasedBy(c) = {joined[c]} /\ LeasedBy(c)' = {joined[c]}
        BY <2>2, <3>2, HourCacheAssumption DEF HInv, TypeOK, LeasedBy, HourCacheAssumption
      <4>2. \A d \in Consumers \ {c} : LeasedBy(d)' = LeasedBy(d)
        BY <2>1, <3>2 DEF HInv, TypeOK, LeasedBy, Published, Done
      <4> QED BY <4>1, <4>2
    <3> QED BY <2>3, <3>1, <3>2
  <2>5. \A e \in Consumers : Holders(e)' = Holders(e)
    BY <2>3, <2>4 DEF Holders
  <2> QED BY <1>a, <2>1, <2>5
<1>5. ASSUME NEW c \in Consumers, Receive(c) \/ Return(c) \/ Raise(c) PROVE LeasesCountHolders'
  <2>1. UNCHANGED <<leases, joined, held, load, failure>>
    BY <1>5 DEF Receive, Return, Raise, consumerRest, flightVars, entryVars
  <2>2. \A d \in Consumers : pc'[d] = "left" <=> pc[d] = "left"
    BY <1>5 DEF HInv, TypeOK, Receive, Return, Raise, End, Goto
  <2>3. \A e \in Consumers : Published(e)' <=> Published(e)
    BY <2>1 DEF Published, Done
  <2> QED BY <1>a, <1>c, <2>1, <2>2, <2>3
<1>6. ASSUME NEW c \in Consumers, Leave(c) PROVE LeasesCountHolders'
  <2>1. UNCHANGED <<joined, held, load, failure>> /\ pc[c] = "leaving" /\ pc' = [pc EXCEPT ![c] = "left"]
    BY <1>6 DEF Leave, Goto
  <2>2. \A d \in Consumers : LeasedBy(d)' = LeasedBy(d)
    BY <2>1 DEF LeasedBy, Published, Done
  <2>3. \A e \in Consumers : Holders(e)' = Holders(e) \ {c}
    BY <2>1, <2>2 DEF HInv, TypeOK, Holders
  <2>4. ASSUME NEW e \in Consumers PROVE leases'[e] = Cardinality(Holders(e)')
    <3>1. leases'[e] = IF e \in LeasedBy(c) /\ leases[e] > 0 THEN leases[e] - 1 ELSE leases[e]
      BY <1>6 DEF Leave
    <3>2. c \in Holders(e) <=> e \in LeasedBy(c)
      BY <2>1 DEF Holders
    <3>3. CASE e \in LeasedBy(c)
      <4>1. IsFiniteSet(Holders(e)) /\ Cardinality(Holders(e) \ {c}) = Cardinality(Holders(e)) - 1
        BY <3>2, <3>3, Finite, FS_RemoveElement DEF Holders
      <4>2. Cardinality(Holders(e)) # 0
        BY <3>2, <3>3, <4>1, FS_EmptySet
      <4>3. Cardinality(Holders(e)') = Cardinality(Holders(e)) - 1
        BY <2>3, <4>1
      <4> QED BY <1>0, <3>1, <3>3, <4>2, <4>3
    <3>4. CASE e \notin LeasedBy(c)
      <4>1. Holders(e)' = Holders(e)
        BY <2>3, <3>2, <3>4
      <4> QED BY <1>0, <3>1, <3>4, <4>1
    <3> QED BY <3>3, <3>4
  <2> QED BY <1>b, <2>4
<1>7. ASSUME NEW f \in Consumers, Publish(f) PROVE LeasesCountHolders'
  <2>1. UNCHANGED <<pc, joined, held, failure>> /\ load[f] = "fetched"
    BY <1>7 DEF Publish, callVars
  <2>2. /\ \A e \in Consumers \ {f} : leases'[e] = leases[e] /\ (Published(e)' <=> Published(e))
        /\ leases'[f] = Cardinality(waiting[f])
    BY <1>7 DEF HInv, TypeOK, Publish, To, Published, Done
  <2>3. ~Published(f) /\ Published(f)'
    BY <1>7 DEF HInv, TypeOK, Failures, Publish, Published, Done, To, Landing
  <2>4. \A c \in Consumers : held[c] # f /\ (joined[c] = f => held[c] = None)
    BY <2>3, HourCacheAssumption DEF HInv, Calls, HourCacheAssumption
  <2>5. ASSUME NEW c \in Consumers PROVE f \in LeasedBy(c)' <=> joined[c] = f
    BY <2>1, <2>3, <2>4, HourCacheAssumption DEF LeasedBy, HourCacheAssumption
  <2>6. Holders(f)' = waiting[f]
    <3>1. \A c \in Consumers : c \in waiting[f] <=> joined[c] = f /\ pc[c] # "left"
      BY DEF HInv, Waiters
    <3>2. waiting[f] \subseteq Consumers
      BY DEF HInv, TypeOK
    <3> QED BY <2>1, <2>5, <3>1, <3>2 DEF Holders
  <2>7. ASSUME NEW e \in Consumers \ {f} PROVE Holders(e)' = Holders(e)
    <3>1. \A c \in Consumers : e \in LeasedBy(c)' <=> e \in LeasedBy(c)
      BY <2>1, <2>2 DEF LeasedBy
    <3> QED BY <2>1, <3>1 DEF Holders
  <2> QED BY <1>0, <1>b, <2>2, <2>6, <2>7
<1>8. ASSUME NEW f \in Consumers,
             ThreadFails(f) \/ Prepare(f) \/ Fetch(f) \/ Discard(f) \/ Fail(f) \/ Finish(f)
      PROVE  LeasesCountHolders'
  <2>1. UNCHANGED <<leases, pc, joined, held>>
    BY <1>8 DEF ThreadFails, Prepare, Fetch, Discard, Fail, Finish, entryVars, callVars,
           loadRest
  <2>2. \A e \in Consumers \ {f} : load'[e] = load[e] /\ failure'[e] = failure[e]
    BY <1>8 DEF HInv, TypeOK, ThreadFails, Prepare, Fetch, Discard, Fail, Finish, To
  <2>3. Published(f)' <=> Published(f)
    BY <1>8 DEF HInv, TypeOK, Failures, ThreadFails, Prepare, Fetch, Discard, Fail, Finish,
           To, Landing,
       Published, Done
  <2>4. \A e \in Consumers : Published(e)' <=> Published(e)
    BY <2>2, <2>3 DEF Published, Done
  <2> QED BY <1>a, <1>c, <2>1, <2>4
<1>9. ASSUME NEW c \in Consumers, Stop(c) \/ Dispose(c) PROVE LeasesCountHolders'
  <2>1. UNCHANGED <<leases, pc, joined, held, load, failure>>
    BY <1>9 DEF Stop, Dispose, entryVars, callVars, flightVars
  <2> QED BY <1>a, <1>c, <2>1 DEF Published, Done
<1>10. CASE Clear \/ UNCHANGED vars
  <2>1. UNCHANGED <<leases, pc, joined, held, load, failure>>
    BY <1>10 DEF Clear, vars, entryVars, callVars, flightVars
  <2> QED BY <1>a, <1>c, <2>1 DEF Published, Done
<1> QED BY <1>1, <1>2, <1>3, <1>4, <1>5, <1>6, <1>7, <1>8, <1>9, <1>10 DEF Next, Lease, Load

\* The background places.
LEMMA BackgroundStep ==
  ASSUME HInv, [Next]_vars
  PROVE  Background'
<1>0. Stoppable \subseteq Consumers /\ IsFiniteSet(Loads)
  BY Finite, HourCacheAssumption DEF HourCacheAssumption, Loads
<1>a. CASE UNCHANGED <<load, background>>
  BY <1>a DEF HInv, Background, Loads
<1>1. ASSUME NEW c \in Consumers, Lead(c) PROVE Background'
  <2>1. /\ load[c] = "none" /\ load' = [load EXCEPT ![c] = "start"]
        /\ background' = IF c \in Stoppable THEN background + 1 ELSE background
    BY <1>1 DEF HInv, Calls, Lead, Looking, To
  <2>2. Loads' = (IF c \in Stoppable THEN Loads \cup {c} ELSE Loads) /\ c \notin Loads
    BY <1>0, <2>1 DEF HInv, TypeOK, Loads
  <2>3. Cardinality(Loads \cup {c}) = Cardinality(Loads) + 1
    BY <1>0, <2>2, FS_AddElement
  <2>4. \A f \in Consumers : load'[f] = "closing" => f \in Stoppable
    BY <2>1 DEF HInv, TypeOK, Background
  <2> QED BY <2>1, <2>2, <2>3, <2>4 DEF HInv, Background
<1>2. ASSUME NEW f \in Consumers, ThreadFails(f) \/ Finish(f) PROVE Background'
  <2>1. f \in Loads /\ load' = [load EXCEPT ![f] = "over"] /\ background' = background - 1
    BY <1>2 DEF HInv, Background, ThreadFails, Finish, To, Loads
  <2>2. Loads' = Loads \ {f}
    BY <1>0, <2>1 DEF HInv, TypeOK, Loads
  <2>3. Cardinality(Loads \ {f}) = Cardinality(Loads) - 1
    BY <1>0, <2>1, FS_RemoveElement
  <2>4. \A g \in Consumers : load'[g] = "closing" => g \in Stoppable
    BY <2>1 DEF HInv, TypeOK, Background
  <2> QED BY <2>1, <2>2, <2>3, <2>4 DEF HInv, Background
<1>3. ASSUME NEW f \in Consumers, Prepare(f) \/ Fetch(f) \/ Publish(f) \/ Discard(f) \/ Fail(f)
      PROVE  Background'
  <2>1. UNCHANGED background
    BY <1>3 DEF Prepare, Fetch, Publish, Discard, Fail, loadRest
  <2>2. \A g \in Consumers \ {f} : load'[g] = load[g]
    BY <1>3 DEF HInv, TypeOK, Prepare, Fetch, Publish, Discard, Fail, To
  <2>3. /\ load[f] \notin {"none", "over"} /\ load'[f] # "none"
        /\ f \in Stoppable => load'[f] # "over"
        /\ load'[f] = "closing" => f \in Stoppable
    BY <1>3 DEF HInv, TypeOK, Prepare, Fetch, Publish, Discard, Fail, To, Landing
  <2>4. Loads' = Loads
    BY <1>0, <2>2, <2>3 DEF Loads
  <2> QED BY <2>1, <2>2, <2>3, <2>4 DEF HInv, Background
<1>4. ASSUME NEW c \in Consumers,
             \/ Decline(c) \/ Hit(c) \/ Join(c) \/ Await(c) \/ Receive(c) \/ Return(c) \/ Raise(c) \/ Leave(c)
             \/ Stop(c) \/ Dispose(c)
      PROVE  Background'
  BY <1>4, <1>a DEF Stop, Decline, Hit, Join, Await, Receive, Return, Raise, Leave, Dispose,
         flightVars,
     consumerRest
<1>5. CASE Clear \/ UNCHANGED vars
  BY <1>5, <1>a DEF Clear, vars, flightVars
<1> QED BY <1>1, <1>2, <1>3, <1>4, <1>5 DEF Next, Lease, Load

\* Who is told that it was cancelled.
LEMMA CancelledStep ==
  ASSUME HInv, [Next]_vars
  PROVE  OnlyTheStoppedAreCancelled'
<1>a. ASSUME UNCHANGED cancelled, stop \subseteq stop' PROVE OnlyTheStoppedAreCancelled'
  BY <1>a DEF HInv, OnlyTheStoppedAreCancelled
<1>b. ASSUME UNCHANGED stop, NEW c \in Consumers, cancelled' = cancelled \cup {c}, c \in stop
      PROVE  OnlyTheStoppedAreCancelled'
  BY <1>b DEF HInv, OnlyTheStoppedAreCancelled
<1>1. ASSUME NEW c \in Consumers, Decline(c) PROVE OnlyTheStoppedAreCancelled'
  BY <1>1, <1>b DEF Decline
<1>2. ASSUME NEW c \in Consumers, Await(c) PROVE OnlyTheStoppedAreCancelled'
  <2>1. UNCHANGED stop /\ pc[c] = "awaiting"
    BY <1>2 DEF Await, consumerRest
  <2>2. joined[c] \in Consumers /\ c \in waiting[joined[c]]
    BY <2>1 DEF HInv, TypeOK, Calls, Waiters
  <2>3. failure[joined[c]] = "cancelled" => c \in stop
    BY <2>2 DEF HInv, Failures, Stopped
  <2>4. UNCHANGED cancelled \/ (cancelled' = cancelled \cup {c} /\ c \in stop)
    BY <1>2, <2>3 DEF Await, End
  <2> QED BY <1>a, <1>b, <2>1, <2>4
<1>3. ASSUME NEW c \in Consumers, Receive(c) \/ Return(c) \/ Raise(c) PROVE OnlyTheStoppedAreCancelled'
  <2>1. UNCHANGED stop
    BY <1>3 DEF Receive, Return, Raise, consumerRest
  <2>2. UNCHANGED cancelled \/ (cancelled' = cancelled \cup {c} /\ c \in stop)
    BY <1>3 DEF Receive, Return, Raise, End
  <2> QED BY <1>a, <1>b, <2>1, <2>2
<1>4. ASSUME NEW c \in Consumers,
             \/ Stop(c) \/ Hit(c) \/ Join(c) \/ Lead(c) \/ Leave(c) \/ Dispose(c) \/ Load(c)
      PROVE  OnlyTheStoppedAreCancelled'
  <2>1. UNCHANGED cancelled /\ stop \subseteq stop'
    BY <1>4 DEF Stop, Hit, Join, Lead, Leave, Dispose, Load, ThreadFails, Prepare, Fetch,
           Publish,
       Discard, Fail, Finish, loadRest, callVars
  <2> QED BY <1>a, <2>1
<1>5. CASE Clear \/ UNCHANGED vars
  BY <1>5, <1>a DEF Clear, vars, callVars
<1> QED BY <1>1, <1>2, <1>3, <1>4, <1>5 DEF Next, Lease, Load

-----------------------------------------------------------------------------
(* The invariant, and what follows from it.                                *)

\* The invariant holds at the start.
LEMMA InitHInv == Init => HInv
<1> SUFFICES ASSUME Init PROVE HInv
  OBVIOUS
<1>1. TypeOK
  BY HourCacheAssumption DEF Init, TypeOK, HourCacheAssumption
<1>2. Calls /\ Waiters /\ Failures
  BY HourCacheAssumption DEF Init, Calls, Waiters, Failures, HourCacheAssumption
<1>3. ToSet(entries) = {} /\ Len(entries) = 0 /\ Len(entries) <= MaxEntries
  BY HourCacheBounds DEF Init, ToSet
<1>4. Registered
  BY HourCacheAssumption DEF Init, Registered, Running, Done, HourCacheAssumption
<1>5. CacheShape /\ EntriesAreSound /\ Disposal /\ OnlyTheStoppedAreCancelled
  BY <1>3 DEF Init, CacheShape, EntriesAreSound, Disposal, OnlyTheStoppedAreCancelled
<1>6. LeasesCountHolders
  <2>1. \A e \in Consumers : {c \in Consumers : e \in LeasedBy(c) /\ pc[c] # "left"} = {}
    BY DEF Init, LeasedBy
  <2> QED BY <2>1, FS_EmptySet DEF Init, LeasesCountHolders
<1>7. Background
  <2>1. Loads = {}
    BY HourCacheAssumption DEF Init, Loads, HourCacheAssumption
  <2> QED BY <2>1, FS_EmptySet DEF Init, Background
<1> QED BY <1>1, <1>2, <1>4, <1>5, <1>6, <1>7 DEF HInv

\* Every step preserves it.
LEMMA Inductive == HInv /\ [Next]_vars => HInv'
BY TypeStep, CallsStep, WaitersStep, FailuresStep, RegisteredStep, CacheStep, EntriesStep,
   DisposalStep,
   CountStep, BackgroundStep, CancelledStep DEF HInv

\* It holds always.
LEMMA Invariance == Spec => []HInv
BY InitHInv, Inductive, PTL DEF Spec

\* Type correctness of the cache; among it that the background places never go below
\* zero.
THEOREM TypeCorrect == Spec => []TypeOK
<1>1. HInv => TypeOK
  BY DEF HInv
<1> QED BY <1>1, Invariance, PTL

\* A dataset is open as long as somebody uses it, and an entry has as many leases as
\* consumers that will give one back.
THEOREM LeasesKept == Spec => []LeasesAreKept
<1>1. HInv => LeasesAreKept
  <2> SUFFICES ASSUME HInv PROVE LeasedIsOpen
    BY DEF HInv, LeasesAreKept
  <2> SUFFICES ASSUME NEW c \in Consumers, NEW e \in LeasedBy(c), pc[c] \in {"awaiting", "ready", "using"}
               PROVE  e \notin disposed \cup gone
    BY DEF LeasedIsOpen
  <2>1. e \in Consumers
    BY DEF HInv, TypeOK, LeasedBy
  <2>2. c \in Holders(e) /\ leases[e] = Cardinality(Holders(e)) /\ IsFiniteSet(Holders(e))
    BY <2>1, Finite DEF HInv, LeasesCountHolders, Holders
  <2>3. leases[e] # 0
    BY <2>2, FS_EmptySet
  <2> QED BY <2>3 DEF HInv, Disposal
<1> QED BY <1>1, Invariance, PTL

\* A lease is cancelled only for the consumer that was stopped.  Beside a load that
\* somebody wants no other one of its hour runs but those that everyone has given up: a
\* wanted load is the registered one.
THEOREM LoadsAreShared == Spec => []SharingIsFair
<1>1. HInv => SharingIsFair
  BY DEF HInv, Registered, Running, OnlyTheStoppedAreCancelled, WantedLoadIsShared,
         SharingIsFair
<1> QED BY <1>1, Invariance, PTL

\* What is cached may be handed out.
THEOREM CacheIsFresh == Spec => []CachedIsFresh
<1>1. HInv => CachedIsFresh
  BY DEF HInv, CacheShape, EntriesAreSound, CachedIsFresh
<1> QED BY <1>1, Invariance, PTL
-----------------------------------------------------------------------------
(* Where nothing is left behind.                                           *)

\* Every published entry is cached or has been given up, and one that was given up
\* is disposed of with its last lease.
Accounted ==
  /\ \A e \in Consumers : Published(e) => e \in ToSet(entries) \cup stale
  /\ \A e \in stale : leases[e] = 0 => e \in disposed

\* It holds at the start.
LEMMA InitAccounted == Init => Accounted
BY DEF Init, Accounted, Published, Done

\* Only the end of a load publishes an entry.
LEMMA PublishedBefore ==
  ASSUME HInv, [Next]_vars, NEW e \in Consumers, Published(e)', ~Publish(e)
  PROVE  Published(e)
<1>0. CASE load'[e] = load[e] /\ failure'[e] = failure[e]
  BY <1>0 DEF Published, Done
<1>1. ASSUME NEW f \in Consumers, Load(f) PROVE Published(e)
  <2>1. CASE f # e
    <3>1. load'[e] = load[e] /\ failure'[e] = failure[e]
      BY <1>1, <2>1 DEF HInv, TypeOK, Load, ThreadFails, Prepare, Fetch, Publish, Discard,
             Fail,
         Finish, To, loadRest
    <3> QED BY <1>0, <3>1
  <2>2. CASE f = e
    BY <1>1, <2>2 DEF HInv, TypeOK, Failures, Load, ThreadFails, Prepare, Fetch, Discard,
           Fail,
       Finish, To, Landing, loadRest, Published, Done
  <2> QED BY <2>1, <2>2
<1>2. ASSUME NEW c \in Consumers, Lead(c) PROVE Published(e)
  BY <1>2 DEF HInv, TypeOK, Lead, To, Published, Done
<1>3. ASSUME NEW c \in Consumers, Lease(c) PROVE Published(e)
  <2>1. UNCHANGED <<failure, load>> \/ Lead(c)
    BY <1>3 DEF Lease, Decline, Hit, Join, Await, Receive, Return, Raise, Leave,
       consumerRest, flightVars
  <2> QED BY <1>0, <1>2, <2>1
<1>4. ASSUME NEW c \in Consumers, Stop(c) \/ Dispose(c) PROVE Published(e)
  BY <1>0, <1>4 DEF Stop, Dispose, flightVars
<1>5. CASE Clear \/ UNCHANGED vars
  BY <1>0, <1>5 DEF Clear, vars, flightVars
<1> QED BY <1>1, <1>3, <1>4, <1>5 DEF Next

\* What a step that publishes nothing has to do: what leaves the cache is given up,
\* and what is given up and has no lease is disposed of.
LEMMA AccountedIf ==
  ASSUME HInv, [Next]_vars, Accounted, \A f \in Consumers : ~Publish(f),
         ToSet(entries) \cup stale \subseteq ToSet(entries') \cup stale',
         \A e \in stale' : leases'[e] = 0 => e \in disposed' \/ (e \in stale /\ leases[e] = 0),
         disposed \subseteq disposed'
  PROVE  Accounted'
<1>1. \A e \in Consumers : Published(e)' => e \in ToSet(entries') \cup stale'
  BY PublishedBefore DEF Accounted
<1> QED BY <1>1 DEF Accounted

\* Every step keeps it.
LEMMA AccountedStep ==
  ASSUME HInv, [Next]_vars, Accounted
  PROVE  Accounted'
<1>0. ToSet(entries) \subseteq Consumers /\ stale \subseteq Consumers
  BY DEF HInv, TypeOK, ToSet
<1>p. ASSUME NEW f \in Consumers, load[f] # "fetched" \/ load'[f] = load[f] PROVE ~Publish(f)
  BY <1>p DEF HInv, TypeOK, Publish, To, Landing
<1>q. ASSUME NEW f \in Consumers, UNCHANGED load PROVE ~Publish(f)
  BY <1>p, <1>q
<1>1. ASSUME NEW c \in Consumers, Hit(c) PROVE Accounted'
  <2>1. PICK e \in ToSet(entries) :
           /\ entries' = Append(Without(entries, key[e]), e)
           /\ leases' = [leases EXCEPT ![e] = @ + 1]
    BY <1>1 DEF Hit, Cached
  <2>2. ToSet(entries') = ToSet(entries)
    BY <1>1, <2>1, HitCache DEF HInv, Hit
  <2>3. UNCHANGED <<load, stale, disposed>>
    BY <1>1 DEF Hit, flightVars
  <2>4. e \notin stale /\ leases \in [Consumers -> Nat]
    BY <2>1 DEF HInv, EntriesAreSound, TypeOK
  <2>5. \A d \in stale : leases'[d] = leases[d]
    BY <1>0, <2>1, <2>4
  <2> QED BY <1>q, <2>2, <2>3, <2>5, AccountedIf
<1>2. ASSUME NEW c \in Consumers, Lead(c) PROVE Accounted'
  <2>1. ToSet(entries') = ToSet(entries) \ Victims /\ Victims \subseteq ToSet(entries)
    BY <1>2, LeadCache DEF HInv, Lead
  <2>2. /\ stale' = stale \cup Victims /\ disposed' = disposed \cup Disposable(Victims)
        /\ UNCHANGED leases
    BY <1>2 DEF Lead, Evict
  <2>3. \A e \in Victims : leases[e] = 0 => e \in disposed'
    BY <2>2 DEF Disposable
  <2>4. \A f \in Consumers : ~Publish(f)
    BY <1>2, <1>p DEF HInv, Calls, TypeOK, Lead, Looking, To
  <2> QED BY <2>1, <2>2, <2>3, <2>4, AccountedIf
<1>3. ASSUME NEW c \in Consumers, Raise(c) PROVE Accounted'
  <2>1. UNCHANGED <<key, load, leases, disposed>>
    BY <1>3 DEF Raise, consumerRest, flightVars
  <2>2. CASE UNCHANGED <<entries, stale>>
    BY <1>q, <2>1, <2>2, AccountedIf
  <2>3. CASE /\ held[c] \in ToSet(entries)
             /\ entries' = Without(entries, key[held[c]]) /\ stale' = stale \cup {held[c]}
    <3>1. ToSet(entries') = ToSet(entries) \ {held[c]}
      BY <2>1, <2>3, RaiseCache DEF HInv
    <3>2. held[c] \in Consumers /\ c \in Holders(held[c])
      BY <1>0, <1>3, <2>3, HourCacheAssumption
         DEF HInv, Raise, LeasedBy, Holders, HourCacheAssumption
    <3>3. leases[held[c]] = Cardinality(Holders(held[c])) /\ IsFiniteSet(Holders(held[c]))
      BY <3>2, Finite DEF HInv, LeasesCountHolders, Holders
    <3>4. leases[held[c]] # 0
      BY <3>2, <3>3, FS_EmptySet
    <3> QED BY <1>q, <2>1, <2>3, <3>1, <3>4, AccountedIf
  <2> QED BY <1>3, <2>2, <2>3 DEF Raise
<1>4. ASSUME NEW c \in Consumers, Leave(c) PROVE Accounted'
  <2>1. /\ UNCHANGED <<entries, stale, load>>
        /\ leases' = [e \in Consumers |->
                        IF e \in LeasedBy(c) /\ leases[e] > 0 THEN leases[e] - 1 ELSE leases[e]]
        /\ disposed' = disposed \cup {e \in stale \cap LeasedBy(c) : leases[e] <= 1}
    BY <1>4 DEF Leave
  <2>2. leases \in [Consumers -> Nat]
    BY DEF HInv, TypeOK
  <2>3. ASSUME NEW e \in stale', leases'[e] = 0
        PROVE  e \in disposed' \/ (e \in stale /\ leases[e] = 0)
    <3>1. e \in stale /\ e \in Consumers /\ leases[e] \in Nat
      BY <1>0, <2>1, <2>2
    <3> QED BY <2>1, <2>3, <3>1
  <2> QED BY <1>q, <2>1, <2>3, AccountedIf
<1>5. ASSUME NEW f \in Consumers, Publish(f) PROVE Accounted'
  <2>1. ~Published(f) /\ f \notin stale \cup ToSet(entries)
    BY <1>5 DEF HInv, EntriesAreSound, Publish, Published, Done
  <2>2. \A e \in Consumers \ {f} : Published(e)' => e \in ToSet(entries) \cup stale
    <3>1. \A e \in Consumers \ {f} : ~Publish(e)
      BY <1>5, <1>p DEF HInv, TypeOK, Publish, To
    <3> QED BY <3>1, PublishedBefore DEF Accounted
  <2>3. /\ \A e \in Consumers \ {f} : leases'[e] = leases[e]
        /\ leases'[f] = Cardinality(waiting[f])
    BY <1>5 DEF HInv, TypeOK, Publish
  <2>4. CASE f \notin overtaken /\ ~Stopped(f)
    <3>1. /\ entries' = Append(Without(Kept, key[f]), f) /\ Running(f) /\ UNCHANGED key
          /\ stale' = stale \cup Victims /\ disposed' = disposed \cup Disposable(Victims)
      BY <1>5, <2>4 DEF Publish, callVars, Running, Done, Evict
    <3>2. ToSet(entries') = (ToSet(entries) \ Victims) \cup {f} /\ Victims \subseteq ToSet(entries)
      BY <2>4, <3>1, WantedIsNotCached, PublishCache DEF HInv
    <3>3. \A e \in Consumers : Published(e)' => e \in ToSet(entries') \cup stale'
      BY <2>2, <3>1, <3>2
    <3>4. \A e \in stale' : leases'[e] = 0 => e \in disposed'
      BY <1>0, <2>1, <2>3, <3>1, <3>2 DEF Accounted, Disposable
    <3> QED BY <3>3, <3>4 DEF Accounted
  <2>5. CASE ~(f \notin overtaken /\ ~Stopped(f))
    <3>1. /\ UNCHANGED entries /\ stale' = stale \cup {f}
          /\ disposed' = IF waiting[f] = {} THEN disposed \cup {f} ELSE disposed
      BY <1>5, <2>5 DEF Publish
    <3>2. waiting[f] \subseteq Consumers /\ IsFiniteSet(waiting[f])
      BY Finite DEF HInv, TypeOK
    <3>3. Cardinality(waiting[f]) = 0 => waiting[f] = {}
      BY <3>2, FS_EmptySet
    <3>4. \A e \in Consumers : Published(e)' => e \in ToSet(entries') \cup stale'
      BY <2>2, <3>1
    <3>5. \A e \in stale' : leases'[e] = 0 => e \in disposed'
      BY <1>0, <2>3, <3>1, <3>3 DEF Accounted
    <3> QED BY <3>4, <3>5 DEF Accounted
  <2> QED BY <2>4, <2>5
<1>6. CASE Clear
  <2>1. ToSet(entries') = {} /\ stale' = stale \cup ToSet(entries) /\ UNCHANGED <<load, leases>>
    BY <1>6, ClearCache DEF Clear, Evict
  <2>2. disposed' = disposed \cup Disposable(ToSet(entries))
    BY <1>6 DEF Clear, Evict
  <2>3. \A e \in ToSet(entries) : leases[e] = 0 => e \in disposed'
    BY <2>2 DEF Disposable
  <2> QED BY <1>q, <2>1, <2>2, <2>3, AccountedIf
<1>7. ASSUME NEW c \in Consumers,
             \/ Stop(c) \/ Decline(c) \/ Join(c) \/ Await(c) \/ Receive(c) \/ Return(c) \/ Dispose(c)
      PROVE  Accounted'
  <2>1. UNCHANGED <<entries, stale, disposed, leases, load>>
    BY <1>7 DEF Stop, Decline, Join, Await, Receive, Return, Dispose, entryVars, flightVars,
       consumerRest
  <2> QED BY <1>q, <2>1, AccountedIf
<1>8. ASSUME NEW f \in Consumers,
             ThreadFails(f) \/ Prepare(f) \/ Fetch(f) \/ Discard(f) \/ Fail(f) \/ Finish(f)
      PROVE  Accounted'
  <2>1. UNCHANGED <<entries, stale, disposed, leases>>
    BY <1>8 DEF ThreadFails, Prepare, Fetch, Discard, Fail, Finish, entryVars, loadRest
  <2>2. CASE \A g \in Consumers : ~Publish(g)
    BY <2>1, <2>2, AccountedIf
  <2> QED BY <1>5, <2>2
<1>9. CASE UNCHANGED vars
  <2>1. UNCHANGED <<entries, stale, disposed, leases, load>>
    BY <1>9 DEF vars, entryVars, flightVars
  <2> QED BY <1>q, <2>1, AccountedIf
<1> QED BY <1>1, <1>2, <1>3, <1>4, <1>5, <1>6, <1>7, <1>8, <1>9 DEF Next, Lease, Load

\* Where no lease and no load can go on, every lease is over and given back, and every
\* dataset is in the cache or removed.
THEOREM NothingStays == Spec => []NothingIsLeftBehind
<1>1. HInv /\ Accounted => NothingIsLeftBehind
  <2> SUFFICES ASSUME HInv, Accounted, \A f \in Consumers : load[f] \in {"none", "over"},
                      disposed \subseteq gone, \A c \in Consumers : Rests(c)
               PROVE  /\ \A c \in Consumers : pc[c] = "left" /\ leases[c] = 0
                      /\ \A e \in Consumers : Published(e) => e \in ToSet(entries) \cup gone
    BY DEF NothingIsLeftBehind
  <2>1. background = 0
    <3>1. Loads = {}
      BY HourCacheAssumption DEF Loads, HourCacheAssumption
    <3> QED BY <3>1, FS_EmptySet DEF HInv, Background
  <2>2. \A c \in Consumers : pc[c] = "left"
    <3> SUFFICES ASSUME NEW c \in Consumers, pc[c] # "left" PROVE FALSE
      OBVIOUS
    <3>1. pc[c] = "awaiting" /\ ~Done(joined[c])
      BY <2>1 DEF Rests
    <3>2. joined[c] \in Consumers /\ load[joined[c]] # "none"
      BY <3>1 DEF HInv, Calls, TypeOK
    <3> QED BY <3>1, <3>2 DEF Done
  <2>3. ASSUME NEW e \in Consumers PROVE leases[e] = 0
    <3>1. Holders(e) = {}
      BY <2>2 DEF Holders
    <3> QED BY <3>1, FS_EmptySet DEF HInv, LeasesCountHolders, Holders
  <2>4. ASSUME NEW e \in Consumers, Published(e) PROVE e \in ToSet(entries) \cup gone
    BY <2>3, <2>4 DEF Accounted
  <2> QED BY <2>2, <2>3, <2>4
<1>2. Accounted /\ HInv /\ [Next]_vars => Accounted'
  BY AccountedStep
<1> QED BY <1>1, <1>2, InitAccounted, Invariance, PTL DEF Spec
-----------------------------------------------------------------------------
(* The cache implements LoadService.                                       *)

\* Who was cancelled is on its way out, and who leaves has a flight or an entry to leave.
CancelledLeave ==
  /\ \A c \in cancelled : pc[c] \in {"leaving", "left"}
  /\ \A c \in Consumers : pc[c] = "leaving" => held[c] # None \/ joined[c] # None

LEMMA CancelledLeaveStep == HInv /\ CancelledLeave /\ [Next]_vars => CancelledLeave'
<1> SUFFICES ASSUME HInv, CancelledLeave, [Next]_vars PROVE CancelledLeave'
  OBVIOUS
<1> USE DEF CancelledLeave
<1>0. /\ None \notin Consumers
      /\ \A c \in Consumers : pc[c] = "awaiting" => joined[c] \in Consumers
      /\ \A c \in Consumers : pc[c] \in {"ready", "using"} => held[c] \in Consumers
  BY HourCacheAssumption DEF HInv, TypeOK, Calls, HourCacheAssumption
<1>1. ASSUME NEW c \in Consumers, Lease(c) PROVE CancelledLeave'
  <2>1. CASE Decline(c)
    BY <2>1 DEF HInv, TypeOK, Decline, Goto
  <2>2. CASE Hit(c)
    BY <2>2 DEF HInv, TypeOK, Hit, Goto, Looking
  <2>3. CASE Join(c)
    BY <2>3 DEF HInv, TypeOK, Join, Goto, Looking
  <2>5. CASE Lead(c)
    BY <2>5 DEF HInv, TypeOK, Lead, Goto, Looking, flightVars
  <2>6. CASE Await(c) \/ Receive(c) \/ Return(c) \/ Raise(c)
    <3>1. /\ pc[c] \in {"awaiting", "ready", "using"} /\ UNCHANGED joined
          /\ \/ /\ pc[c] # "using" /\ UNCHANGED cancelled
                /\ pc' = [pc EXCEPT ![c] = "ready"] \/ pc' = [pc EXCEPT ![c] = "using"]
             \/ pc' = [pc EXCEPT ![c] = "leaving"] /\ cancelled' \in {cancelled, cancelled \cup {c}}
          /\ \/ UNCHANGED held
             \/ joined[c] \in Consumers /\ held' = [held EXCEPT ![c] = joined[c]]
      BY <1>0, <2>6 DEF Await, Receive, Return, Raise, Goto, End, consumerRest
    <3>2. /\ c \notin cancelled /\ (held[c] # None \/ joined[c] # None)
          /\ pc \in [Consumers -> {"looking", "awaiting", "ready", "using", "leaving", "left"}]
      BY <1>0, <3>1 DEF HInv, TypeOK
    <3>3. \A d \in Consumers : held'[d] = held[d] \/ held'[d] # None
      BY <1>0, <3>1 DEF HInv, TypeOK
    <3>4. \A d \in cancelled' : pc'[d] \in {"leaving", "left"}
      <4>1. \A d \in cancelled : d # c /\ pc'[d] = pc[d]
        BY <3>1, <3>2 DEF HInv, TypeOK
      <4>2. \A d \in cancelled' : d \in cancelled \/ (d = c /\ pc'[c] = "leaving")
        BY <3>1, <3>2
      <4> QED BY <4>1, <4>2
    <3>5. \A d \in Consumers : pc'[d] = "leaving" => held'[d] # None \/ joined'[d] # None
      BY <3>1, <3>2, <3>3 DEF HInv, TypeOK
    <3> QED BY <3>4, <3>5
  <2>4. CASE Leave(c)
    BY <2>4 DEF HInv, TypeOK, Leave, Goto
  <2> QED BY <1>1, <2>1, <2>2, <2>3, <2>4, <2>5, <2>6 DEF Lease
<1>2. ASSUME NEW f \in Consumers, Load(f) PROVE CancelledLeave'
  BY <1>2 DEF Load, ThreadFails, Prepare, Fetch, Publish, Discard, Fail, Finish, loadRest,
         callVars
<1>3. ASSUME NEW c \in Consumers, Stop(c) \/ Dispose(c) PROVE CancelledLeave'
  BY <1>3 DEF Stop, Dispose, callVars
<1>4. CASE Clear \/ UNCHANGED vars
  BY <1>4 DEF Clear, vars, callVars
<1> QED BY <1>1, <1>2, <1>3, <1>4 DEF Next

\* A load that runs is wanted by the service's words if it is by those of the cache.
LEMMA WantedMeans ==
  ASSUME HInv, NEW f \in Consumers, Running(f)
  PROVE  (\E c \in Consumers : Of(c) = f /\ c \notin stop) <=> ~Stopped(f)
<1>0. ~Published(f)
  BY DEF Running, Published
<1>1. ASSUME NEW c \in Consumers PROVE Of(c) = f <=> c \in waiting[f]
  BY <1>0, HourCacheAssumption DEF HInv, TypeOK, Calls, Waiters, Of, HourCacheAssumption
<1>2. waiting[f] \subseteq Consumers
  BY DEF HInv, TypeOK
<1> QED BY <1>1, <1>2 DEF Stopped

\* Nobody is with an entry that has no lease.
LEMMA NobodyHas ==
  ASSUME HInv, NEW e \in Consumers, Published(e), leases[e] = 0
  PROVE  \A c \in Consumers : Of(c) # e
<1> SUFFICES ASSUME NEW c \in Consumers, Of(c) = e PROVE FALSE
  OBVIOUS
<1>1. c \in Holders(e)
  BY HourCacheAssumption DEF HInv, TypeOK, Of, Holders, LeasedBy, HourCacheAssumption
<1>2. leases[e] = Cardinality(Holders(e)) /\ IsFiniteSet(Holders(e))
  BY Finite DEF HInv, LeasesCountHolders, Holders
<1> QED BY <1>1, <1>2, FS_EmptySet

\* What a step of one call, of one load, and of neither leaves as it is.
CallMoves(c) ==
  /\ UNCHANGED <<key, stop, load, failure, gone>>
  /\ \A d \in Consumers \ {c} :
       /\ pc'[d] = pc[d] /\ held'[d] = held[d] /\ joined'[d] = joined[d]
       /\ d \in cancelled' <=> d \in cancelled
LoadMoves(f) ==
  /\ UNCHANGED <<key, stop, pc, held, joined, cancelled>>
  /\ \A g \in Consumers \ {f} :
       load'[g] = load[g] /\ failure'[g] = failure[g] /\ (g \in gone' <=> g \in gone)
Serves == [Service!Next]_(Service!vars)

LEMMA SameProgress ==
  ASSUME TypeOK, NEW f \in Consumers, load'[f] = load[f], failure'[f] = failure[f],
         Published(f) => (f \in gone' <=> f \in gone)
  PROVE  Progress(f)' = Progress(f)
BY DEF TypeOK, Progress, Published, Done

LEMMA SameCall ==
  ASSUME TypeOK, NEW c \in Consumers, pc'[c] = pc[c], held'[c] = held[c], joined'[c] = joined[c],
         c \in cancelled' <=> c \in cancelled
  PROVE  Of(c)' = Of(c) /\ Reply(c)' = Reply(c)
BY DEF TypeOK, Of, Reply

\* The views of a step of one call, and of one load.
LEMMA CallViewed ==
  ASSUME TypeOK, NEW c \in Consumers, CallMoves(c)
  PROVE  /\ UNCHANGED <<key, stop>>
         /\ \A f \in Consumers : Progress(f)' = Progress(f)
         /\ \A d \in Consumers \ {c} : Of(d)' = Of(d) /\ Reply(d)' = Reply(d)
BY SameProgress, SameCall DEF CallMoves

LEMMA LoadViewed ==
  ASSUME TypeOK, NEW f \in Consumers, LoadMoves(f)
  PROVE  /\ UNCHANGED <<key, stop>>
         /\ \A g \in Consumers \ {f} : Progress(g)' = Progress(g)
         /\ \A c \in Consumers : Of(c)' = Of(c) /\ Reply(c)' = Reply(c)
BY SameProgress, SameCall DEF LoadMoves

\* A step the service does not see.
LEMMA Unseen ==
  ASSUME UNCHANGED <<key, stop>>, \A c \in Consumers : Of(c)' = Of(c) /\ Reply(c)' = Reply(c),
         \A f \in Consumers : Progress(f)' = Progress(f)
  PROVE  Serves
BY DEF Serves, Service!vars

\* A call gets an answer, goes to a load, and leaves it.
LEMMA Answers ==
  ASSUME TypeOK, NEW c \in Consumers, CallMoves(c), Of(c)' = Of(c),
         \/ c \in stop /\ Reply(c)' = "cancelled"
            /\ \/ Of(c) = None /\ Reply(c) = "none"
               \/ Of(c) # None /\ Reply(c) \in {"none", "ready"}
         \/ Of(c) \in Consumers /\ Reply(c) = "none"
            /\ Reply(c)' = Progress(Of(c)) /\ Progress(Of(c)) \in {"ready", "failed"}
  PROVE  Serves
<1> None \notin Consumers
  BY HourCacheAssumption DEF HourCacheAssumption
<1>1. /\ UNCHANGED <<key, stop>>
      /\ \A f \in Consumers : Progress(f)' = Progress(f)
      /\ \A d \in Consumers : Of(d)' = Of(d)
      /\ \A d \in Consumers \ {c} : Reply(d)' = Reply(d)
  BY CallViewed
<1>2. Service!Cancel(c) \/ Service!Deliver(c)
  BY <1>1 DEF Service!Cancel, Service!Deliver, Service!Asking, Service!Waiting
<1> QED BY <1>2 DEF Serves, Service!Next, Service!Call

LEMMA Joins ==
  ASSUME TypeOK, NEW c \in Consumers, NEW f \in Consumers, CallMoves(c), key[f] = key[c],
         Of(c) = None, Reply(c) = "none", Of(c)' = f, Reply(c)' = "none",
         \/ Progress(f) = "ready"
         \/ Progress(f) = "pending" /\ \E d \in Consumers : Of(d) = f /\ d \notin stop
  PROVE  Serves
<1>1. /\ UNCHANGED <<key, stop>>
      /\ \A g \in Consumers : Progress(g)' = Progress(g)
      /\ \A d \in Consumers \ {c} : Of(d)' = Of(d)
      /\ \A d \in Consumers : Reply(d)' = Reply(d)
  BY CallViewed
<1>2. Service!Join(c, f)
  BY <1>1 DEF Service!Join, Service!Asking, Service!Wanted
<1> QED BY <1>2 DEF Serves, Service!Next, Service!Call

LEMMA Leaves ==
  ASSUME TypeOK, NEW c \in Consumers, CallMoves(c),
         Of(c) # None, Of(c)' = None, Reply(c) # "none", Reply(c)' = Reply(c)
  PROVE  Serves
<1>1. /\ UNCHANGED <<key, stop>>
      /\ \A g \in Consumers : Progress(g)' = Progress(g)
      /\ \A d \in Consumers \ {c} : Of(d)' = Of(d)
      /\ \A d \in Consumers : Reply(d)' = Reply(d)
  BY CallViewed
<1>0. [d \in Consumers |-> Of(d)]' = [[d \in Consumers |-> Of(d)] EXCEPT ![c] = None]
  <2>1. \A d \in Consumers : Of(d)' = IF d = c THEN None ELSE Of(d)
    BY <1>1
  <2> QED BY ONLY <2>1
<1>2. [d \in Consumers |-> Reply(d)]' = [d \in Consumers |-> Reply(d)]
  BY <1>1
<1>3. [g \in Consumers |-> Progress(g)]' = [g \in Consumers |-> Progress(g)]
  BY <1>1
<1>4. Service!Leave(c)
  BY <1>0, <1>1, <1>2, <1>3 DEF Service!Leave
<1> QED BY <1>4 DEF Serves, Service!Next, Service!Call

\* A load ends, and values are closed.
LEMMA Ends ==
  ASSUME TypeOK, NEW f \in Consumers, LoadMoves(f), Progress(f) = "pending",
         \/ Progress(f)' \in {"ready", "failed"}
         \/ Progress(f)' = "cancelled" /\ ~\E c \in Consumers : Of(c) = f /\ c \notin stop
  PROVE  Serves
<1>1. /\ UNCHANGED <<key, stop>>
      /\ \A g \in Consumers \ {f} : Progress(g)' = Progress(g)
      /\ \A c \in Consumers : Of(c)' = Of(c) /\ Reply(c)' = Reply(c)
  BY LoadViewed
<1>2. Service!Complete(f) \/ Service!Fail(f) \/ Service!GiveUp(f)
  BY <1>1 DEF Service!Complete, Service!Fail, Service!GiveUp, Service!End, Service!Wanted
<1> QED BY <1>2 DEF Serves, Service!Next, Service!Load

LEMMA Closes ==
  ASSUME HInv, UNCHANGED <<key, stop, pc, held, joined, cancelled, load, failure>>,
         gone \subseteq gone', \A e \in gone' \ gone : Published(e) => leases[e] = 0
  PROVE  Serves
<1> DEFINE S == {e \in Consumers : Published(e) /\ e \in gone' /\ e \notin gone}
<1>1. \A c \in Consumers : Of(c)' = Of(c) /\ Reply(c)' = Reply(c)
  BY SameCall DEF HInv
<1>2. ASSUME NEW f \in Consumers \ S PROVE Progress(f)' = Progress(f)
  BY <1>2, SameProgress DEF HInv
<1>3. ASSUME NEW f \in S PROVE Progress(f) = "ready" /\ Progress(f)' = "closed"
  BY <1>3 DEF HInv, TypeOK, Progress, Published, Done
<1>4. \A f \in S : \A c \in Consumers : Of(c) # f
  BY NobodyHas
<1>5. S \subseteq Consumers
  OBVIOUS
<1> HIDE DEF S
<1>6. CASE S = {}
  BY <1>1, <1>2, <1>6, Unseen
<1>7. CASE S # {}
  <2>1. S \in SUBSET Service!Idle
    BY <1>3, <1>4, <1>5 DEF Service!Idle
  <2>2. Service!Close(S)
    BY <1>1, <1>2, <1>3, <1>5, <1>7 DEF Service!Close
  <2> QED BY <2>1, <2>2 DEF Serves, Service!Next
<1> QED BY <1>6, <1>7

-----------------------------------------------------------------------------
(* One lemma per kind of step.                                             *)

\* A call, but for one that leads a flight.
LEMMA CallServes ==
  ASSUME HInv, CancelledLeave, NEW c \in Consumers,
         \/ Decline(c) \/ Hit(c) \/ Join(c) \/ Await(c) \/ Receive(c) \/ Return(c) \/ Raise(c) \/ Leave(c)
  PROVE  Serves
<1>n. None \notin Consumers
  BY HourCacheAssumption DEF HourCacheAssumption
<1>t. /\ TypeOK /\ joined[c] \in Consumers \cup {None} /\ held[c] \in Consumers \cup {None}
      /\ c \in cancelled => pc[c] \in {"leaving", "left"}
  BY DEF HInv, TypeOK, CancelledLeave
<1>m. CallMoves(c)
  BY <1>t DEF TypeOK, CallMoves, Decline, Hit, Join, Await, Receive, Return, Raise, Leave,
         End, Goto,
     consumerRest, flightVars, diskVars
<1>1. CASE Decline(c)
  <2>1. /\ Of(c) = None /\ Reply(c) = "none" /\ c \in stop
        /\ Of(c)' = None /\ Reply(c)' = "cancelled"
    BY <1>1, <1>t DEF HInv, TypeOK, Calls, Decline, Goto, Of, Reply
  <2> QED BY <1>m, <1>t, <2>1, Answers
<1>2. CASE Hit(c)
  <2>1. PICK e \in Cached(key[c]) : held' = [held EXCEPT ![c] = e]
    BY <1>2 DEF Hit
  <2>2. e \in ToSet(entries) /\ e \in Consumers /\ key[e] = key[c]
    BY <1>t, <2>1 DEF TypeOK, Cached, ToSet
  <2>3. Published(e) /\ e \notin gone
    BY <2>2 DEF HInv, EntriesAreSound
  <2>4. Progress(e) = "ready"
    BY <1>t, <2>2, <2>3 DEF TypeOK, Progress, Published, Done
  <2>5. Of(c) = None /\ Reply(c) = "none" /\ Of(c)' = e /\ Reply(c)' = "none"
    BY <1>2, <1>n, <1>t, <2>1, <2>2 DEF HInv, TypeOK, Calls, Hit, Looking, Goto, Of, Reply
  <2> QED BY <1>m, <1>t, <2>2, <2>4, <2>5, Joins
<1>3. CASE Join(c)
  <2> DEFINE f == inflight[key[c]]
  <2>1. f \in Consumers /\ key[f] = key[c] /\ Running(f) /\ ~Stopped(f)
    BY <1>3 DEF HInv, TypeOK, Registered, Join, Flying
  <2>2. Progress(f) = "pending"
    BY <1>t, <2>1 DEF TypeOK, Progress, Published, Running, Done
  <2>3. \E d \in Consumers : Of(d) = f /\ d \notin stop
    BY <2>1, WantedMeans
  <2>4. Of(c) = None /\ Reply(c) = "none" /\ Of(c)' = f /\ Reply(c)' = "none"
    BY <1>3, <1>n, <1>t, <2>1 DEF HInv, TypeOK, Calls, Join, Looking, Goto, Of, Reply
  <2> QED BY <1>m, <1>t, <2>1, <2>2, <2>3, <2>4, Joins
<1>4. CASE Await(c)
  <2> DEFINE f == joined[c]
  <2>1. /\ f \in Consumers /\ held[c] = None /\ Of(c) = f /\ Reply(c) = "none" /\ UNCHANGED joined
        /\ load[f] # "none"
    BY <1>4, <1>t DEF HInv, Calls, Await, Of, Reply, consumerRest
  <2>2. CASE Published(f) /\ held' = [held EXCEPT ![c] = f] /\ Goto(c, "ready")
    <3>1. Of(c)' = Of(c) /\ Reply(c)' = Reply(c)
      BY <1>n, <1>t, <2>1, <2>2 DEF TypeOK, Goto, Of, Reply
    <3> QED BY <1>m, <1>t, <3>1, CallViewed, Unseen
  <2>3. CASE Done(f) /\ failure[f] # "none" /\ End(c, failure[f]) /\ UNCHANGED held
    <3>1. c \in waiting[f]
      BY <1>4, <2>1 DEF HInv, Waiters, Await
    <3>2. failure[f] = "cancelled" => c \in stop
      BY <2>1, <3>1 DEF HInv, Failures, Stopped
    <3>3. Of(c)' = Of(c) /\ Reply(c)' = IF failure[f] = "cancelled" THEN "cancelled" ELSE "failed"
      BY <1>4, <1>t, <2>1, <2>3 DEF TypeOK, Await, End, Goto, Of, Reply
    <3>4. failure[f] = "error" \/ failure[f] = "cancelled"
      BY <1>t, <2>1, <2>3 DEF TypeOK
    <3>5. failure[f] = "error" => Progress(f) = "failed"
      BY <2>1, <2>3 DEF Progress, Published, Done
    <3> QED BY <1>m, <1>n, <1>t, <2>1, <3>2, <3>3, <3>4, <3>5, Answers
  <2>4. CASE c \in stop /\ End(c, "cancelled") /\ UNCHANGED held
    <3>1. Of(c)' = Of(c) /\ Reply(c)' = "cancelled"
      BY <1>t, <2>1, <2>4 DEF TypeOK, End, Goto, Of, Reply
    <3> QED BY <1>m, <1>n, <1>t, <2>1, <2>4, <3>1, Answers
  <2> QED BY <1>4, <2>2, <2>3, <2>4 DEF Await
<1>5. CASE Receive(c)
  <2> DEFINE e == held[c]
  <2>1. e \in Consumers /\ Published(e) /\ Of(c) = e /\ Reply(c) = "none" /\ UNCHANGED <<held, joined>>
    BY <1>5, <1>t DEF HInv, TypeOK, Calls, Receive, Of, Reply, consumerRest
  <2>2. leases[e] # 0
    BY <2>1, NobodyHas
  <2>3. Progress(e) = "ready"
    BY <1>t, <2>1, <2>2 DEF HInv, Disposal, TypeOK, Progress, Published, Done
  <2>4. /\ Of(c)' = Of(c)
        /\ (c \in stop /\ Reply(c)' = "cancelled") \/ Reply(c)' = "ready"
    BY <1>5, <1>t, <2>1 DEF TypeOK, Receive, End, Goto, Of, Reply
  <2> QED BY <1>m, <1>n, <1>t, <2>1, <2>3, <2>4, Answers
<1>6. CASE Return(c) \/ Raise(c)
  <2>1. /\ pc[c] = "using" /\ held[c] \in Consumers /\ UNCHANGED <<held, joined>> /\ c \notin cancelled
        /\ pc' = [pc EXCEPT ![c] = "leaving"]
        /\ (c \in stop /\ cancelled' = cancelled \cup {c}) \/ UNCHANGED cancelled
    BY <1>6, <1>t DEF HInv, Calls, Return, Raise, End, Goto, consumerRest
  <2>2. /\ Of(c)' = Of(c) /\ Of(c) # None /\ Reply(c) = "ready"
        /\ (c \in stop /\ Reply(c)' = "cancelled") \/ Reply(c)' = "ready"
    BY <1>n, <1>t, <2>1 DEF TypeOK, Of, Reply
  <2>3. CASE c \in stop /\ Reply(c)' = "cancelled"
    BY <1>m, <1>t, <2>2, <2>3, Answers
  <2>4. CASE Reply(c)' = "ready"
    BY <1>m, <1>t, <2>2, <2>4, CallViewed, Unseen
  <2> QED BY <2>2, <2>3, <2>4
<1>7. CASE Leave(c)
  <2>1. Of(c) # None /\ Of(c)' = None /\ Reply(c) # "none" /\ Reply(c)' = Reply(c)
    BY <1>7, <1>n, <1>t DEF TypeOK, CancelledLeave, Leave, Goto, Of, Reply
  <2> QED BY <1>m, <1>t, <2>1, Leaves
<1> QED BY <1>1, <1>2, <1>3, <1>4, <1>5, <1>6, <1>7

\* A call that leads one.
LEMMA LeadServes ==
  ASSUME HInv, CancelledLeave, NEW c \in Consumers, Lead(c)
  PROVE  Serves
<1>n. None \notin Consumers
  BY HourCacheAssumption DEF HourCacheAssumption
<1>1. /\ TypeOK /\ pc[c] = "looking" /\ load[c] = "none" /\ held[c] = None /\ c \notin cancelled
      /\ pc' = [pc EXCEPT ![c] = "awaiting"] /\ joined' = [joined EXCEPT ![c] = c]
      /\ load' = [load EXCEPT ![c] = "start"] /\ UNCHANGED <<key, stop, held, cancelled, failure, gone>>
  BY DEF HInv, Calls, CancelledLeave, Lead, Looking, Goto, To, diskVars
<1>2. \A d \in Consumers \ {c} :
        Of(d)' = Of(d) /\ Reply(d)' = Reply(d) /\ Progress(d)' = Progress(d)
  BY <1>1, SameCall, SameProgress DEF TypeOK
<1>3. Of(c) = None /\ Of(c)' = c /\ Reply(c) = "none" /\ Reply(c)' = "none"
  BY <1>1 DEF HInv, Calls, TypeOK, Of, Reply
<1>4. Progress(c) = "none" /\ Progress(c)' = "pending"
  BY <1>1 DEF TypeOK, Progress, Published, Done
<1>5. ASSUME NEW f \in Consumers, Progress(f) = "pending", key[f] = key[c]
      PROVE  ~\E d \in Consumers : Of(d) = f /\ d \notin stop
  <2>1. Running(f)
    BY <1>1, <1>5 DEF TypeOK, Progress, Published, Running, Done
  <2>2. Stopped(f)
    BY <1>5, <1>n, <2>1 DEF HInv, Registered, Lead, Flying
  <2> QED BY <2>1, <2>2, WantedMeans
<1>6. Service!Begin(c)
  BY <1>1, <1>2, <1>3, <1>4, <1>5 DEF Service!Begin, Service!Asking, Service!Wanted
<1> QED BY <1>6 DEF Serves, Service!Next, Service!Call

\* A load.
LEMMA LoadServes ==
  ASSUME HInv, NEW f \in Consumers, Load(f)
  PROVE  Serves
<1>t. TypeOK
  BY DEF HInv
<1>m. LoadMoves(f)
  BY <1>t DEF TypeOK, LoadMoves, Load, ThreadFails, Prepare, Fetch, Publish, Discard, Fail,
         Finish, To,
     loadRest, callVars, diskVars
<1>s. CASE Progress(f)' = Progress(f)
  BY <1>m, <1>s, <1>t, LoadViewed, Unseen
<1>1. CASE Prepare(f) \/ Fetch(f) \/ Discard(f)
  <2>1. Progress(f) = "pending" /\ Progress(f)' = "pending"
    BY <1>1, <1>t DEF TypeOK, Prepare, Fetch, Discard, To, Progress, Published, Done,
           loadRest
  <2> QED BY <1>s, <2>1
<1>2. CASE ThreadFails(f)
  <2>1. Progress(f) = "pending" /\ Progress(f)' = "failed"
    BY <1>2, <1>t DEF TypeOK, ThreadFails, To, Progress, Published, Done
  <2> QED BY <1>m, <1>t, <2>1, Ends
<1>3. CASE Publish(f)
  <2>1. failure[f] = "none" /\ f \notin gone /\ load[f] = "fetched"
    BY <1>3 DEF HInv, Failures, Disposal, Publish
  <2>2. UNCHANGED <<failure, gone>> /\ load' = [load EXCEPT ![f] = Landing(f)]
    BY <1>3 DEF Publish, To, diskVars
  <2>3. Progress(f) = "pending" /\ Progress(f)' = "ready"
    BY <1>t, <2>1, <2>2 DEF TypeOK, Landing, Progress, Published, Done
  <2> QED BY <1>m, <1>t, <2>3, Ends
<1>4. CASE Fail(f)
  <2>1. failure[f] # "none" /\ load[f] = "failed" /\ Running(f)
    BY <1>4 DEF HInv, Failures, Fail, Running, Done
  <2>2. UNCHANGED failure /\ load' = [load EXCEPT ![f] = Landing(f)]
    BY <1>4 DEF Fail, To
  <2>3. /\ Progress(f) = "pending"
        /\ Progress(f)' = IF failure[f] = "cancelled" THEN "cancelled" ELSE "failed"
    BY <1>t, <2>1, <2>2 DEF TypeOK, Landing, Progress, Published, Done
  <2>4. failure[f] = "cancelled" => ~\E c \in Consumers : Of(c) = f /\ c \notin stop
    BY <2>1, WantedMeans DEF HInv, Failures
  <2> QED BY <1>m, <1>t, <2>3, <2>4, Ends
<1>5. CASE Finish(f)
  <2>1. /\ load[f] = "closing" /\ load' = [load EXCEPT ![f] = "over"]
        /\ UNCHANGED <<failure, gone>>
    BY <1>5 DEF Finish, To, diskVars
  <2>2. Progress(f)' = Progress(f)
    BY <1>t, <2>1 DEF TypeOK, Progress, Published, Done
  <2> QED BY <1>s, <2>2
<1> QED BY <1>1, <1>2, <1>3, <1>4, <1>5 DEF Load

\* What closes entries.
LEMMA CloseServes ==
  ASSUME HInv, Clear \/ (\E e \in Consumers : Dispose(e))
  PROVE  Serves
<1>1. CASE Clear
  <2>1. UNCHANGED <<key, stop, pc, held, joined, cancelled, load, failure>>
    BY <1>1 DEF Clear, callVars
  <2>2. /\ gone \subseteq gone'
        /\ \A e \in gone' \ gone : leases[e] = 0 \/ ~Protected(e)
    BY <1>1 DEF Clear, Disposable
  <2>3. \A e \in gone' \ gone : leases[e] = 0
    <3> SUFFICES ASSUME NEW e \in gone', e \notin gone, ~Protected(e) PROVE leases[e] = 0
      BY <2>2
    <3>1. e \in Consumers
      BY <1>1 DEF HInv, TypeOK, Clear, Disposable, ToSet
    <3> QED BY <3>1 DEF HInv, TypeOK, Protected
  <2> QED BY <2>1, <2>2, <2>3, Closes
<1>2. ASSUME NEW e \in Consumers, Dispose(e) PROVE Serves
  <2>1. /\ UNCHANGED <<key, stop, pc, held, joined, cancelled, load, failure>>
        /\ gone' = gone \cup {e} /\ leases[e] = 0
    BY <1>2 DEF HInv, Disposal, Dispose, callVars, flightVars
  <2> QED BY <2>1, Closes
<1> QED BY <1>1, <1>2

\* Each step of the cache is one of the service.
LEMMA StepServes ==
  ASSUME HInv, CancelledLeave, [Next]_vars
  PROVE  Serves
<1>1. ASSUME NEW c \in Consumers, Stop(c) PROVE Serves
  <2>1. stop' = stop \cup {c} /\ UNCHANGED <<key, pc, held, joined, cancelled, load, failure, gone>>
    BY <1>1 DEF Stop, flightVars, diskVars
  <2>2. /\ \A d \in Consumers : Of(d)' = Of(d) /\ Reply(d)' = Reply(d)
        /\ \A f \in Consumers : Progress(f)' = Progress(f)
    BY <2>1, SameCall, SameProgress DEF HInv
  <2>3. Service!Stop(c)
    BY <2>1, <2>2 DEF Service!Stop
  <2> QED BY <2>3 DEF Serves, Service!Next, Service!Call
<1>2. CASE UNCHANGED vars
  <2>1. UNCHANGED <<key, stop, pc, held, joined, cancelled, load, failure, gone>>
    BY <1>2 DEF vars, callVars, flightVars, diskVars
  <2>2. /\ \A d \in Consumers : Of(d)' = Of(d) /\ Reply(d)' = Reply(d)
        /\ \A f \in Consumers : Progress(f)' = Progress(f)
    BY <2>1, SameCall, SameProgress DEF HInv
  <2> QED BY <2>1, <2>2, Unseen
<1>3. CASE Clear \/ \E e \in Consumers : Dispose(e)
  BY <1>3, CloseServes
<1>4. ASSUME NEW c \in Consumers, Lease(c) PROVE Serves
  BY <1>4, CallServes, LeadServes DEF Lease
<1>5. ASSUME NEW f \in Consumers, Load(f) PROVE Serves
  BY <1>5, LoadServes
<1> QED BY <1>1, <1>2, <1>3, <1>4, <1>5 DEF Next

\* The cache implements the shared loads of LoadService: concurrent leases of an hour
\* share a load, one is given up with its last consumer only, everyone gets what became
\* of its own load or is cancelled by its own request, and no dataset is closed under
\* a call that has it.
THEOREM CacheKeepsContract == Spec => LoadContract
<1>1. Init => CancelledLeave /\ Service!Init
  <2> SUFFICES ASSUME Init PROVE CancelledLeave /\ Service!Init
    OBVIOUS
  <2>1. CancelledLeave
    BY DEF Init, CancelledLeave
  <2>2. \A c \in Consumers : Of(c) = None /\ Progress(c) = "none" /\ Reply(c) = "none"
    BY DEF Init, Of, Progress, Published, Done, Reply
  <2> QED BY <2>1, <2>2 DEF Init, Service!Init
<1>2. HInv /\ CancelledLeave /\ [Next]_vars => CancelledLeave'
  BY CancelledLeaveStep
<1>3. HInv /\ CancelledLeave /\ [Next]_vars => [Service!Next]_(Service!vars)
  BY StepServes DEF Serves
<1> QED BY <1>1, <1>2, <1>3, Invariance, PTL DEF Spec, LoadContract, Service!Spec
=============================================================================
