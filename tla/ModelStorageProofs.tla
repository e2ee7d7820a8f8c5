------------------------- MODULE ModelStorageProofs -------------------------
(***************************************************************************)
(* Proofs about ModelStorage, for every set of threads, keys, blobs and    *)
(* inodes and every size of the cache.  IInv is the inductive invariant;   *)
(* each of its conjuncts is preserved by a lemma of its own that names the *)
(* conjuncts it needs.                                                     *)
(***************************************************************************)
EXTENDS ModelStorage, SequenceTheorems, TLAPS

\* What a call is known to hold at each position.
CallOK(c, label) ==
    /\ label = "idle" => c = NoCall
    /\ label \notin {"idle", "recover"} => c.key \in Keys
    /\ label \in {"open", "write"} => c.op \in {"save", "atomic"}
    /\ label \in {"open", "write", "rename"} => c.data \in Data
    /\ label = "rename" => c.op = "atomic"
    /\ label = "exists" => c.op = "load" /\ c.data = None
    /\ label = "read" => c.op = "load"
    /\ label \in {"read", "cache"} => c.data \in Data \union {Torn}
    /\ label = "cache" => c.op \in {"save", "atomic", "load"} /\ (c.op # "load" => c.data \in Data)
    /\ label = "recover" => c.op = "recover" /\ c.key = None /\ c.data = None
    /\ IF label \in {"write", "read"} THEN c.fd \in Inodes ELSE c.fd = None

CallInv == \A t \in Threads : CallOK(call[t], pc[t])

\* An inode belongs to one key: to the name that leads to it and to the threads
\* that have it open.
Owns(k, i) ==
    \/ final[k] = i
    \/ pending[k] = i
    \/ \E t \in Threads : call[t].key = k /\ call[t].fd = i

OwnInv == \A i \in Inodes : \A k, l \in Keys : Owns(k, i) /\ Owns(l, i) => k = l

\* A complete blob was given to a writer under the key it is found for: in a
\* file, in a call and in the cache.
FilesIssued ==
    \A i \in Inodes, k \in Keys : Owns(k, i) /\ content[i] # Torn =>
        [key |-> k, data |-> content[i]] \in issued

CallsIssued ==
    \A t \in Threads : call[t].data \in Data =>
        [key |-> call[t].key, data |-> call[t].data] \in issued

CacheIssued == \A i \in DOMAIN cache : cache[i].data # Torn => cache[i] \in issued

IssuedInv == FilesIssued /\ CallsIssued /\ CacheIssued /\ acked \subseteq issued

\* Thread t writes key k, and has not renamed the file yet.
Writes(t, k)    == call[t].op \in {"save", "atomic"} /\ call[t].key = k
Unrenamed(t, k) == Writes(t, k) /\ pc[t] \in {"open", "write", "rename"}

\* A key nobody has written has no blob, no writer and no file.
UnusedInv ==
    \A k \in Keys : used[k] = "unused" =>
        /\ \A b \in issued : b.key # k
        /\ final[k] = None /\ pending[k] = None
        /\ \A t \in Threads : ~Writes(t, k)

\* A key written by one atomic_write has one blob and one writer, and until that
\* writer has renamed the file there is none to be loaded.
OneBlob(k)   == \A a, b \in issued : a.key = k /\ b.key = k => a = b
OneWriter(k) ==
    \A t \in Threads : Writes(t, k) =>
        call[t].op = "atomic" /\ \A u \in Threads : Writes(u, k) => t = u
Unseen(k)    ==
    \A t \in Threads : Unrenamed(t, k) =>
        /\ final[k] = None
        /\ pc[t] = "open" => pending[k] = None
        /\ pc[t] = "write" => pending[k] \in {call[t].fd, None} /\ content[call[t].fd] = Torn
        /\ pc[t] = "rename" /\ pending[k] # None => content[pending[k]] \in Data

WriterInv ==
    \A k \in Keys : used[k] = "atomic" => OneBlob(k) /\ OneWriter(k) /\ Unseen(k)

\* Of a key that at most one atomic_write has touched, the file, the loads and the
\* cache hold a complete blob, and a load that is reading meets no writer.
FileWhole(k)    == final[k] # None => content[final[k]] \in Data
ReadersWhole(k) ==
    \A t \in Threads : call[t].op = "load" /\ call[t].key = k =>
        /\ pc[t] = "read" =>
              content[call[t].fd] \in Data /\ \A u \in Threads : ~Unrenamed(u, k)
        /\ pc[t] \in {"read", "cache"} => call[t].data \in Data
CacheWhole(k)   == \A i \in DOMAIN cache : cache[i].key = k => cache[i].data \in Data

OnceInv == \A k \in Keys : Once(k) => FileWhole(k) /\ ReadersWhole(k) /\ CacheWhole(k)

\* What was renamed stays until it is removed from outside.
RenamedInv ==
    \A k \in Keys : used[k] = "atomic" /\ k \notin deleted =>
        /\ \A t \in Threads : Writes(t, k) /\ pc[t] = "cache" => final[k] # None
        /\ \A a \in acked : a.key = k => final[k] # None

IInv ==
    /\ TypeOK /\ CallInv /\ CacheWellFormed /\ OwnInv /\ IssuedInv
    /\ UnusedInv /\ WriterInv /\ OnceInv /\ RenamedInv

-----------------------------------------------------------------------------
(***************************************************************************)
(* The cache: what the two ways to change the list do to its elements.     *)
(***************************************************************************)
LEMMA Prepend ==
  ASSUME NEW S, NEW c \in Seq(S), NEW e \in S
  PROVE  /\ <<e>> \o c \in Seq(S)
         /\ Len(<<e>> \o c) = Len(c) + 1
         /\ (<<e>> \o c)[1] = e
         /\ \A i \in 2..(Len(c) + 1) : (<<e>> \o c)[i] = c[i - 1]
  OBVIOUS

LEMMA Removal ==
  ASSUME NEW S, NEW c \in Seq(S), NEW n \in 1..Len(c)
  PROVE  /\ RemoveAt(c, n) \in Seq(S)
         /\ Len(RemoveAt(c, n)) = Len(c) - 1
         /\ \A i \in 1..(Len(c) - 1) :
               RemoveAt(c, n)[i] = IF i < n THEN c[i] ELSE c[i + 1]
<1> DEFINE a == SubSeq(c, 1, n - 1)
           b == SubSeq(c, n + 1, Len(c))
<1>1. a \in Seq(S) /\ Len(a) = n - 1 /\ \A i \in 1..(n - 1) : a[i] = c[i]
  BY SubSeqProperties
<1>2. b \in Seq(S) /\ Len(b) = Len(c) - n /\ \A i \in 1..(Len(c) - n) : b[i] = c[n + i]
  BY SubSeqProperties
<1> HIDE DEF a, b
<1>3. a \o b \in Seq(S) /\ Len(a \o b) = Len(c) - 1
  BY <1>1, <1>2, ConcatProperties
<1>4. \A i \in 1..(Len(c) - 1) : (a \o b)[i] = IF i < n THEN c[i] ELSE c[i + 1]
  BY <1>1, <1>2, ConcatProperties
<1> QED BY <1>3, <1>4 DEF RemoveAt, a, b

Distinct(c) == \A i, j \in DOMAIN c : c[i].key = c[j].key => i = j

\* Every element of the list r is one of c.
Within(r, c) == \A i \in DOMAIN r : \E j \in DOMAIN c : r[i] = c[j]

\* Erasing an element leaves the others, none of which has its key.
LEMMA EraseOne ==
  ASSUME NEW c \in Seq(Entry), Distinct(c), NEW n \in DOMAIN c
  PROVE  LET r == RemoveAt(c, n)
         IN /\ r \in Seq(Entry) /\ Len(r) = Len(c) - 1 /\ Distinct(r) /\ Within(r, c)
            /\ \A i \in DOMAIN r : r[i].key # c[n].key
<1> DEFINE r == RemoveAt(c, n)
<1>1. /\ r \in Seq(Entry) /\ Len(r) = Len(c) - 1
      /\ \A i \in 1..(Len(c) - 1) : r[i] = IF i < n THEN c[i] ELSE c[i + 1]
  BY Removal, SMTT(40)
<1> HIDE DEF r
<1>2. DOMAIN r = 1..(Len(c) - 1) /\ DOMAIN c = 1..Len(c)
  BY <1>1
<1>3. Within(r, c)
  BY <1>1, <1>2, SMTT(40) DEF Within
<1>4. Distinct(r)
  <2> SUFFICES ASSUME NEW i \in DOMAIN r, NEW j \in DOMAIN r, r[i].key = r[j].key
               PROVE  i = j
    BY DEF Distinct
  <2> DEFINE at(m) == IF m < n THEN m ELSE m + 1
  <2>1. /\ r[i] = c[at(i)] /\ at(i) \in DOMAIN c
        /\ r[j] = c[at(j)] /\ at(j) \in DOMAIN c
    BY <1>1, <1>2
  <2>2. at(i) = at(j)
    BY <2>1 DEF Distinct
  <2> QED BY <1>2, <2>2
<1>5. \A i \in DOMAIN r : r[i].key # c[n].key
  BY <1>1, <1>2 DEF Distinct
<1> QED BY <1>1, <1>3, <1>4, <1>5 DEF r

\* An element with a new key goes to the front.
LEMMA PutFirst ==
  ASSUME NEW c \in Seq(Entry), Distinct(c), NEW e \in Entry,
         \A i \in DOMAIN c : c[i].key # e.key
  PROVE  LET r == <<e>> \o c
         IN /\ r \in Seq(Entry) /\ Len(r) = Len(c) + 1 /\ Distinct(r)
            /\ \A i \in DOMAIN r : r[i] = e \/ \E j \in DOMAIN c : r[i] = c[j]
<1> DEFINE r == <<e>> \o c
<1>1. /\ r \in Seq(Entry) /\ Len(r) = Len(c) + 1 /\ r[1] = e
      /\ \A i \in 2..(Len(c) + 1) : r[i] = c[i - 1]
  BY Prepend
<1> HIDE DEF r
<1>2. DOMAIN r = 1..(Len(c) + 1) /\ DOMAIN c = 1..Len(c)
  BY <1>1
<1>3. \A i \in DOMAIN r : r[i] = e \/ \E j \in DOMAIN c : r[i] = c[j]
  BY <1>1, <1>2
<1>4. Distinct(r)
  <2> SUFFICES ASSUME NEW i \in DOMAIN r, NEW j \in DOMAIN r, r[i].key = r[j].key
               PROVE  i = j
    BY DEF Distinct
  <2>1. CASE i = 1 \/ j = 1
    BY <1>1, <1>2, <2>1, SMTT(40)
  <2>2. CASE i # 1 /\ j # 1
    <3>1. /\ r[i] = c[i - 1] /\ i - 1 \in DOMAIN c
          /\ r[j] = c[j - 1] /\ j - 1 \in DOMAIN c
      BY <1>1, <1>2, <2>2
    <3>2. i - 1 = j - 1
      BY <3>1 DEF Distinct
    <3> QED BY <1>2, <3>2
  <2> QED BY <2>1, <2>2
<1> QED BY <1>1, <1>3, <1>4 DEF r

\* Dropping the last element leaves the others.
LEMMA DropLast ==
  ASSUME NEW c \in Seq(Entry), Distinct(c), Len(c) # 0
  PROVE  Front(c) \in Seq(Entry) /\ Len(Front(c)) = Len(c) - 1
           /\ Distinct(Front(c)) /\ Within(Front(c), c)
<1> DEFINE r == Front(c)
<1>1. r \in Seq(Entry) /\ Len(r) = Len(c) - 1 /\ \A i \in 1..(Len(c) - 1) : r[i] = c[i]
  <2>1. Len(c) - 1 \in Nat /\ 1..(Len(c) - 1) \subseteq 1..Len(c)
    OBVIOUS
  <2> DEFINE n == Len(c) - 1
             p == SubSeq(c, 1, n)
  <2>2. n \in Int /\ \A i \in 1..n : c[i] \in Entry
    BY <2>1
  <2> HIDE DEF n
  <2>3. p \in Seq(Entry) /\ Len(p) = (IF 1 <= n THEN n ELSE 0) /\ \A i \in 1..n : p[i] = c[i]
    BY <2>2, SubSeqProperties
  <2>4. r = p
    BY DEF Front, n
  <2>5. n = Len(c) - 1 /\ n \in Nat
    BY <2>1 DEF n
  <2> HIDE DEF p, r
  <2> QED BY <2>3, <2>4, <2>5
<1> HIDE DEF r
<1>2. DOMAIN r = 1..(Len(c) - 1) /\ DOMAIN c = 1..Len(c)
  BY <1>1
<1> QED BY <1>1, <1>2 DEF r, Distinct, Within

\* The entry that thread t is about to put into the cache.
Entering(t) == [key |-> call[t].key, data |-> call[t].data]

\* Whatever a step does, the list stays well formed and gains at most the entry of
\* a thread that has reached update_cache.
CacheMoves ==
    /\ cache' \in Seq(Entry) /\ CacheWellFormed'
    /\ \A i \in DOMAIN cache' :
          \/ \E j \in DOMAIN cache : cache'[i] = cache[j]
          \/ \E t \in Threads : pc[t] = "cache" /\ cache'[i] = Entering(t)

LEMMA CacheStep ==
  ASSUME TypeOK, CallInv, CacheWellFormed, [Next]_vars
  PROVE  CacheMoves
<1>0. cache \in Seq(Entry) /\ Distinct(cache) /\ Len(cache) \in Nat /\ Len(cache) <= kMaxCacheSize
  BY DEF TypeOK, CacheWellFormed, Distinct
<1>1. ASSUME NEW k \in Keys, Cached(k) # {}
      PROVE  /\ Erased(k) \in Seq(Entry) /\ Len(Erased(k)) = Len(cache) - 1
             /\ Distinct(Erased(k)) /\ Within(Erased(k), cache)
             /\ \A i \in DOMAIN Erased(k) : Erased(k)[i].key # k
  <2>1. PICK n \in Cached(k) : Erased(k) = RemoveAt(cache, n)
    BY <1>1 DEF Erased
  <2>2. n \in DOMAIN cache /\ cache[n].key = k
    BY DEF Cached
  <2> QED BY <1>0, <2>1, <2>2, EraseOne
<1>2. ASSUME NEW t \in Threads, UpdateCache(t)
      PROVE  CacheMoves
  <2> DEFINE k == call[t].key
             e == Entering(t)
             rest == IF Cached(k) # {} THEN Erased(k) ELSE Evicted(cache)
  <2>1. pc[t] = "cache" /\ k \in Keys /\ e \in Entry /\ e.key = k /\ cache' = <<e>> \o rest
    BY <1>2 DEF UpdateCache, Return, Go, CallInv, CallOK, Entry, update_cache, Entering
  <2>2. /\ rest \in Seq(Entry) /\ Distinct(rest) /\ Within(rest, cache)
        /\ Len(rest) + 1 <= kMaxCacheSize /\ \A i \in DOMAIN rest : rest[i].key # k
    <3>1. CASE Cached(k) # {}
      BY <1>0, <1>1, <2>1, <3>1, BoundsAssumption
    <3>2. CASE Cached(k) = {}
      <4>1. rest = Evicted(cache) /\ \A i \in DOMAIN cache : cache[i].key # k
        BY <3>2 DEF Cached
      <4>2. CASE Len(cache) >= kMaxCacheSize
        <5>1. rest = Front(cache) /\ Len(cache) # 0
          BY <1>0, <4>1, <4>2, BoundsAssumption DEF Evicted
        <5> QED BY <1>0, <4>1, <5>1, DropLast, BoundsAssumption DEF Within
      <4>3. CASE ~(Len(cache) >= kMaxCacheSize)
        BY <1>0, <4>1, <4>3, BoundsAssumption DEF Evicted, Within
      <4> QED BY <4>2, <4>3
    <3> QED BY <3>1, <3>2
  <2> HIDE DEF rest, k, e
  <2>3. /\ cache' \in Seq(Entry) /\ Len(cache') = Len(rest) + 1 /\ Distinct(cache')
        /\ \A i \in DOMAIN cache' : cache'[i] = e \/ \E j \in DOMAIN rest : cache'[i] = rest[j]
    BY <2>1, <2>2, PutFirst
  <2>4. \A i \in DOMAIN cache' : cache'[i] = e \/ \E j \in DOMAIN cache : cache'[i] = cache[j]
    BY <2>2, <2>3 DEF Within
  <2>5. CacheWellFormed'
    BY <2>2, <2>3, BoundsAssumption DEF CacheWellFormed, Distinct
  <2> QED BY <2>1, <2>3, <2>4, <2>5 DEF CacheMoves, e
<1>3. ASSUME NEW t \in Threads, NEW k \in Keys, LoadHit(t, k)
      PROVE  CacheMoves
  <2>1. PICK i \in Cached(k) : cache' = <<cache[i]>> \o Erased(k)
    BY <1>3 DEF LoadHit
  <2>2. i \in DOMAIN cache /\ cache[i].key = k /\ cache[i] \in Entry
    BY <1>0 DEF Cached
  <2> DEFINE e == cache[i]
             rest == Erased(k)
  <2>3. /\ rest \in Seq(Entry) /\ Len(rest) = Len(cache) - 1 /\ Distinct(rest)
        /\ Within(rest, cache) /\ \A j \in DOMAIN rest : rest[j].key # e.key
    BY <1>1, <2>1, <2>2
  <2> HIDE DEF rest, e
  <2>4. /\ cache' \in Seq(Entry) /\ Len(cache') = Len(rest) + 1 /\ Distinct(cache')
        /\ \A j \in DOMAIN cache' : cache'[j] = e \/ \E n \in DOMAIN rest : cache'[j] = rest[n]
    BY <2>1, <2>2, <2>3, PutFirst DEF e, rest
  <2> QED BY <1>0, <2>2, <2>3, <2>4 DEF CacheMoves, CacheWellFormed, Distinct, Within, e
<1>4. ASSUME NEW t \in Threads, NEW k \in Keys, LoadMiss(t, k)
      PROVE  CacheMoves
  <2>1. CASE Cached(k) = {}
    BY <1>0, <1>4, <2>1 DEF LoadMiss, CacheMoves, CacheWellFormed
  <2>2. CASE Cached(k) # {}
    <3>1. cache' = Erased(k)
      BY <1>4, <2>2 DEF LoadMiss
    <3> DEFINE rest == Erased(k)
    <3>2. /\ rest \in Seq(Entry) /\ Len(rest) = Len(cache) - 1 /\ Distinct(rest)
          /\ Within(rest, cache)
      BY <1>1, <2>2
    <3> HIDE DEF rest
    <3>3. cache' = rest
      BY <3>1 DEF rest
    <3> QED BY <1>0, <3>2, <3>3, BoundsAssumption DEF CacheMoves, CacheWellFormed, Distinct, Within
  <2> QED BY <2>1, <2>2
<1>5. CASE Crash
  BY <1>5, BoundsAssumption DEF Crash, CacheMoves, CacheWellFormed
<1>6. CASE UNCHANGED cache
  BY <1>0, <1>6 DEF CacheMoves, CacheWellFormed
<1>7. \/ UNCHANGED cache
      \/ Crash
      \/ \E t \in Threads : UpdateCache(t)
      \/ \E t \in Threads, k \in Keys : LoadHit(t, k) \/ LoadMiss(t, k)
  BY DEF Next, Step, vars, WriteStart, OpenPending, OpenFinal, OpenFails, Write, WriteFails,
         Rename, RenameFails, LoadOpen, LoadNotFound, LoadRead, LoadFails, RecoverStart,
         RecoverReturn, RecoverRemove, ExternalDelete
<1> QED BY <1>2, <1>3, <1>4, <1>5, <1>6, <1>7

-----------------------------------------------------------------------------
(***************************************************************************)
(* Types and calls.                                                        *)
(***************************************************************************)
LEMMA CallUpdated ==
  ASSUME NEW c \in Call, NEW f \in Inodes \union {None}, NEW d \in Data \union {Torn, None}
  PROVE  LET r == [c EXCEPT !.fd = f, !.data = d]
         IN r \in Call /\ r.op = c.op /\ r.key = c.key /\ r.fd = f /\ r.data = d
  BY DEF Call

LEMMA TypeStep ==
  ASSUME TypeOK, CallInv, CacheWellFormed, [Next]_vars
  PROVE  TypeOK' /\ CallInv'
<1> USE SentinelAssumption, BoundsAssumption
    DEF TypeOK, CallInv, CallOK, Go, Return, NoCall, Call, Labels, Blob, diskVars, procVars, histVars
<1>0. cache' \in Seq(Entry)
  BY CacheStep DEF CacheMoves
<1>1. ASSUME NEW t \in Threads, NEW op \in Writers, NEW k \in Keys, NEW d \in Data,
             WriteStart(t, op, k, d)
      PROVE  TypeOK' /\ CallInv'
  BY <1>1, <1>0 DEF WriteStart
<1>2. ASSUME NEW t \in Threads, NEW i \in Inodes, OpenPending(t, i)
      PROVE  TypeOK' /\ CallInv'
  BY <1>2, <1>0, SMTT(40) DEF OpenPending
<1>3. ASSUME NEW t \in Threads, NEW i \in Inodes, OpenFinal(t, i)
      PROVE  TypeOK' /\ CallInv'
  <2>1. TypeOK'
    BY <1>3, <1>0 DEF OpenFinal
  <2>2. CallInv'
    BY <1>3 DEF OpenFinal
  <2> QED BY <2>1, <2>2
<1>4. ASSUME NEW t \in Threads, OpenFails(t)
      PROVE  TypeOK' /\ CallInv'
  BY <1>4, <1>0 DEF OpenFails
<1>5. ASSUME NEW t \in Threads, Write(t)
      PROVE  TypeOK' /\ CallInv'
  BY <1>5, <1>0 DEF Write
<1>6. ASSUME NEW t \in Threads, WriteFails(t)
      PROVE  TypeOK' /\ CallInv'
  BY <1>6, <1>0 DEF WriteFails
<1>7. ASSUME NEW t \in Threads, Rename(t)
      PROVE  TypeOK' /\ CallInv'
  BY <1>7, <1>0 DEF Rename
<1>8. ASSUME NEW t \in Threads, RenameFails(t)
      PROVE  TypeOK' /\ CallInv'
  BY <1>8, <1>0 DEF RenameFails
<1>9. ASSUME NEW t \in Threads, UpdateCache(t)
      PROVE  TypeOK' /\ CallInv'
  BY <1>9, <1>0 DEF UpdateCache
<1>10. ASSUME NEW t \in Threads, NEW k \in Keys, LoadHit(t, k)
      PROVE  TypeOK' /\ CallInv'
  BY <1>10, <1>0 DEF LoadHit
<1>11. ASSUME NEW t \in Threads, NEW k \in Keys, LoadMiss(t, k)
      PROVE  TypeOK' /\ CallInv'
  BY <1>11, <1>0, ZenonT(60) DEF LoadMiss
<1>12. ASSUME NEW t \in Threads, LoadOpen(t)
      PROVE  TypeOK' /\ CallInv'
  <2> DEFINE i == final[call[t].key]
             c == [call[t] EXCEPT !.fd = i, !.data = content[i]]
  <2>1. /\ pc[t] = "exists" /\ pc' = [pc EXCEPT ![t] = "read"] /\ i \in Inodes
        /\ call' = [call EXCEPT ![t] = c] /\ UNCHANGED <<diskVars, histVars>>
    BY <1>12 DEF LoadOpen
  <2>2. c.op = "load" /\ c.key \in Keys /\ c.fd \in Inodes /\ c.data \in Data \union {Torn}
    BY <2>1
  <2>3. /\ call[t] \in Call /\ i \in Inodes \union {None}
        /\ content[i] \in Data \union {Torn, None}
    BY <2>1
  <2>4. c \in Call
    <3> DEFINE f == i
               d == content[i]
    <3>1. call[t] \in Call /\ f \in Inodes \union {None} /\ d \in Data \union {Torn, None}
      BY <2>3
    <3> HIDE DEF f, d, Call
    <3>2. [call[t] EXCEPT !.fd = f, !.data = d] \in Call
      BY ONLY <3>1, CallUpdated
    <3> QED BY <3>2 DEF f, d
  <2> HIDE DEF c
  <2>5. TypeOK'
    BY <1>0, <2>1, <2>4
  <2>6. CallInv'
    BY <2>1, <2>2
  <2> QED BY <2>5, <2>6
<1>13. ASSUME NEW t \in Threads, LoadNotFound(t)
      PROVE  TypeOK' /\ CallInv'
  BY <1>13, <1>0 DEF LoadNotFound
<1>14. ASSUME NEW t \in Threads, LoadRead(t)
      PROVE  TypeOK' /\ CallInv'
  <2>0. content[call[t].fd] \in Data \union {Torn}
    BY <1>14 DEF LoadRead
  <2>1. PICK d \in Data \union {Torn} :
           call' = [call EXCEPT ![t] = [call[t] EXCEPT !.fd = None, !.data = d]]
    BY <1>14, <2>0, ZenonT(60) DEF LoadRead
  <2> DEFINE c == [call[t] EXCEPT !.fd = None, !.data = d]
  <2>2. /\ pc[t] = "read" /\ pc' = [pc EXCEPT ![t] = "cache"]
        /\ UNCHANGED <<diskVars, histVars>>
    BY <1>14 DEF LoadRead
  <2>3. c.op = "load" /\ c.key \in Keys /\ c.fd = None /\ c.data \in Data \union {Torn}
    BY <2>2
  <2>4. c \in Call
    <3>1. call[t] \in Call /\ None \in Inodes \union {None} /\ d \in Data \union {Torn, None}
      BY <2>1
    <3> HIDE DEF Call
    <3> QED BY ONLY <3>1, CallUpdated
  <2>5. call' = [call EXCEPT ![t] = c]
    BY <2>1
  <2> HIDE DEF c
  <2>6. TypeOK'
    BY <1>0, <2>2, <2>4, <2>5
  <2>7. CallInv'
    BY <2>2, <2>3, <2>5
  <2> QED BY <2>6, <2>7
<1>15. ASSUME NEW t \in Threads, LoadFails(t)
      PROVE  TypeOK' /\ CallInv'
  BY <1>15, <1>0 DEF LoadFails
<1>16. ASSUME NEW t \in Threads, RecoverStart(t)
      PROVE  TypeOK' /\ CallInv'
  BY <1>16, <1>0 DEF RecoverStart
<1>17. ASSUME NEW t \in Threads, NEW k \in Keys, RecoverRemove(t, k)
      PROVE  TypeOK' /\ CallInv'
  BY <1>17, <1>0 DEF RecoverRemove
<1>18. ASSUME NEW t \in Threads, RecoverReturn(t)
      PROVE  TypeOK' /\ CallInv'
  BY <1>18, <1>0 DEF RecoverReturn
<1>19. ASSUME NEW k \in Keys, ExternalDelete(k)
      PROVE  TypeOK' /\ CallInv'
  BY <1>19, <1>0 DEF ExternalDelete
<1>20. CASE Crash
  BY <1>20, <1>0 DEF Crash
<1>21. CASE UNCHANGED vars
  BY <1>21, <1>0 DEF vars
<1> QED
  BY <1>1, <1>2, <1>3, <1>4, <1>5, <1>6, <1>7, <1>8, <1>9, <1>10, <1>11, <1>12, <1>13, <1>14, <1>15, <1>16, <1>17, <1>18, <1>19, <1>20, <1>21 DEF Next, Step

-----------------------------------------------------------------------------
(***************************************************************************)
(* Inodes.                                                                 *)
(***************************************************************************)
\* A step makes no key the owner of an inode of another: a key gains an inode only
\* by opening a free one, which is then empty.
OwnMoves ==
    \A j \in Inodes :
        \/ \A k \in Keys : Owns(k, j)' => Owns(k, j)
        \/ /\ Free(j) /\ content'[j] = Torn
           /\ \E k \in Keys : \A l \in Keys : Owns(l, j)' => l = k

LEMMA OwnStep ==
  ASSUME TypeOK, CallInv, TypeOK', CallInv', [Next]_vars
  PROVE  OwnMoves
<1> USE SentinelAssumption, BoundsAssumption
    DEF TypeOK, Owns, OwnMoves, Free, Go, Return, NoCall, diskVars, procVars, histVars
<1>1. ASSUME NEW t \in Threads, NEW op \in Writers, NEW k \in Keys, NEW d \in Data,
             WriteStart(t, op, k, d)
      PROVE  OwnMoves
  BY <1>1 DEF WriteStart
<1>2. ASSUME NEW t \in Threads, NEW i \in Inodes, OpenPending(t, i)
      PROVE  OwnMoves
  <2> DEFINE k == call[t].key
  <2>1. /\ k \in Keys /\ call[t].fd = None /\ UNCHANGED final
        /\ pending' = [pending EXCEPT ![k] = i] /\ call' = [call EXCEPT ![t].fd = i]
        /\ content' = [content EXCEPT ![i] = Torn]
        /\ IF pending[k] = None THEN Free(i) ELSE pending[k] = i
    BY <1>2 DEF OpenPending, Opens, CallInv, CallOK
  <2>2. \A j \in Inodes \ {i}, l \in Keys : Owns(l, j)' => Owns(l, j)
    BY <2>1
  <2>3. CASE pending[k] = i
    <3>1. \A l \in Keys : Owns(l, i)' => Owns(l, i)
      BY <2>1, <2>3
    <3> HIDE DEF Owns, Free
    <3>2. \A j \in Inodes, l \in Keys : Owns(l, j)' => Owns(l, j)
      BY ONLY <2>2, <3>1
    <3> QED BY ONLY <3>2 DEF OwnMoves
  <2>4. CASE Free(i)
    <3>1. \A l \in Keys : Owns(l, i)' => l = k
      BY <2>1, <2>4
    <3>2. content'[i] = Torn
      BY <2>1
    <3> HIDE DEF Owns, Free
    <3> QED BY <2>1, <2>2, <2>4, <3>1, <3>2
  <2> QED BY <2>1, <2>3, <2>4
<1>3. ASSUME NEW t \in Threads, NEW i \in Inodes, OpenFinal(t, i)
      PROVE  OwnMoves
  BY <1>3, SMTT(40) DEF OpenFinal, Opens, CallInv, CallOK
<1>4. ASSUME NEW t \in Threads, OpenFails(t)
      PROVE  OwnMoves
  BY <1>4 DEF OpenFails
<1>5. ASSUME NEW t \in Threads, Write(t)
      PROVE  OwnMoves
  BY <1>5 DEF Write
<1>6. ASSUME NEW t \in Threads, WriteFails(t)
      PROVE  OwnMoves
  BY <1>6 DEF WriteFails
<1>7. ASSUME NEW t \in Threads, Rename(t)
      PROVE  OwnMoves
  BY <1>7 DEF Rename
<1>8. ASSUME NEW t \in Threads, RenameFails(t)
      PROVE  OwnMoves
  BY <1>8 DEF RenameFails
<1>9. ASSUME NEW t \in Threads, UpdateCache(t)
      PROVE  OwnMoves
  BY <1>9 DEF UpdateCache
<1>10. ASSUME NEW t \in Threads, NEW k \in Keys, LoadHit(t, k)
      PROVE  OwnMoves
  BY <1>10 DEF LoadHit
<1>11. ASSUME NEW t \in Threads, NEW k \in Keys, LoadMiss(t, k)
      PROVE  OwnMoves
  BY <1>11 DEF LoadMiss
<1>12. ASSUME NEW t \in Threads, LoadOpen(t)
      PROVE  OwnMoves
  BY <1>12 DEF LoadOpen, CallInv, CallOK
<1>13. ASSUME NEW t \in Threads, LoadNotFound(t)
      PROVE  OwnMoves
  BY <1>13 DEF LoadNotFound
<1>14. ASSUME NEW t \in Threads, LoadRead(t)
      PROVE  OwnMoves
  BY <1>14 DEF LoadRead
<1>15. ASSUME NEW t \in Threads, LoadFails(t)
      PROVE  OwnMoves
  BY <1>15 DEF LoadFails
<1>16. ASSUME NEW t \in Threads, RecoverStart(t)
      PROVE  OwnMoves
  BY <1>16 DEF RecoverStart
<1>17. ASSUME NEW t \in Threads, NEW k \in Keys, RecoverRemove(t, k)
      PROVE  OwnMoves
  BY <1>17 DEF RecoverRemove
<1>18. ASSUME NEW t \in Threads, RecoverReturn(t)
      PROVE  OwnMoves
  BY <1>18 DEF RecoverReturn
<1>19. ASSUME NEW k \in Keys, ExternalDelete(k)
      PROVE  OwnMoves
  BY <1>19 DEF ExternalDelete
<1>20. CASE Crash
  BY <1>20 DEF Crash
<1>21. CASE UNCHANGED vars
  BY <1>21 DEF vars
<1> QED
  BY <1>1, <1>2, <1>3, <1>4, <1>5, <1>6, <1>7, <1>8, <1>9, <1>10, <1>11, <1>12, <1>13, <1>14, <1>15, <1>16, <1>17, <1>18, <1>19, <1>20, <1>21 DEF Next, Step

LEMMA OwnInvStep ==
  ASSUME OwnInv, OwnMoves
  PROVE  OwnInv'
<1>1. ASSUME NEW j \in Inodes, Free(j), NEW k \in Keys
      PROVE  ~Owns(k, j)
  BY <1>1 DEF Free, Owns
<1> QED BY <1>1 DEF OwnInv, OwnMoves

-----------------------------------------------------------------------------
(***************************************************************************)
(* Blobs and the keys they were written for.                               *)
(***************************************************************************)
\* A step leaves an inode alone, tears it, or lets a writer that has it open fill it.
ContentMoves ==
    \A i \in Inodes :
        \/ content'[i] = content[i]
        \/ content'[i] = Torn
        \/ \E t \in Threads : pc[t] = "write" /\ call[t].fd = i /\ content'[i] = call[t].data

LEMMA ContentStep ==
  ASSUME TypeOK, CallInv, [Next]_vars
  PROVE  ContentMoves
<1>1. ASSUME NEW t \in Threads, NEW i \in Inodes, OpenPending(t, i) \/ OpenFinal(t, i)
      PROVE  ContentMoves
  BY <1>1 DEF OpenPending, OpenFinal, ContentMoves, TypeOK
<1>2. ASSUME NEW t \in Threads, Write(t) \/ WriteFails(t)
      PROVE  ContentMoves
  BY <1>2 DEF Write, WriteFails, Return, Go, ContentMoves, TypeOK, CallInv, CallOK
<1>3. CASE UNCHANGED content
  BY <1>3 DEF ContentMoves
<1>4. \/ UNCHANGED content
      \/ \E t \in Threads, i \in Inodes : OpenPending(t, i) \/ OpenFinal(t, i)
      \/ \E t \in Threads : Write(t) \/ WriteFails(t)
  BY DEF Next, Step, vars, diskVars, WriteStart, OpenFails, Rename, RenameFails, UpdateCache,
         LoadHit, LoadMiss, LoadOpen, LoadNotFound, LoadRead, LoadFails, RecoverStart,
         RecoverReturn, RecoverRemove, ExternalDelete, Crash
<1> QED BY <1>1, <1>2, <1>3, <1>4

LEMMA FilesIssuedStep ==
  ASSUME TypeOK, CallInv, OwnInv, IssuedInv, OwnMoves, ContentMoves, issued \subseteq issued'
  PROVE  FilesIssued'
<1> SUFFICES ASSUME NEW i \in Inodes, NEW k \in Keys, Owns(k, i)', content'[i] # Torn
             PROVE  [key |-> k, data |-> content'[i]] \in issued
  BY DEF FilesIssued
<1>1. Owns(k, i)
  BY DEF OwnMoves
<1>2. CASE content'[i] = content[i]
  BY <1>1, <1>2 DEF IssuedInv, FilesIssued
<1>3. ASSUME NEW t \in Threads, pc[t] = "write", call[t].fd = i, content'[i] = call[t].data
      PROVE  [key |-> k, data |-> content'[i]] \in issued
  <2>1. call[t].key \in Keys /\ call[t].data \in Data
    BY <1>3 DEF CallInv, CallOK
  <2>2. call[t].key = k
    BY <1>1, <1>3, <2>1 DEF OwnInv, Owns
  <2> QED BY <1>3, <2>1, <2>2 DEF IssuedInv, CallsIssued
<1> QED BY <1>2, <1>3 DEF ContentMoves

LEMMA IssuedGrows ==
  ASSUME [Next]_vars
  PROVE  issued \subseteq issued'
  BY ZenonT(60) DEF Next, Step, vars, histVars, WriteStart, OpenPending, OpenFinal, OpenFails, Write,
         WriteFails, Rename, RenameFails, UpdateCache, LoadHit, LoadMiss, LoadOpen, LoadNotFound,
         LoadRead, LoadFails, RecoverStart, RecoverReturn, RecoverRemove, ExternalDelete, Crash

LEMMA CallsIssuedStep ==
  ASSUME TypeOK, CallInv, IssuedInv, [Next]_vars
  PROVE  CallsIssued'
<1> USE SentinelAssumption, BoundsAssumption
    DEF TypeOK, CallInv, CallOK, IssuedInv, CallsIssued, Go, Return, NoCall, diskVars, procVars, histVars
<1>1. ASSUME NEW t \in Threads, NEW op \in Writers, NEW k \in Keys, NEW d \in Data,
             WriteStart(t, op, k, d)
      PROVE  CallsIssued'
  BY <1>1 DEF WriteStart
<1>2. ASSUME NEW t \in Threads, NEW i \in Inodes, OpenPending(t, i)
      PROVE  CallsIssued'
  BY <1>2 DEF OpenPending
<1>3. ASSUME NEW t \in Threads, NEW i \in Inodes, OpenFinal(t, i)
      PROVE  CallsIssued'
  BY <1>3 DEF OpenFinal
<1>4. ASSUME NEW t \in Threads, OpenFails(t)
      PROVE  CallsIssued'
  BY <1>4 DEF OpenFails
<1>5. ASSUME NEW t \in Threads, Write(t)
      PROVE  CallsIssued'
  BY <1>5 DEF Write
<1>6. ASSUME NEW t \in Threads, WriteFails(t)
      PROVE  CallsIssued'
  BY <1>6 DEF WriteFails
<1>7. ASSUME NEW t \in Threads, Rename(t)
      PROVE  CallsIssued'
  BY <1>7 DEF Rename
<1>8. ASSUME NEW t \in Threads, RenameFails(t)
      PROVE  CallsIssued'
  BY <1>8 DEF RenameFails
<1>9. ASSUME NEW t \in Threads, UpdateCache(t)
      PROVE  CallsIssued'
  BY <1>9 DEF UpdateCache
<1>10. ASSUME NEW t \in Threads, NEW k \in Keys, LoadHit(t, k)
      PROVE  CallsIssued'
  BY <1>10 DEF LoadHit
<1>11. ASSUME NEW t \in Threads, NEW k \in Keys, LoadMiss(t, k)
      PROVE  CallsIssued'
  BY <1>11 DEF LoadMiss
<1>12. ASSUME NEW t \in Threads, LoadOpen(t)
      PROVE  CallsIssued'
  <2> DEFINE k == call[t].key
             i == final[k]
  <2>1. /\ k \in Keys /\ i \in Inodes /\ content[i] \in Data \union {Torn} /\ issued' = issued
        /\ call' = [call EXCEPT ![t] = [@ EXCEPT !.fd = i, !.data = content[i]]]
    BY <1>12 DEF LoadOpen
  <2>2. content[i] \in Data => [key |-> k, data |-> content[i]] \in issued
    BY <2>1 DEF FilesIssued, Owns
  <2>3. call'[t].key = k /\ call'[t].data = content[i]
    BY <2>1 DEF Call
  <2> HIDE DEF k, i
  <2> QED BY <2>1, <2>2, <2>3
<1>13. ASSUME NEW t \in Threads, LoadNotFound(t)
      PROVE  CallsIssued'
  BY <1>13 DEF LoadNotFound
<1>14. ASSUME NEW t \in Threads, LoadRead(t)
      PROVE  CallsIssued'
  <2> DEFINE k == call[t].key
             i == call[t].fd
  <2>1. /\ k \in Keys /\ i \in Inodes /\ content[i] \in Data \union {Torn} /\ issued' = issued
        /\ \E d \in {content[i], Torn} :
              call' = [call EXCEPT ![t] = [@ EXCEPT !.fd = None, !.data = d]]
    BY <1>14 DEF LoadRead
  <2>2. content[i] \in Data => [key |-> k, data |-> content[i]] \in issued
    BY <2>1 DEF FilesIssued, Owns
  <2>3. call'[t].key = k /\ call'[t].data \in {content[i], Torn}
    BY <2>1 DEF Call
  <2>4. \A u \in Threads \ {t} : call'[u] = call[u]
    BY <2>1
  <2> HIDE DEF k, i
  <2> QED BY <2>1, <2>2, <2>3, <2>4
<1>15. ASSUME NEW t \in Threads, LoadFails(t)
      PROVE  CallsIssued'
  BY <1>15 DEF LoadFails
<1>16. ASSUME NEW t \in Threads, RecoverStart(t)
      PROVE  CallsIssued'
  BY <1>16 DEF RecoverStart
<1>17. ASSUME NEW t \in Threads, NEW k \in Keys, RecoverRemove(t, k)
      PROVE  CallsIssued'
  BY <1>17 DEF RecoverRemove
<1>18. ASSUME NEW t \in Threads, RecoverReturn(t)
      PROVE  CallsIssued'
  BY <1>18 DEF RecoverReturn
<1>19. ASSUME NEW k \in Keys, ExternalDelete(k)
      PROVE  CallsIssued'
  BY <1>19 DEF ExternalDelete
<1>20. CASE Crash
  BY <1>20 DEF Crash
<1>21. CASE UNCHANGED vars
  BY <1>21 DEF vars
<1> QED
  BY <1>1, <1>2, <1>3, <1>4, <1>5, <1>6, <1>7, <1>8, <1>9, <1>10, <1>11, <1>12, <1>13, <1>14, <1>15, <1>16, <1>17, <1>18, <1>19, <1>20, <1>21 DEF Next, Step

LEMMA IssuedStep ==
  ASSUME TypeOK, CallInv, OwnInv, IssuedInv, OwnMoves, CacheMoves, [Next]_vars
  PROVE  IssuedInv'
<1>1. issued \subseteq issued'
  BY IssuedGrows
<1>2. FilesIssued'
  BY <1>1, ContentStep, FilesIssuedStep
<1>3. CallsIssued'
  BY CallsIssuedStep
<1>4. CacheIssued'
  <2> SUFFICES ASSUME NEW i \in DOMAIN cache', cache'[i].data # Torn
               PROVE  cache'[i] \in issued
    BY <1>1 DEF CacheIssued
  <2>1. CASE \E j \in DOMAIN cache : cache'[i] = cache[j]
    BY <2>1 DEF IssuedInv, CacheIssued
  <2>2. ASSUME NEW t \in Threads, pc[t] = "cache", cache'[i] = Entering(t)
        PROVE  cache'[i] \in issued
    <3>1. call[t].data \in Data
      BY <2>2 DEF CallInv, CallOK, Entering
    <3> QED BY <2>2, <3>1 DEF IssuedInv, CallsIssued, Entering
  <2> QED BY <2>1, <2>2 DEF CacheMoves
<1>5. acked' \subseteq issued'
  <2>1. ASSUME NEW t \in Threads, UpdateCache(t)
        PROVE  acked' \subseteq issued
    BY <2>1 DEF UpdateCache, Return, Go, CallInv, CallOK, IssuedInv, CallsIssued
  <2>2. acked' = acked \/ \E t \in Threads : UpdateCache(t)
    BY ZenonT(60) DEF Next, Step, vars, histVars, WriteStart, OpenPending, OpenFinal, OpenFails, Write,
           WriteFails, Rename, RenameFails, LoadHit, LoadMiss, LoadOpen, LoadNotFound,
           LoadRead, LoadFails, RecoverStart, RecoverReturn, RecoverRemove, ExternalDelete, Crash
  <2> QED BY <1>1, <2>1, <2>2 DEF IssuedInv
<1> QED BY <1>1, <1>2, <1>3, <1>4, <1>5 DEF IssuedInv

-----------------------------------------------------------------------------
(***************************************************************************)
(* Keys that at most one atomic_write has touched.                         *)
(***************************************************************************)
LEMMA UnusedStep ==
  ASSUME TypeOK, CallInv, UnusedInv, [Next]_vars
  PROVE  UnusedInv'
<1> USE SentinelAssumption, BoundsAssumption
    DEF TypeOK, CallInv, CallOK, UnusedInv, Writes, Go, Return, NoCall, diskVars, procVars, histVars
<1>1. ASSUME NEW t \in Threads, NEW op \in Writers, NEW k \in Keys, NEW d \in Data,
             WriteStart(t, op, k, d)
      PROVE  UnusedInv'
  BY <1>1 DEF WriteStart
<1>2. ASSUME NEW t \in Threads, NEW i \in Inodes, OpenPending(t, i)
      PROVE  UnusedInv'
  BY <1>2 DEF OpenPending
<1>3. ASSUME NEW t \in Threads, NEW i \in Inodes, OpenFinal(t, i)
      PROVE  UnusedInv'
  BY <1>3 DEF OpenFinal
<1>4. ASSUME NEW t \in Threads, OpenFails(t)
      PROVE  UnusedInv'
  BY <1>4 DEF OpenFails
<1>5. ASSUME NEW t \in Threads, Write(t)
      PROVE  UnusedInv'
  BY <1>5 DEF Write
<1>6. ASSUME NEW t \in Threads, WriteFails(t)
      PROVE  UnusedInv'
  BY <1>6 DEF WriteFails
<1>7. ASSUME NEW t \in Threads, Rename(t)
      PROVE  UnusedInv'
  BY <1>7 DEF Rename
<1>8. ASSUME NEW t \in Threads, RenameFails(t)
      PROVE  UnusedInv'
  BY <1>8 DEF RenameFails
<1>9. ASSUME NEW t \in Threads, UpdateCache(t)
      PROVE  UnusedInv'
  BY <1>9 DEF UpdateCache
<1>10. ASSUME NEW t \in Threads, NEW k \in Keys, LoadHit(t, k)
      PROVE  UnusedInv'
  BY <1>10 DEF LoadHit
<1>11. ASSUME NEW t \in Threads, NEW k \in Keys, LoadMiss(t, k)
      PROVE  UnusedInv'
  BY <1>11 DEF LoadMiss
<1>12. ASSUME NEW t \in Threads, LoadOpen(t)
      PROVE  UnusedInv'
  BY <1>12 DEF LoadOpen
<1>13. ASSUME NEW t \in Threads, LoadNotFound(t)
      PROVE  UnusedInv'
  BY <1>13 DEF LoadNotFound
<1>14. ASSUME NEW t \in Threads, LoadRead(t)
      PROVE  UnusedInv'
  BY <1>14 DEF LoadRead
<1>15. ASSUME NEW t \in Threads, LoadFails(t)
      PROVE  UnusedInv'
  BY <1>15 DEF LoadFails
<1>16. ASSUME NEW t \in Threads, RecoverStart(t)
      PROVE  UnusedInv'
  BY <1>16 DEF RecoverStart
<1>17. ASSUME NEW t \in Threads, NEW k \in Keys, RecoverRemove(t, k)
      PROVE  UnusedInv'
  BY <1>17 DEF RecoverRemove
<1>18. ASSUME NEW t \in Threads, RecoverReturn(t)
      PROVE  UnusedInv'
  BY <1>18 DEF RecoverReturn
<1>19. ASSUME NEW k \in Keys, ExternalDelete(k)
      PROVE  UnusedInv'
  BY <1>19 DEF ExternalDelete
<1>20. CASE Crash
  BY <1>20 DEF Crash
<1>21. CASE UNCHANGED vars
  BY <1>21 DEF vars
<1> QED
  BY <1>1, <1>2, <1>3, <1>4, <1>5, <1>6, <1>7, <1>8, <1>9, <1>10, <1>11, <1>12, <1>13, <1>14, <1>15, <1>16, <1>17, <1>18, <1>19, <1>20, <1>21 DEF Next, Step

\* Only a writer of its key changes what an inode holds.
LEMMA ContentOwned ==
  ASSUME TypeOK, CallInv, OwnInv, [Next]_vars,
         NEW k \in Keys, NEW j \in Inodes, Owns(k, j), content'[j] # content[j]
  PROVE  \E t \in Threads :
            /\ Writes(t, k)
            /\ \/ \E i \in Inodes : OpenPending(t, i) \/ OpenFinal(t, i)
               \/ Write(t) \/ WriteFails(t)
<1>1. ASSUME NEW t \in Threads, NEW i \in Inodes, OpenPending(t, i)
      PROVE  Writes(t, k)
  <2>1. call[t].key \in Keys /\ call[t].op = "atomic" /\ i = j
    BY <1>1 DEF OpenPending, Go, CallInv, CallOK, TypeOK
  <2>2. Owns(call[t].key, i)
    BY <1>1, <2>1 DEF OpenPending, Opens, Free, Owns, TypeOK
  <2> QED BY <2>1, <2>2 DEF OwnInv, Writes
<1>2. ASSUME NEW t \in Threads, NEW i \in Inodes, OpenFinal(t, i)
      PROVE  Writes(t, k)
  <2>1. call[t].key \in Keys /\ call[t].op = "save" /\ i = j
    BY <1>2 DEF OpenFinal, Go, CallInv, CallOK, TypeOK
  <2>2. Owns(call[t].key, i)
    BY <1>2, <2>1 DEF OpenFinal, Opens, Free, Owns, TypeOK
  <2> QED BY <2>1, <2>2 DEF OwnInv, Writes
<1>3. ASSUME NEW t \in Threads, Write(t) \/ WriteFails(t)
      PROVE  Writes(t, k)
  <2>1. call[t].key \in Keys /\ call[t].op \in {"save", "atomic"} /\ call[t].fd = j
    BY <1>3 DEF Write, WriteFails, Return, Go, CallInv, CallOK, TypeOK
  <2> QED BY <2>1 DEF OwnInv, Writes, Owns
<1>4. \/ \E t \in Threads, i \in Inodes : OpenPending(t, i) \/ OpenFinal(t, i)
      \/ \E t \in Threads : Write(t) \/ WriteFails(t)
  BY DEF Next, Step, vars, diskVars, WriteStart, OpenFails, Rename, RenameFails, UpdateCache,
         LoadHit, LoadMiss, LoadOpen, LoadNotFound, LoadRead, LoadFails, RecoverStart,
         RecoverReturn, RecoverRemove, ExternalDelete, Crash
<1> QED BY <1>1, <1>2, <1>3, <1>4

LEMMA OneBlobStep ==
  ASSUME TypeOK, UnusedInv, WriterInv, [Next]_vars, NEW k \in Keys, used'[k] = "atomic"
  PROVE  OneBlob(k)'
<1>1. ASSUME NEW t \in Threads, NEW op \in Writers, NEW l \in Keys, NEW d \in Data,
             WriteStart(t, op, l, d)
      PROVE  OneBlob(k)'
  BY <1>1, BoundsAssumption DEF WriteStart, TypeOK, WriterInv, UnusedInv, OneBlob
<1>2. CASE UNCHANGED <<issued, used>>
  BY <1>2 DEF WriterInv, OneBlob
<1>3. \/ UNCHANGED <<issued, used>>
      \/ \E t \in Threads, op \in Writers, l \in Keys, d \in Data : WriteStart(t, op, l, d)
  BY ZenonT(60) DEF Next, Step, vars, histVars, OpenPending, OpenFinal, OpenFails, Write, WriteFails, Rename,
         RenameFails, UpdateCache, LoadHit, LoadMiss, LoadOpen, LoadNotFound, LoadRead, LoadFails,
         RecoverStart, RecoverReturn, RecoverRemove, ExternalDelete, Crash
<1> QED BY <1>1, <1>2, <1>3

LEMMA OneWriterStep ==
  ASSUME TypeOK, CallInv, UnusedInv, WriterInv, [Next]_vars, NEW k \in Keys, used'[k] = "atomic"
  PROVE  OneWriter(k)'
<1> USE SentinelAssumption, BoundsAssumption
    DEF TypeOK, WriterInv, UnusedInv, OneWriter, Writes, Return, Go, NoCall, diskVars, procVars, histVars
<1>1. ASSUME NEW t \in Threads, NEW op \in Writers, NEW l \in Keys, NEW d \in Data,
             WriteStart(t, op, l, d)
      PROVE  OneWriter(k)'
  BY <1>1 DEF WriteStart
<1>2. ASSUME NEW t \in Threads, NEW i \in Inodes, OpenPending(t, i)
      PROVE  OneWriter(k)'
  BY <1>2 DEF OpenPending
<1>3. ASSUME NEW t \in Threads, NEW i \in Inodes, OpenFinal(t, i)
      PROVE  OneWriter(k)'
  BY <1>3 DEF OpenFinal
<1>4. ASSUME NEW t \in Threads, OpenFails(t)
      PROVE  OneWriter(k)'
  BY <1>4 DEF OpenFails
<1>5. ASSUME NEW t \in Threads, Write(t)
      PROVE  OneWriter(k)'
  BY <1>5 DEF Write
<1>6. ASSUME NEW t \in Threads, WriteFails(t)
      PROVE  OneWriter(k)'
  BY <1>6 DEF WriteFails
<1>7. ASSUME NEW t \in Threads, Rename(t)
      PROVE  OneWriter(k)'
  BY <1>7 DEF Rename
<1>8. ASSUME NEW t \in Threads, RenameFails(t)
      PROVE  OneWriter(k)'
  BY <1>8 DEF RenameFails
<1>9. ASSUME NEW t \in Threads, UpdateCache(t)
      PROVE  OneWriter(k)'
  BY <1>9 DEF UpdateCache
<1>10. ASSUME NEW t \in Threads, NEW l \in Keys, LoadHit(t, l)
      PROVE  OneWriter(k)'
  BY <1>10 DEF LoadHit
<1>11. ASSUME NEW t \in Threads, NEW l \in Keys, LoadMiss(t, l)
      PROVE  OneWriter(k)'
  BY <1>11 DEF LoadMiss
<1>12. ASSUME NEW t \in Threads, LoadOpen(t)
      PROVE  OneWriter(k)'
  BY <1>12 DEF LoadOpen
<1>13. ASSUME NEW t \in Threads, LoadNotFound(t)
      PROVE  OneWriter(k)'
  BY <1>13 DEF LoadNotFound
<1>14. ASSUME NEW t \in Threads, LoadRead(t)
      PROVE  OneWriter(k)'
  BY <1>14 DEF LoadRead
<1>15. ASSUME NEW t \in Threads, LoadFails(t)
      PROVE  OneWriter(k)'
  BY <1>15 DEF LoadFails
<1>16. ASSUME NEW t \in Threads, RecoverStart(t)
      PROVE  OneWriter(k)'
  BY <1>16 DEF RecoverStart
<1>17. ASSUME NEW t \in Threads, NEW l \in Keys, RecoverRemove(t, l)
      PROVE  OneWriter(k)'
  BY <1>17 DEF RecoverRemove
<1>18. ASSUME NEW t \in Threads, RecoverReturn(t)
      PROVE  OneWriter(k)'
  BY <1>18 DEF RecoverReturn
<1>19. ASSUME NEW l \in Keys, ExternalDelete(l)
      PROVE  OneWriter(k)'
  BY <1>19 DEF ExternalDelete
<1>20. CASE Crash
  BY <1>20 DEF Crash
<1>21. CASE UNCHANGED vars
  BY <1>21 DEF vars
<1> QED
  BY <1>1, <1>2, <1>3, <1>4, <1>5, <1>6, <1>7, <1>8, <1>9, <1>10, <1>11, <1>12, <1>13, <1>14, <1>15, <1>16, <1>17, <1>18, <1>19, <1>20, <1>21 DEF Next, Step

\* What the two ends of a write do, with the inode i and the key l of the call.
WriteDone(t, l, i) ==
    /\ l = call[t].key /\ i = call[t].fd /\ l \in Keys /\ i \in Inodes
    /\ pc[t] = "write" /\ call[t].op \in {"save", "atomic"} /\ call[t].data \in Data
    /\ UNCHANGED <<used, final, pending, cache, acked, deleted>>
    /\ \A u \in Threads \ {t} : call'[u] = call[u] /\ pc'[u] = pc[u]
    /\ \A j \in Inodes \ {i} : content'[j] = content[j]

LEMMA WriteEffect ==
  ASSUME TypeOK, CallInv, NEW t \in Threads, Write(t)
  PROVE  /\ WriteDone(t, call[t].key, call[t].fd)
         /\ content[call[t].fd] = Torn => content'[call[t].fd] = call[t].data
         /\ call'[t] = [call[t] EXCEPT !.fd = None]
         /\ pc'[t] = IF call[t].op = "save" THEN "cache" ELSE "rename"
<1>1. /\ pc[t] = "write" /\ call' = [call EXCEPT ![t].fd = None]
      /\ pc' = [pc EXCEPT ![t] = IF call[t].op = "save" THEN "cache" ELSE "rename"]
      /\ UNCHANGED <<used, final, pending, cache, acked, deleted>>
  BY DEF Write, Go, histVars
<1>2. /\ call[t].key \in Keys /\ call[t].fd \in Inodes
      /\ call[t].op \in {"save", "atomic"} /\ call[t].data \in Data
  BY <1>1 DEF CallInv, CallOK
<1>3. PICK c : /\ content' = [content EXCEPT ![call[t].fd] = c]
               /\ content[call[t].fd] = Torn => c = call[t].data
  BY DEF Write
<1>4. call'[t] = [call[t] EXCEPT !.fd = None] /\ \A u \in Threads \ {t} : call'[u] = call[u]
  BY <1>1 DEF TypeOK
<1>5. /\ pc'[t] = IF call[t].op = "save" THEN "cache" ELSE "rename"
      /\ \A u \in Threads \ {t} : pc'[u] = pc[u]
  BY <1>1 DEF TypeOK
<1>6. content'[call[t].fd] = c /\ \A j \in Inodes \ {call[t].fd} : content'[j] = content[j]
  BY <1>2, <1>3 DEF TypeOK
<1> QED BY <1>1, <1>2, <1>3, <1>4, <1>5, <1>6 DEF WriteDone

LEMMA WriteFailsEffect ==
  ASSUME TypeOK, CallInv, NEW t \in Threads, WriteFails(t)
  PROVE  WriteDone(t, call[t].key, call[t].fd) /\ call'[t] = NoCall /\ pc'[t] = "idle"
<1>1. /\ pc[t] = "write" /\ call' = [call EXCEPT ![t] = NoCall] /\ pc' = [pc EXCEPT ![t] = "idle"]
      /\ UNCHANGED <<used, final, pending, cache, acked, deleted>>
  BY DEF WriteFails, Return, Go, histVars
<1>2. /\ call[t].key \in Keys /\ call[t].fd \in Inodes
      /\ call[t].op \in {"save", "atomic"} /\ call[t].data \in Data
  BY <1>1 DEF CallInv, CallOK
<1>3. PICK c : content' = [content EXCEPT ![call[t].fd] = c]
  BY DEF WriteFails
<1>4. call'[t] = NoCall /\ \A u \in Threads \ {t} : call'[u] = call[u]
  BY <1>1 DEF TypeOK
<1>5. pc'[t] = "idle" /\ \A u \in Threads \ {t} : pc'[u] = pc[u]
  BY <1>1 DEF TypeOK
<1>6. \A j \in Inodes \ {call[t].fd} : content'[j] = content[j]
  BY <1>3 DEF TypeOK
<1> QED BY <1>1, <1>2, <1>4, <1>5, <1>6 DEF WriteDone

LEMMA UnseenStep ==
  ASSUME TypeOK, CallInv, OwnInv, UnusedInv, WriterInv, [Next]_vars,
         NEW k \in Keys, used'[k] = "atomic"
  PROVE  Unseen(k)'
<1> USE SentinelAssumption, BoundsAssumption
    DEF TypeOK, CallInv, CallOK, WriterInv, UnusedInv, OneWriter, Unseen, Unrenamed, Writes, Return, Go, NoCall,
        diskVars, procVars, histVars
<1>1. ASSUME NEW t \in Threads, NEW op \in Writers, NEW l \in Keys, NEW d \in Data,
             WriteStart(t, op, l, d)
      PROVE  Unseen(k)'
  BY <1>1 DEF WriteStart
<1>2. ASSUME NEW t \in Threads, NEW i \in Inodes, OpenPending(t, i)
      PROVE  Unseen(k)'
  <2> DEFINE l == call[t].key
  <2>1. /\ l \in Keys /\ call[t].op = "atomic" /\ call[t].fd = None /\ pc[t] = "open"
        /\ used' = used /\ final' = final
        /\ pending' = [pending EXCEPT ![l] = i] /\ content' = [content EXCEPT ![i] = Torn]
        /\ pc' = [pc EXCEPT ![t] = "write"] /\ call' = [call EXCEPT ![t].fd = i]
    BY <1>2 DEF OpenPending
  <2>2. CASE l = k
    BY <2>1, <2>2
  <2>3. CASE l # k
    <3>1. ~Owns(k, i)
      BY <1>2, <2>1, <2>3 DEF OpenPending, Opens, Free, OwnInv, Owns
    <3>2. pending[k] # i /\ \A u \in Threads : call[u].key = k => call[u].fd # i
      BY <3>1 DEF Owns
    <3> QED BY <2>1, <2>3, <3>2
  <2> QED BY <2>2, <2>3
<1>3. ASSUME NEW t \in Threads, NEW i \in Inodes, OpenFinal(t, i)
      PROVE  Unseen(k)'
  <2> DEFINE l == call[t].key
  <2>1. /\ l \in Keys /\ call[t].op = "save" /\ call[t].fd = None /\ pc[t] = "open"
        /\ used' = used /\ pending' = pending
        /\ final' = [final EXCEPT ![l] = i] /\ content' = [content EXCEPT ![i] = Torn]
        /\ pc' = [pc EXCEPT ![t] = "write"] /\ call' = [call EXCEPT ![t].fd = i]
    BY <1>3 DEF OpenFinal
  <2>2. l # k
    BY <2>1
  <2>3. ~Owns(k, i)
    BY <1>3, <2>1, <2>2 DEF OpenFinal, Opens, Free, OwnInv, Owns
  <2>4. pending[k] # i /\ \A u \in Threads : call[u].key = k => call[u].fd # i
    BY <2>3 DEF Owns
  <2> QED BY <2>1, <2>2, <2>4
<1>4. ASSUME NEW t \in Threads, OpenFails(t)
      PROVE  Unseen(k)'
  BY <1>4 DEF OpenFails
<1>5. ASSUME NEW t \in Threads, Write(t)
      PROVE  Unseen(k)'
  <2> DEFINE l == call[t].key
             i == call[t].fd
  <2>1. WriteDone(t, l, i) /\ call'[t].key = l /\ call'[t].op = call[t].op
        /\ (content[i] = Torn => content'[i] = call[t].data)
        /\ pc'[t] = IF call[t].op = "save" THEN "cache" ELSE "rename"
    <3>1. call[t] \in Call
      OBVIOUS
    <3>2. [call[t] EXCEPT !.fd = None].key = l /\ [call[t] EXCEPT !.fd = None].op = call[t].op
      BY ONLY <3>1 DEF Call
    <3> QED BY ONLY <1>5, <3>2, TypeOK, CallInv, WriteEffect
  <2>2. CASE l = k
    BY <2>1, <2>2 DEF WriteDone
  <2>3. CASE l # k
    <3>1. pending[k] # i /\ \A u \in Threads : call[u].key = k => call[u].fd # i
      BY <2>1, <2>3 DEF OwnInv, Owns, WriteDone
    <3> QED BY <2>1, <2>3, <3>1 DEF WriteDone
  <2> QED BY <2>2, <2>3
<1>6. ASSUME NEW t \in Threads, WriteFails(t)
      PROVE  Unseen(k)'
  <2> DEFINE l == call[t].key
             i == call[t].fd
  <2>1. WriteDone(t, l, i) /\ call'[t] = NoCall
    BY <1>6, WriteFailsEffect DEF Call
  <2>2. CASE l = k
    BY <2>1, <2>2 DEF WriteDone
  <2>3. CASE l # k
    <3>1. pending[k] # i /\ \A u \in Threads : call[u].key = k => call[u].fd # i
      BY <2>1, <2>3 DEF OwnInv, Owns, WriteDone
    <3> QED BY <2>1, <2>3, <3>1 DEF WriteDone
  <2> QED BY <2>2, <2>3
<1>7. ASSUME NEW t \in Threads, Rename(t)
      PROVE  Unseen(k)'
  BY <1>7 DEF Rename
<1>8. ASSUME NEW t \in Threads, RenameFails(t)
      PROVE  Unseen(k)'
  BY <1>8 DEF RenameFails
<1>9. ASSUME NEW t \in Threads, UpdateCache(t)
      PROVE  Unseen(k)'
  BY <1>9 DEF UpdateCache
<1>10. ASSUME NEW t \in Threads, NEW l \in Keys, LoadHit(t, l)
      PROVE  Unseen(k)'
  BY <1>10 DEF LoadHit
<1>11. ASSUME NEW t \in Threads, NEW l \in Keys, LoadMiss(t, l)
      PROVE  Unseen(k)'
  BY <1>11 DEF LoadMiss
<1>12. ASSUME NEW t \in Threads, LoadOpen(t)
      PROVE  Unseen(k)'
  BY <1>12 DEF LoadOpen
<1>13. ASSUME NEW t \in Threads, LoadNotFound(t)
      PROVE  Unseen(k)'
  BY <1>13 DEF LoadNotFound
<1>14. ASSUME NEW t \in Threads, LoadRead(t)
      PROVE  Unseen(k)'
  BY <1>14 DEF LoadRead
<1>15. ASSUME NEW t \in Threads, LoadFails(t)
      PROVE  Unseen(k)'
  BY <1>15 DEF LoadFails
<1>16. ASSUME NEW t \in Threads, RecoverStart(t)
      PROVE  Unseen(k)'
  BY <1>16 DEF RecoverStart
<1>17. ASSUME NEW t \in Threads, NEW l \in Keys, RecoverRemove(t, l)
      PROVE  Unseen(k)'
  BY <1>17 DEF RecoverRemove
<1>18. ASSUME NEW t \in Threads, RecoverReturn(t)
      PROVE  Unseen(k)'
  BY <1>18 DEF RecoverReturn
<1>19. ASSUME NEW l \in Keys, ExternalDelete(l)
      PROVE  Unseen(k)'
  BY <1>19 DEF ExternalDelete
<1>20. CASE Crash
  BY <1>20 DEF Crash
<1>21. CASE UNCHANGED vars
  BY <1>21 DEF vars
<1> QED
  BY <1>1, <1>2, <1>3, <1>4, <1>5, <1>6, <1>7, <1>8, <1>9, <1>10, <1>11, <1>12, <1>13, <1>14, <1>15, <1>16, <1>17, <1>18, <1>19, <1>20, <1>21 DEF Next, Step

LEMMA OnceStays ==
  ASSUME TypeOK, [Next]_vars, NEW k \in Keys, Once(k)'
  PROVE  Once(k)
<1>1. ASSUME NEW t \in Threads, NEW op \in Writers, NEW l \in Keys, NEW d \in Data,
             WriteStart(t, op, l, d)
      PROVE  Once(k)
  BY <1>1, BoundsAssumption DEF WriteStart, TypeOK, Once
<1>2. CASE UNCHANGED used
  BY <1>2 DEF Once
<1>3. \/ UNCHANGED used
      \/ \E t \in Threads, op \in Writers, l \in Keys, d \in Data : WriteStart(t, op, l, d)
  BY DEF Next, Step, vars, histVars, OpenPending, OpenFinal, OpenFails, Write, WriteFails, Rename,
         RenameFails, UpdateCache, LoadHit, LoadMiss, LoadOpen, LoadNotFound, LoadRead, LoadFails,
         RecoverStart, RecoverReturn, RecoverRemove, ExternalDelete, Crash
<1> QED BY <1>1, <1>2, <1>3

\* While the content of one of its inodes changes, such a key has a writer and no file.
LEMMA ContentHidden ==
  ASSUME TypeOK, CallInv, OwnInv, UnusedInv, WriterInv, [Next]_vars, NEW k \in Keys, Once(k),
         NEW j \in Inodes, Owns(k, j), content'[j] # content[j]
  PROVE  final'[k] = None /\ \E t \in Threads : Unrenamed(t, k)
<1>1. PICK t \in Threads :
         /\ Writes(t, k)
         /\ \/ \E i \in Inodes : OpenPending(t, i) \/ OpenFinal(t, i)
            \/ Write(t) \/ WriteFails(t)
  BY ContentOwned
<1>2. pc[t] \in {"open", "write"}
  BY <1>1 DEF OpenPending, OpenFinal, Write, WriteFails, Return, Go
<1>3. used[k] = "atomic"
  BY <1>1 DEF UnusedInv, Once
<1>4. Unrenamed(t, k) /\ final[k] = None /\ call[t].op = "atomic"
  BY <1>1, <1>2, <1>3 DEF WriterInv, OneWriter, Unseen, Unrenamed
<1>5. final' = final
  BY <1>1, <1>4 DEF OpenPending, OpenFinal, Write, WriteFails
<1> QED BY <1>4, <1>5

LEMMA FileWholeStep ==
  ASSUME TypeOK, CallInv, OwnInv, UnusedInv, WriterInv, OnceInv, [Next]_vars, NEW k \in Keys, Once(k)'
  PROVE  FileWhole(k)'
<1>1. Once(k)
  BY OnceStays
<1>2. SUFFICES ASSUME final'[k] # None
               PROVE  content'[final'[k]] \in Data
  BY DEF FileWhole
<1>3. \A j \in Inodes : Owns(k, j) => content'[j] = content[j]
  BY <1>1, <1>2, ContentHidden
<1>4. ASSUME NEW t \in Threads, Rename(t), call[t].key = k
      PROVE  content'[final'[k]] \in Data
  <2>1. Unrenamed(t, k) /\ pc[t] = "rename" /\ pending[k] # None /\ final'[k] = pending[k]
    BY <1>4 DEF Rename, Go, CallInv, CallOK, Unrenamed, Writes, TypeOK
  <2>2. used[k] = "atomic"
    BY <1>1, <2>1 DEF UnusedInv, Once, Unrenamed
  <2>3. content[pending[k]] \in Data
    BY <2>1, <2>2 DEF WriterInv, Unseen
  <2>4. Owns(k, pending[k]) /\ pending[k] \in Inodes
    BY <2>1 DEF Owns, TypeOK
  <2> QED BY <1>3, <2>1, <2>3, <2>4
<1>5. ASSUME NEW t \in Threads, NEW i \in Inodes, OpenFinal(t, i), call[t].key = k
      PROVE  FALSE
  <2>1. Writes(t, k) /\ call[t].op = "save"
    BY <1>5 DEF OpenFinal, Writes
  <2> QED BY <1>1, <2>1 DEF UnusedInv, WriterInv, OneWriter, Once
<1>6. CASE final'[k] = final[k]
  <2>1. final[k] \in Inodes /\ Owns(k, final[k])
    BY <1>2, <1>6 DEF TypeOK, Owns
  <2> QED BY <1>1, <1>2, <1>3, <1>6, <2>1 DEF OnceInv, FileWhole
<1>7. \/ final'[k] = final[k]
      \/ \E t \in Threads : Rename(t) /\ call[t].key = k
      \/ \E t \in Threads, i \in Inodes : OpenFinal(t, i) /\ call[t].key = k
  BY <1>2, ZenonT(60) DEF TypeOK, Next, Step, vars, diskVars, WriteStart, OpenPending, OpenFinal, OpenFails, Write, WriteFails,
     Rename, RenameFails, UpdateCache, LoadHit, LoadMiss, LoadOpen, LoadNotFound, LoadRead, LoadFails,
     RecoverStart, RecoverReturn, RecoverRemove, ExternalDelete, Crash
<1> QED BY <1>4, <1>5, <1>6, <1>7

LEMMA CacheWholeStep ==
  ASSUME TypeOK, CallInv, OnceInv, CacheMoves, NEW k \in Keys, Once(k)
  PROVE  CacheWhole(k)'
<1> SUFFICES ASSUME NEW i \in DOMAIN cache', cache'[i].key = k
             PROVE  cache'[i].data \in Data
  BY DEF CacheWhole
<1>1. CASE \E j \in DOMAIN cache : cache'[i] = cache[j]
  BY <1>1 DEF OnceInv, CacheWhole
<1>2. ASSUME NEW t \in Threads, pc[t] = "cache", cache'[i] = Entering(t)
      PROVE  cache'[i].data \in Data
  <2>1. call[t].key = k /\ cache'[i].data = call[t].data
    BY <1>2 DEF Entering
  <2> QED BY <1>2, <2>1 DEF OnceInv, ReadersWhole, CallInv, CallOK
<1> QED BY <1>1, <1>2 DEF CacheMoves

\* How a load comes to read a file or to put it into the cache, and how a key gets
\* a writer.
ReaderMoves(u) ==
    \/ call'[u] = call[u] /\ pc'[u] = pc[u]
    \/ LoadOpen(u)
    \/ LoadRead(u)

LEMMA ReaderStep ==
  ASSUME TypeOK, CallInv, [Next]_vars, NEW u \in Threads, call'[u].op = "load",
         pc'[u] \in {"read", "cache"}
  PROVE  ReaderMoves(u)
<1> USE SentinelAssumption, BoundsAssumption
    DEF TypeOK, CallInv, CallOK, ReaderMoves, Go, Return, NoCall, procVars
<1>1. ASSUME NEW t \in Threads, NEW op \in Writers, NEW k \in Keys, NEW d \in Data,
             WriteStart(t, op, k, d)
      PROVE  ReaderMoves(u)
  BY <1>1 DEF WriteStart
<1>2. ASSUME NEW t \in Threads, NEW i \in Inodes, OpenPending(t, i)
      PROVE  ReaderMoves(u)
  BY <1>2 DEF OpenPending
<1>3. ASSUME NEW t \in Threads, NEW i \in Inodes, OpenFinal(t, i)
      PROVE  ReaderMoves(u)
  BY <1>3 DEF OpenFinal
<1>4. ASSUME NEW t \in Threads, OpenFails(t)
      PROVE  ReaderMoves(u)
  BY <1>4 DEF OpenFails
<1>5. ASSUME NEW t \in Threads, Write(t)
      PROVE  ReaderMoves(u)
  BY <1>5 DEF Write
<1>6. ASSUME NEW t \in Threads, WriteFails(t)
      PROVE  ReaderMoves(u)
  BY <1>6 DEF WriteFails
<1>7. ASSUME NEW t \in Threads, Rename(t)
      PROVE  ReaderMoves(u)
  BY <1>7 DEF Rename
<1>8. ASSUME NEW t \in Threads, RenameFails(t)
      PROVE  ReaderMoves(u)
  BY <1>8 DEF RenameFails
<1>9. ASSUME NEW t \in Threads, UpdateCache(t)
      PROVE  ReaderMoves(u)
  BY <1>9 DEF UpdateCache
<1>10. ASSUME NEW t \in Threads, NEW k \in Keys, LoadHit(t, k)
      PROVE  ReaderMoves(u)
  BY <1>10 DEF LoadHit
<1>11. ASSUME NEW t \in Threads, NEW k \in Keys, LoadMiss(t, k)
      PROVE  ReaderMoves(u)
  BY <1>11 DEF LoadMiss
<1>12. ASSUME NEW t \in Threads, LoadOpen(t)
      PROVE  ReaderMoves(u)
  BY <1>12 DEF LoadOpen
<1>13. ASSUME NEW t \in Threads, LoadNotFound(t)
      PROVE  ReaderMoves(u)
  BY <1>13 DEF LoadNotFound
<1>14. ASSUME NEW t \in Threads, LoadRead(t)
      PROVE  ReaderMoves(u)
  BY <1>14, ZenonT(60) DEF LoadRead
<1>15. ASSUME NEW t \in Threads, LoadFails(t)
      PROVE  ReaderMoves(u)
  BY <1>15 DEF LoadFails
<1>16. ASSUME NEW t \in Threads, RecoverStart(t)
      PROVE  ReaderMoves(u)
  BY <1>16 DEF RecoverStart
<1>17. ASSUME NEW t \in Threads, NEW k \in Keys, RecoverRemove(t, k)
      PROVE  ReaderMoves(u)
  BY <1>17 DEF RecoverRemove
<1>18. ASSUME NEW t \in Threads, RecoverReturn(t)
      PROVE  ReaderMoves(u)
  BY <1>18 DEF RecoverReturn
<1>19. ASSUME NEW k \in Keys, ExternalDelete(k)
      PROVE  ReaderMoves(u)
  BY <1>19 DEF ExternalDelete
<1>20. CASE Crash
  BY <1>20 DEF Crash
<1>21. CASE UNCHANGED vars
  BY <1>21 DEF vars
<1> QED
  BY <1>1, <1>2, <1>3, <1>4, <1>5, <1>6, <1>7, <1>8, <1>9, <1>10, <1>11, <1>12, <1>13, <1>14, <1>15, <1>16, <1>17, <1>18, <1>19, <1>20, <1>21 DEF Next, Step

WriterMoves(u, k) ==
    Unrenamed(u, k) \/ \E op \in Writers, d \in Data : WriteStart(u, op, k, d)

LEMMA UnrenamedStep ==
  ASSUME TypeOK, CallInv, [Next]_vars, NEW u \in Threads, NEW k \in Keys, Unrenamed(u, k)'
  PROVE  WriterMoves(u, k)
<1> USE SentinelAssumption, BoundsAssumption
    DEF TypeOK, CallInv, CallOK, WriterMoves, Unrenamed, Writes, Go, Return, NoCall, procVars
<1>1. ASSUME NEW t \in Threads, NEW op \in Writers, NEW l \in Keys, NEW d \in Data,
             WriteStart(t, op, l, d)
      PROVE  WriterMoves(u, k)
  BY <1>1 DEF WriteStart
<1>2. ASSUME NEW t \in Threads, NEW i \in Inodes, OpenPending(t, i)
      PROVE  WriterMoves(u, k)
  BY <1>2 DEF OpenPending
<1>3. ASSUME NEW t \in Threads, NEW i \in Inodes, OpenFinal(t, i)
      PROVE  WriterMoves(u, k)
  BY <1>3 DEF OpenFinal
<1>4. ASSUME NEW t \in Threads, OpenFails(t)
      PROVE  WriterMoves(u, k)
  BY <1>4 DEF OpenFails
<1>5. ASSUME NEW t \in Threads, Write(t)
      PROVE  WriterMoves(u, k)
  BY <1>5 DEF Write
<1>6. ASSUME NEW t \in Threads, WriteFails(t)
      PROVE  WriterMoves(u, k)
  BY <1>6 DEF WriteFails
<1>7. ASSUME NEW t \in Threads, Rename(t)
      PROVE  WriterMoves(u, k)
  BY <1>7 DEF Rename
<1>8. ASSUME NEW t \in Threads, RenameFails(t)
      PROVE  WriterMoves(u, k)
  BY <1>8 DEF RenameFails
<1>9. ASSUME NEW t \in Threads, UpdateCache(t)
      PROVE  WriterMoves(u, k)
  BY <1>9 DEF UpdateCache
<1>10. ASSUME NEW t \in Threads, NEW l \in Keys, LoadHit(t, l)
      PROVE  WriterMoves(u, k)
  BY <1>10 DEF LoadHit
<1>11. ASSUME NEW t \in Threads, NEW l \in Keys, LoadMiss(t, l)
      PROVE  WriterMoves(u, k)
  BY <1>11 DEF LoadMiss
<1>12. ASSUME NEW t \in Threads, LoadOpen(t)
      PROVE  WriterMoves(u, k)
  BY <1>12 DEF LoadOpen
<1>13. ASSUME NEW t \in Threads, LoadNotFound(t)
      PROVE  WriterMoves(u, k)
  BY <1>13 DEF LoadNotFound
<1>14. ASSUME NEW t \in Threads, LoadRead(t)
      PROVE  WriterMoves(u, k)
  BY <1>14 DEF LoadRead
<1>15. ASSUME NEW t \in Threads, LoadFails(t)
      PROVE  WriterMoves(u, k)
  BY <1>15 DEF LoadFails
<1>16. ASSUME NEW t \in Threads, RecoverStart(t)
      PROVE  WriterMoves(u, k)
  BY <1>16 DEF RecoverStart
<1>17. ASSUME NEW t \in Threads, NEW l \in Keys, RecoverRemove(t, l)
      PROVE  WriterMoves(u, k)
  BY <1>17 DEF RecoverRemove
<1>18. ASSUME NEW t \in Threads, RecoverReturn(t)
      PROVE  WriterMoves(u, k)
  BY <1>18 DEF RecoverReturn
<1>19. ASSUME NEW l \in Keys, ExternalDelete(l)
      PROVE  WriterMoves(u, k)
  BY <1>19 DEF ExternalDelete
<1>20. CASE Crash
  BY <1>20 DEF Crash
<1>21. CASE UNCHANGED vars
  BY <1>21 DEF vars
<1> QED
  BY <1>1, <1>2, <1>3, <1>4, <1>5, <1>6, <1>7, <1>8, <1>9, <1>10, <1>11, <1>12, <1>13, <1>14, <1>15, <1>16, <1>17, <1>18, <1>19, <1>20, <1>21 DEF Next, Step

\* In the step that gives a key its first writer nobody reads it, because what is
\* read was written.
LEMMA ReadersWholeStep ==
  ASSUME TypeOK, CallInv, OwnInv, IssuedInv, UnusedInv, WriterInv, OnceInv, [Next]_vars,
         NEW k \in Keys, Once(k)'
  PROVE  ReadersWhole(k)'
<1>0. Once(k)
  BY OnceStays
<1> DEFINE Whole(u) ==
       /\ pc[u] = "read" =>
             content[call[u].fd] \in Data /\ \A v \in Threads : ~Unrenamed(v, k)
       /\ pc[u] \in {"read", "cache"} => call[u].data \in Data
<1> SUFFICES ASSUME NEW u \in Threads, (call[u].op = "load" /\ call[u].key = k)',
                    pc'[u] \in {"read", "cache"}
             PROVE  Whole(u)'
  BY DEF ReadersWhole
<1>1. \A j \in Inodes : Owns(k, j) /\ (\A v \in Threads : ~Unrenamed(v, k)) => content'[j] = content[j]
  BY <1>0, ContentHidden
<1>2. CASE call'[u] = call[u] /\ pc'[u] = pc[u]
  <2>1. call[u].op = "load" /\ call[u].key = k /\ Whole(u)
    BY <1>0, <1>2 DEF OnceInv, ReadersWhole
  <2>2. ASSUME pc[u] = "read"
        PROVE  content'[call[u].fd] \in Data
    <3>1. call[u].fd \in Inodes /\ Owns(k, call[u].fd)
      BY <2>1, <2>2 DEF CallInv, CallOK, Owns
    <3> QED BY <1>1, <2>1, <2>2, <3>1
  <2>3. ASSUME pc[u] = "read", NEW v \in Threads, Unrenamed(v, k)'
        PROVE  FALSE
    <3>1. PICK op \in Writers, d \in Data : WriteStart(v, op, k, d)
      BY <2>1, <2>3, UnrenamedStep DEF WriterMoves
    <3>2. used[k] = "unused"
      BY <3>1, BoundsAssumption DEF WriteStart, Once, TypeOK
    <3>3. call[u].fd \in Inodes /\ Owns(k, call[u].fd) /\ content[call[u].fd] # Torn
      BY <2>1, <2>3, SentinelAssumption DEF CallInv, CallOK, Owns
    <3>4. [key |-> k, data |-> content[call[u].fd]] \in issued
      BY <3>3 DEF IssuedInv, FilesIssued
    <3> QED BY <3>2, <3>4 DEF UnusedInv
  <2> QED BY <1>2, <2>1, <2>2, <2>3
<1>3. CASE LoadOpen(u)
  <2> DEFINE i == final[call[u].key]
  <2>1. /\ pc[u] = "exists" /\ pc' = [pc EXCEPT ![u] = "read"] /\ i # None
        /\ call' = [call EXCEPT ![u] = [@ EXCEPT !.fd = i, !.data = content[i]]]
        /\ content' = content
    BY <1>3 DEF LoadOpen, Go, diskVars
  <2>2. call[u].op = "load" /\ call[u].key \in Keys /\ i \in Inodes
    BY <2>1 DEF CallInv, CallOK, TypeOK
  <2>3. call'[u].key = call[u].key /\ call'[u].fd = i /\ call'[u].data = content[i]
    BY <2>1 DEF TypeOK, Call
  <2>4. call[u].key = k
    BY <2>3
  <2>5. content[i] \in Data
    BY <1>0, <2>1, <2>4 DEF OnceInv, FileWhole
  <2>6. \A v \in Threads : ~Unrenamed(v, k)
    BY <1>0, <2>1, <2>4 DEF Once, UnusedInv, WriterInv, Unseen, Unrenamed
  <2>7. \A v \in Threads : ~Unrenamed(v, k)'
    <3> SUFFICES ASSUME NEW v \in Threads, Unrenamed(v, k)' PROVE FALSE
      OBVIOUS
    <3>1. v # u
      BY DEF Unrenamed, Writes
    <3>2. call'[v] = call[v] /\ pc'[v] = pc[v]
      BY <2>1, <3>1 DEF TypeOK
    <3> QED BY <2>6, <3>2 DEF Unrenamed, Writes
  <2> QED BY <2>1, <2>3, <2>5, <2>7
<1>4. CASE LoadRead(u)
  <2> DEFINE i == call[u].fd
  <2>1. pc[u] = "read" /\ pc' = [pc EXCEPT ![u] = "cache"]
    BY <1>4 DEF LoadRead, Go
  <2>2. PICK d \in {content[i]} \union (IF content[i] = call[u].data THEN {} ELSE {Torn}) :
           call' = [call EXCEPT ![u] = [@ EXCEPT !.fd = None, !.data = d]]
    BY <1>4 DEF LoadRead
  <2>3. call[u].op = "load" /\ call[u].key \in Keys /\ i \in Inodes
    BY <2>1 DEF CallInv, CallOK
  <2>4. call'[u].key = call[u].key /\ call'[u].data = d
    BY <2>2 DEF TypeOK, Call
  <2>5. call[u].key = k
    BY <2>4
  <2>6. content[i] \in Data /\ call[u].data \in Data
    BY <1>0, <2>1, <2>3, <2>5 DEF OnceInv, ReadersWhole
  <2>7. [key |-> k, data |-> content[i]] \in issued /\ [key |-> k, data |-> call[u].data] \in issued
    BY <2>3, <2>5, <2>6, SentinelAssumption DEF IssuedInv, FilesIssued, CallsIssued, Owns
  <2>8. used[k] = "atomic"
    BY <1>0, <2>7 DEF Once, UnusedInv
  <2>9. content[i] = call[u].data
    BY <2>7, <2>8 DEF WriterInv, OneBlob
  <2>10. pc'[u] = "cache"
    BY <2>1 DEF TypeOK
  <2> QED BY <2>2, <2>4, <2>6, <2>9, <2>10
<1> QED BY <1>2, <1>3, <1>4, ReaderStep DEF ReaderMoves

LEMMA OnceStep ==
  ASSUME TypeOK, CallInv, OwnInv, IssuedInv, UnusedInv, WriterInv, OnceInv, CacheMoves, [Next]_vars
  PROVE  OnceInv'
<1> SUFFICES ASSUME NEW k \in Keys, Once(k)'
             PROVE  (FileWhole(k) /\ ReadersWhole(k) /\ CacheWhole(k))'
  BY DEF OnceInv
<1>1. Once(k)
  BY OnceStays
<1> QED BY <1>1, FileWholeStep, ReadersWholeStep, CacheWholeStep

LEMMA WriterStep ==
  ASSUME TypeOK, CallInv, OwnInv, UnusedInv, WriterInv, [Next]_vars
  PROVE  WriterInv'
<1> SUFFICES ASSUME NEW k \in Keys, used'[k] = "atomic"
             PROVE  (OneBlob(k) /\ OneWriter(k) /\ Unseen(k))'
  BY DEF WriterInv
<1> QED BY OneBlobStep, OneWriterStep, UnseenStep

LEMMA RenamedStep ==
  ASSUME TypeOK, CallInv, IssuedInv, UnusedInv, WriterInv, RenamedInv, [Next]_vars
  PROVE  RenamedInv'
<1> USE SentinelAssumption, BoundsAssumption
    DEF TypeOK, CallInv, CallOK, RenamedInv, Writes, Go, Return, NoCall, diskVars, procVars, histVars
<1>1. ASSUME NEW t \in Threads, NEW op \in Writers, NEW k \in Keys, NEW d \in Data,
             WriteStart(t, op, k, d)
      PROVE  RenamedInv'
  BY <1>1 DEF WriteStart, IssuedInv, UnusedInv, WriterInv
<1>2. ASSUME NEW t \in Threads, NEW i \in Inodes, OpenPending(t, i)
      PROVE  RenamedInv'
  BY <1>2 DEF OpenPending
<1>3. ASSUME NEW t \in Threads, NEW i \in Inodes, OpenFinal(t, i)
      PROVE  RenamedInv'
  BY <1>3 DEF OpenFinal
<1>4. ASSUME NEW t \in Threads, OpenFails(t)
      PROVE  RenamedInv'
  BY <1>4 DEF OpenFails
<1>5. ASSUME NEW t \in Threads, Write(t)
      PROVE  RenamedInv'
  <2>1. /\ WriteDone(t, call[t].key, call[t].fd) /\ call'[t] = [call[t] EXCEPT !.fd = None]
        /\ pc'[t] = IF call[t].op = "save" THEN "cache" ELSE "rename"
    BY <1>5, WriteEffect
  <2>2. call'[t].op = call[t].op /\ call'[t].key = call[t].key
    BY <2>1 DEF Call
  <2>3. \A k \in Keys : used[k] = "atomic" /\ call[t].key = k => call[t].op # "save"
    BY <2>1 DEF WriterInv, OneWriter
  <2>4. ASSUME NEW k \in Keys, used[k] = "atomic", k \notin deleted, NEW u \in Threads,
               Writes(u, k)', pc'[u] = "cache"
        PROVE  final[k] # None
    <3>1. u # t
      BY <2>1, <2>2, <2>3, <2>4, ZenonT(60) DEF WriteDone
    <3>2. Writes(u, k) /\ pc[u] = "cache"
      BY <2>1, <2>4, <3>1 DEF WriteDone
    <3> QED BY <2>4, <3>2
  <2>5. UNCHANGED <<used, final, acked, deleted>>
    BY <2>1 DEF WriteDone
  <2> HIDE DEF Writes, TypeOK, CallInv
  <2> QED BY <2>4, <2>5
<1>6. ASSUME NEW t \in Threads, WriteFails(t)
      PROVE  RenamedInv'
  BY <1>6 DEF WriteFails
<1>7. ASSUME NEW t \in Threads, Rename(t)
      PROVE  RenamedInv'
  BY <1>7 DEF Rename
<1>8. ASSUME NEW t \in Threads, RenameFails(t)
      PROVE  RenamedInv'
  BY <1>8 DEF RenameFails
<1>9. ASSUME NEW t \in Threads, UpdateCache(t)
      PROVE  RenamedInv'
  BY <1>9 DEF UpdateCache
<1>10. ASSUME NEW t \in Threads, NEW k \in Keys, LoadHit(t, k)
      PROVE  RenamedInv'
  BY <1>10 DEF LoadHit
<1>11. ASSUME NEW t \in Threads, NEW k \in Keys, LoadMiss(t, k)
      PROVE  RenamedInv'
  BY <1>11 DEF LoadMiss
<1>12. ASSUME NEW t \in Threads, LoadOpen(t)
      PROVE  RenamedInv'
  BY <1>12 DEF LoadOpen
<1>13. ASSUME NEW t \in Threads, LoadNotFound(t)
      PROVE  RenamedInv'
  BY <1>13 DEF LoadNotFound
<1>14. ASSUME NEW t \in Threads, LoadRead(t)
      PROVE  RenamedInv'
  BY <1>14 DEF LoadRead
<1>15. ASSUME NEW t \in Threads, LoadFails(t)
      PROVE  RenamedInv'
  BY <1>15 DEF LoadFails
<1>16. ASSUME NEW t \in Threads, RecoverStart(t)
      PROVE  RenamedInv'
  BY <1>16 DEF RecoverStart
<1>17. ASSUME NEW t \in Threads, NEW k \in Keys, RecoverRemove(t, k)
      PROVE  RenamedInv'
  BY <1>17 DEF RecoverRemove
<1>18. ASSUME NEW t \in Threads, RecoverReturn(t)
      PROVE  RenamedInv'
  BY <1>18 DEF RecoverReturn
<1>19. ASSUME NEW k \in Keys, ExternalDelete(k)
      PROVE  RenamedInv'
  BY <1>19 DEF ExternalDelete
<1>20. CASE Crash
  BY <1>20 DEF Crash
<1>21. CASE UNCHANGED vars
  BY <1>21 DEF vars
<1> QED
  BY <1>1, <1>2, <1>3, <1>4, <1>5, <1>6, <1>7, <1>8, <1>9, <1>10, <1>11, <1>12, <1>13, <1>14, <1>15, <1>16, <1>17, <1>18, <1>19, <1>20, <1>21 DEF Next, Step

-----------------------------------------------------------------------------
LEMMA Initial ==
  ASSUME Init
  PROVE  IInv
<1> USE SentinelAssumption, BoundsAssumption DEF Init
<1>1. TypeOK /\ CallInv /\ CacheWellFormed
  BY DEF TypeOK, CallInv, CallOK, CacheWellFormed, NoCall, Call, Labels
<1>2. OwnInv /\ IssuedInv
  BY DEF OwnInv, Owns, IssuedInv, FilesIssued, CallsIssued, CacheIssued, NoCall
<1>3. UnusedInv /\ WriterInv /\ RenamedInv
  BY DEF UnusedInv, WriterInv, RenamedInv, Writes, NoCall
<1>4. OnceInv
  BY DEF OnceInv, FileWhole, ReadersWhole, CacheWhole, NoCall
<1> QED BY <1>1, <1>2, <1>3, <1>4 DEF IInv

LEMMA Inductive ==
  ASSUME IInv, [Next]_vars
  PROVE  IInv'
<1> USE DEF IInv
<1>1. CacheMoves
  BY CacheStep
<1>2. TypeOK' /\ CallInv' /\ CacheWellFormed'
  BY <1>1, TypeStep DEF CacheMoves
<1>3. OwnMoves
  BY <1>2, OwnStep
<1>4. OwnInv' /\ IssuedInv'
  BY <1>1, <1>3, OwnInvStep, IssuedStep
<1>5. UnusedInv' /\ WriterInv'
  BY UnusedStep, WriterStep
<1>6. OnceInv' /\ RenamedInv'
  BY <1>1, OnceStep, RenamedStep
<1> QED BY <1>2, <1>4, <1>5, <1>6

\* IInv holds in every reachable state: of the files, the calls, the cache and the
\* histories together, whatever the threads, the disk and a crash do.
THEOREM Invariance == Spec => []IInv
<1>1. Init => IInv
  BY Initial
<1>2. IInv /\ [Next]_vars => IInv'
  BY Inductive
<1> QED BY <1>1, <1>2, PTL DEF Spec

\* Types: every file, call, cache entry and history stays in its set, for every
\* interleaving of the calls, failures and crashes.
THEOREM TypeCorrect == Spec => []TypeOK
<1>1. IInv => TypeOK
  BY DEF IInv
<1> QED BY <1>1, Invariance, PTL

\* A checkpoint file made by one atomic_write is complete whenever it can be seen.
THEOREM CompleteCheckpoints == Spec => []CheckpointsAreComplete
<1>1. IInv => CheckpointsAreComplete
  BY DEF IInv, OnceInv, FileWhole, CheckpointsAreComplete
<1> QED BY <1>1, Invariance, PTL

\* What atomic_write acknowledged is on disk, under its name and whole, until it is
\* removed from outside.
THEOREM DurableAcknowledgements == Spec => []AckedDurable
<1>1. ASSUME IInv PROVE AckedDurable
  <2> SUFFICES ASSUME NEW a \in acked, Once(a.key), a.key \notin deleted
               PROVE  final[a.key] # None /\ content[final[a.key]] = a.data
    BY DEF AckedDurable
  <2> DEFINE k == a.key
             i == final[k]
  <2>1. a \in issued /\ a \in Blob /\ k \in Keys
    BY <1>1 DEF IInv, IssuedInv, TypeOK, Blob
  <2>2. used[k] = "atomic"
    BY <1>1, <2>1 DEF IInv, UnusedInv, Once
  <2>3. i # None
    BY <1>1, <2>1, <2>2 DEF IInv, RenamedInv
  <2>4. content[i] \in Data /\ i \in Inodes /\ Owns(k, i)
    BY <1>1, <2>1, <2>3 DEF IInv, OnceInv, FileWhole, TypeOK, Owns
  <2>5. [key |-> k, data |-> content[i]] \in issued
    BY <1>1, <2>1, <2>4, SentinelAssumption DEF IInv, IssuedInv, FilesIssued
  <2>6. [key |-> k, data |-> content[i]] = a
    BY <1>1, <2>1, <2>2, <2>5 DEF IInv, WriterInv, OneBlob
  <2> QED BY <2>3, <2>6
<1>2. IInv => AckedDurable
  BY <1>1
<1> QED BY <1>2, Invariance, PTL

\* A hit on such a key returns what its file holds.
THEOREM CoherentCache == Spec => []CacheCoherent
<1>1. ASSUME IInv PROVE CacheCoherent
  <2> SUFFICES ASSUME NEW k \in Keys, Once(k), NEW n \in Cached(k), final[k] # None
               PROVE  content[final[k]] = cache[n].data
    BY DEF CacheCoherent, Coherent
  <2> DEFINE i == final[k]
             d == cache[n].data
  <2>1. n \in DOMAIN cache /\ cache[n].key = k /\ cache[n] \in Entry
    BY <1>1 DEF IInv, TypeOK, Cached
  <2>2. content[i] \in Data /\ i \in Inodes /\ Owns(k, i) /\ d \in Data
    BY <1>1, <2>1 DEF IInv, OnceInv, FileWhole, CacheWhole, TypeOK, Owns
  <2>3. [key |-> k, data |-> content[i]] \in issued /\ cache[n] \in issued
    BY <1>1, <2>1, <2>2, SentinelAssumption DEF IInv, IssuedInv, FilesIssued, CacheIssued
  <2>4. used[k] = "atomic"
    BY <1>1, <2>3 DEF IInv, UnusedInv, Once
  <2>5. cache[n] = [key |-> k, data |-> content[i]]
    BY <1>1, <2>1, <2>3, <2>4 DEF IInv, WriterInv, OneBlob
  <2> QED BY <2>5
<1>2. IInv => CacheCoherent
  BY <1>1
<1> QED BY <1>2, Invariance, PTL

\* The list never outgrows kMaxCacheSize and holds no key twice.
THEOREM WellFormedCache == Spec => []CacheWellFormed
<1>1. IInv => CacheWellFormed
  BY DEF IInv
<1> QED BY <1>1, Invariance, PTL

\* No blob is found under a key it was not written for, however writers overlap.
THEOREM KeysKept == Spec => []BlobsKeepTheirKeys
<1>1. ASSUME IInv PROVE BlobsKeepTheirKeys
  <2>1. \A k \in Keys : final[k] # None => final[k] \in Inodes /\ Owns(k, final[k])
    BY <1>1 DEF IInv, TypeOK, Owns
  <2> QED BY <1>1, <2>1 DEF IInv, IssuedInv, FilesIssued, CacheIssued, BlobsKeepTheirKeys
<1>2. IInv => BlobsKeepTheirKeys
  BY <1>1
<1> QED BY <1>2, Invariance, PTL
=============================================================================
