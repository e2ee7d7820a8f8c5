--------------------------- MODULE AuditLogProofs ---------------------------
(***************************************************************************)
(* Proofs about AuditLog, for every set of operations, actors, metadata    *)
(* maps and clock readings and every length of log.  The argument is the   *)
(* invariant IInv: each record carries the hashes of its own content and   *)
(* of its predecessor, and no two records carry the same chain hash.       *)
(***************************************************************************)
EXTENDS AuditLog, FiniteSetTheorems, WellFoundedInduction, TLAPS

IsASeq(s) == \E S : s \in Seq(S)

SizeInv ==
    /\ IsASeq(records)
    /\ next_id = Len(records) + 1
    /\ genesis_created \in BOOLEAN
    /\ genesis_created <=> Len(records) # 0

ContentInv ==
    \A i \in 1..Len(records) :
        /\ records[i].record_id = i
        /\ records[i].operation \in Operations \union {<<"genesis">>}
        /\ records[i].actor_identity \in Actors \union {<<"system">>}
        /\ records[i].timestamp \in Times
        /\ records[i].metadata \in Metadatas \union {<<>>}

HashInv ==
    \A i \in 1..Len(records) :
        /\ records[i].content_hash = compute_content_hash(records[i])
        /\ records[i].chain_hash =
              compute_chain_hash(records[i].prev_hash, records[i].content_hash)
        /\ records[i].prev_hash = IF i = 1 THEN Zero ELSE records[i - 1].chain_hash

DistinctInv ==
    \A i, j \in 1..Len(records) : records[i].chain_hash = records[j].chain_hash => i = j

IInv == SizeInv /\ ContentInv /\ HashInv /\ DistinctInv

-----------------------------------------------------------------------------
\* What push_back does to a sequence of anything.
LEMMA PushBack ==
    ASSUME NEW s, NEW e, IsASeq(s)
    PROVE  /\ IsASeq(Append(s, e))
           /\ Len(s) \in Nat
           /\ DOMAIN s = 1..Len(s)
           /\ Len(Append(s, e)) = Len(s) + 1
           /\ \A i \in 1..Len(s) : Append(s, e)[i] = s[i]
           /\ Append(s, e)[Len(s) + 1] = e
<1>1. PICK S : s \in Seq(S)
  BY DEF IsASeq
<1>2. s \in Seq(S \union {e})
  BY <1>1
<1>3. Append(s, e) \in Seq(S \union {e})
  BY <1>2
<1> QED
  BY <1>2, <1>3 DEF IsASeq

\* The fields of the record create_genesis and append build, and that its
\* content hash covers the content it ends up with.
LEMMA RecordFields ==
    ASSUME NEW id, NEW op, NEW actor, NEW time, NEW meta, NEW prev, NEW r,
           r = NewRecord(id, op, actor, time, meta, prev)
    PROVE  /\ r.record_id = id
           /\ r.operation = op
           /\ r.actor_identity = actor
           /\ r.timestamp = time
           /\ r.metadata = meta
           /\ r.prev_hash = prev
           /\ r.content_hash = compute_content_hash(r)
           /\ r.chain_hash = compute_chain_hash(prev, r.content_hash)
BY DEF NewRecord, compute_content_hash

\* Two chain hashes are equal only over the same predecessor, and none is the
\* genesis record's "0".
LEMMA ChainHashInjective ==
    ASSUME NEW p, NEW c, NEW q, NEW d
    PROVE  /\ compute_chain_hash(p, c) # Zero
           /\ compute_chain_hash(p, c) = compute_chain_hash(q, d) => p = q
BY DEF compute_chain_hash, Sha256, Zero

\* The predecessor a new record gets.
Predecessor(rs) == IF Len(rs) = 0 THEN Zero ELSE LastHash(rs)

\* A new record chained to the last one keeps the chain hashes distinct: a chain
\* hash met before would have to belong to a record with the same predecessor.
LEMMA PushPreserves ==
    ASSUME IInv,
           NEW op \in Operations \union {<<"genesis">>},
           NEW actor \in Actors \union {<<"system">>},
           NEW time \in Times,
           NEW meta \in Metadatas \union {<<>>},
           records' = Append(records,
                        NewRecord(next_id, op, actor, time, meta, Predecessor(records))),
           next_id' = next_id + 1,
           genesis_created' = TRUE
    PROVE  IInv'
<1> DEFINE n == Len(records)
           r == NewRecord(next_id, op, actor, time, meta, Predecessor(records))
<1> USE DEF IInv
<1>1. /\ IsASeq(records') /\ n \in Nat /\ Len(records') = n + 1
      /\ \A i \in 1..n : records'[i] = records[i]
      /\ records'[n + 1] = r
  BY PushBack DEF SizeInv
<1>2. /\ r.record_id = n + 1
      /\ r.operation = op /\ r.actor_identity = actor
      /\ r.timestamp = time /\ r.metadata = meta
      /\ r.prev_hash = Predecessor(records)
      /\ r.content_hash = compute_content_hash(r)
      /\ r.chain_hash = compute_chain_hash(Predecessor(records), r.content_hash)
  BY RecordFields DEF SizeInv
<1> HIDE DEF r
<1>3. \A i \in 1..(n + 1) : i \in 1..n \/ i = n + 1
  BY <1>1
<1>4. SizeInv'
  BY <1>1 DEF SizeInv
<1>5. ContentInv'
  BY <1>1, <1>2, <1>3 DEF ContentInv
<1>6. Predecessor(records) = IF n + 1 = 1 THEN Zero ELSE records[n].chain_hash
  BY <1>1 DEF Predecessor, LastHash
<1>7. HashInv'
  <2> SUFFICES ASSUME NEW i \in 1..(n + 1)
               PROVE  /\ records'[i].content_hash = compute_content_hash(records'[i])
                      /\ records'[i].chain_hash =
                           compute_chain_hash(records'[i].prev_hash, records'[i].content_hash)
                      /\ records'[i].prev_hash =
                           IF i = 1 THEN Zero ELSE records'[i - 1].chain_hash
    BY <1>1 DEF HashInv, compute_content_hash, MetadataText
  <2>1. CASE i \in 1..n
    <3>1. i # 1 => i - 1 \in 1..n
      BY <1>1, <2>1
    <3> QED
      BY <1>1, <2>1, <3>1 DEF HashInv
  <2>2. CASE i = n + 1
    <3>1. i # 1 => i - 1 \in 1..n /\ i - 1 = n
      BY <1>1, <2>2
    <3> QED
      BY <1>1, <1>2, <1>6, <2>2, <3>1
  <2> QED
    BY <1>3, <2>1, <2>2
<1>8. \A i \in 1..n : records[i].chain_hash # r.chain_hash
  <2> SUFFICES ASSUME NEW i \in 1..n, records[i].chain_hash = r.chain_hash
               PROVE  FALSE
    OBVIOUS
  <2>1. n # 0 /\ n \in 1..n /\ Predecessor(records) = records[n].chain_hash
    BY <1>1, <1>6
  <2>2. records[i].prev_hash = records[n].chain_hash
    BY <1>2, <2>1, ChainHashInjective DEF HashInv
  <2>3. CASE i = 1
    BY <2>1, <2>2, <2>3, ChainHashInjective DEF HashInv
  <2>4. CASE i # 1
    <3>1. i - 1 \in 1..n /\ i - 1 # n
      BY <1>1, <2>4
    <3>2. records[i - 1].chain_hash = records[n].chain_hash
      BY <2>2, <2>4 DEF HashInv
    <3> QED
      BY <2>1, <3>1, <3>2 DEF DistinctInv
  <2> QED
    BY <2>3, <2>4
<1>9. DistinctInv'
  <2> SUFFICES ASSUME NEW i \in 1..(n + 1), NEW j \in 1..(n + 1),
                      records'[i].chain_hash = records'[j].chain_hash
               PROVE  i = j
    BY <1>1 DEF DistinctInv
  <2> QED
    BY <1>1, <1>3, <1>8 DEF DistinctInv
<1> QED
  BY <1>4, <1>5, <1>7, <1>9

LEMMA Inductive == Spec => []IInv
<1>1. Init => IInv
  <2> SUFFICES ASSUME Init PROVE IInv
    OBVIOUS
  <2>1. IsASeq(records) /\ Len(records) = 0
    <3>1. records \in Seq({}) /\ Len(records) = 0
      BY DEF Init
    <3> QED
      BY <3>1 DEF IsASeq
  <2>2. SizeInv
    <3>1. genesis_created = FALSE /\ next_id = Len(records) + 1 /\ ~(Len(records) # 0)
      BY <2>1 DEF Init
    <3> QED
      BY <2>1, <3>1, Zenon DEF SizeInv
  <2>3. 1..Len(records) = {}
    BY <2>1
  <2> QED
    BY <2>2, <2>3 DEF IInv, ContentInv, HashInv, DistinctInv
<1>2. IInv /\ [Next]_vars => IInv'
  <2> SUFFICES ASSUME IInv, [Next]_vars PROVE IInv'
    OBVIOUS
  <2>1. ASSUME NEW time \in Times, create_genesis(time) PROVE IInv'
    <3>1. Predecessor(records) = Zero
      BY <2>1 DEF create_genesis, IInv, SizeInv, Predecessor
    <3> QED
      BY <2>1, <3>1, PushPreserves DEF create_genesis
  <2>2. ASSUME NEW op \in Operations, NEW actor \in Actors, NEW meta \in Metadatas,
               NEW time \in Times, append(op, actor, meta, time)
        PROVE  IInv'
    <3>1. Predecessor(records) = LastHash(records) /\ genesis_created' = TRUE
      BY <2>2 DEF append, IInv, SizeInv, Predecessor
    <3> QED
      BY <2>2, <3>1, PushPreserves DEF append
  <2>3. CASE UNCHANGED vars
    <3>1. SizeInv'
      BY <2>3 DEF vars, IInv, SizeInv, IsASeq
    <3>2. ContentInv' /\ DistinctInv'
      BY <2>3 DEF vars, IInv, ContentInv, DistinctInv
    <3>3. HashInv'
      BY <2>3 DEF vars, IInv, HashInv, compute_content_hash, MetadataText
    <3> QED
      BY <3>1, <3>2, <3>3 DEF IInv
  <2> QED
    BY <2>1, <2>2, <2>3 DEF Next
<1> QED
  BY <1>1, <1>2, PTL DEF Spec

-----------------------------------------------------------------------------
\* Every record of the log holds values the callers supplied and an id that
\* generate_id has handed out.
THEOREM TypeCorrect == Spec => []TypeOK
<1>1. IInv => TypeOK
  <2> SUFFICES ASSUME IInv PROVE TypeOK
    OBVIOUS
  <2>1. Len(records) \in Nat /\ DOMAIN records = 1..Len(records)
    BY PushBack DEF IInv, SizeInv
  <2> QED
    BY <2>1 DEF IInv, SizeInv, ContentInv, TypeOK
<1> QED
  BY <1>1, Inductive, PTL

\* verify_chain accepts every log that create_genesis and append can build.
THEOREM EveryLogVerifies == Spec => []ChainVerifies
<1>1. IInv => ChainVerifies
  <2> SUFFICES ASSUME IInv, NEW i \in 2..Len(records)
               PROVE  LinkOk(records, i) /\ ContentOk(records, i) /\ ChainOk(records, i)
    BY DEF ChainVerifies, verify_chain
  <2>1. Len(records) \in Nat
    BY PushBack DEF IInv, SizeInv
  <2>2. i \in 1..Len(records) /\ i # 1
    BY <2>1
  <2> QED
    BY <2>2 DEF IInv, HashInv, LinkOk, ContentOk, ChainOk
<1> QED
  BY <1>1, Inductive, PTL

\* detect_forks reports nothing on such a log.
THEOREM NoForkReported == Spec => []NoForks
<1>1. IInv => NoForks
  <2> SUFFICES ASSUME IInv, NEW k \in DOMAIN records
               PROVE  ~(Cardinality({i \in DOMAIN records :
                            records[i].prev_hash = records[k].prev_hash}) > 1)
    BY DEF NoForks, detect_forks
  <2>1. Len(records) \in Nat /\ DOMAIN records = 1..Len(records)
    BY PushBack DEF IInv, SizeInv
  <2>2. ASSUME NEW i \in DOMAIN records, records[i].prev_hash = records[k].prev_hash
        PROVE  i = k
    <3>1. CASE i = 1 \/ k = 1
      <4>1. \A j \in 1..Len(records) : records[j].chain_hash # Zero
        BY ChainHashInjective DEF IInv, HashInv
      <4>2. i # 1 => i - 1 \in 1..Len(records)
        BY <2>1
      <4>3. k # 1 => k - 1 \in 1..Len(records)
        BY <2>1
      <4> QED
        BY <2>1, <2>2, <3>1, <4>1, <4>2, <4>3 DEF IInv, HashInv
    <3>2. CASE i # 1 /\ k # 1
      <4>1. i - 1 \in 1..Len(records) /\ k - 1 \in 1..Len(records)
        BY <2>1, <3>2
      <4>2. records[i - 1].chain_hash = records[k - 1].chain_hash
        BY <2>1, <2>2, <3>2 DEF IInv, HashInv
      <4>3. i - 1 = k - 1
        BY <4>1, <4>2 DEF IInv, DistinctInv
      <4> QED
        BY <2>1, <4>1, <4>3
    <3> QED
      BY <3>1, <3>2
  <2>3. {i \in DOMAIN records : records[i].prev_hash = records[k].prev_hash} = {k}
    BY <2>2
  <2>4. Cardinality({k}) = 1
    BY FS_Singleton
  <2> QED
    BY <2>3, <2>4
<1> QED
  BY <1>1, Inductive, PTL

-----------------------------------------------------------------------------
(***************************************************************************)
(* Tampering.  Here a change is one that the content hash tells apart;     *)
(* which ones it does is shown below.                                      *)
(***************************************************************************)
Altered(i, op, actor, meta, time) ==
    [records EXCEPT ![i] = [@ EXCEPT !.operation = op, !.actor_identity = actor,
                                     !.metadata = meta, !.timestamp = time]]

TamperingRefused ==
    \A i \in 2..Len(records) :
        /\ \A op \in Operations, actor \in Actors, meta \in Metadatas, time \in Times :
              LET altered == Altered(i, op, actor, meta, time)
              IN compute_content_hash(altered[i]) # compute_content_hash(records[i]) =>
                    ~verify_chain(altered)
        /\ i < Len(records) => ~verify_chain(RemoveAt(records, i))

\* What vector::erase does to a sequence of anything.
LEMMA Removal ==
    ASSUME NEW s, IsASeq(s), NEW i \in 2..Len(s), i < Len(s)
    PROVE  /\ Len(RemoveAt(s, i)) = Len(s) - 1 /\ Len(s) \in Nat
           /\ RemoveAt(s, i)[i - 1] = s[i - 1]
           /\ RemoveAt(s, i)[i] = s[i + 1]
<1>1. PICK S : s \in Seq(S)
  BY DEF IsASeq
<1>2. PICK n \in Nat : n = Len(s)
  BY <1>1
<1> DEFINE a == SubSeq(s, 1, i - 1)
           b == SubSeq(s, i + 1, n)
<1>3. a \in Seq(S) /\ Len(a) = i - 1 /\ a[i - 1] = s[i - 1]
  BY <1>1, <1>2
<1>4. b \in Seq(S) /\ Len(b) = n - i /\ b[1] = s[i + 1]
  BY <1>1, <1>2
<1>5. RemoveAt(s, i) = a \o b
  BY <1>2 DEF RemoveAt
<1> HIDE DEF a, b
<1>6. /\ Len(a \o b) = Len(a) + Len(b)
      /\ (a \o b)[i - 1] = a[i - 1]
      /\ (a \o b)[i] = b[1]
  BY <1>2, <1>3, <1>4
<1> QED BY <1>2, <1>3, <1>4, <1>5, <1>6

LEMMA RefusesTampering == IInv => TamperingRefused
<1> SUFFICES ASSUME IInv, NEW i \in 2..Len(records)
             PROVE  /\ \A op \in Operations, actor \in Actors, meta \in Metadatas,
                          time \in Times :
                          LET altered == Altered(i, op, actor, meta, time)
                          IN compute_content_hash(altered[i])
                                 # compute_content_hash(records[i]) =>
                               ~verify_chain(altered)
                    /\ i < Len(records) => ~verify_chain(RemoveAt(records, i))
  BY DEF TamperingRefused
<1>1. PICK n \in Nat : n = Len(records) /\ DOMAIN records = 1..n
  BY PushBack DEF IInv, SizeInv
<1>2. ASSUME NEW op \in Operations, NEW actor \in Actors, NEW meta \in Metadatas,
             NEW time \in Times,
             compute_content_hash(Altered(i, op, actor, meta, time)[i])
                 # compute_content_hash(records[i])
      PROVE  ~verify_chain(Altered(i, op, actor, meta, time))
  <2> DEFINE r == records[i]
             t == [r EXCEPT !.operation = op, !.actor_identity = actor,
                            !.metadata = meta, !.timestamp = time]
             altered == Altered(i, op, actor, meta, time)
  <2>1. altered = [records EXCEPT ![i] = t]
    BY DEF Altered
  <2>2. t.content_hash = r.content_hash
    OBVIOUS
  <2> HIDE DEF t, altered
  <2>3. DOMAIN altered = 1..n /\ altered[i] = t
    BY <1>1, <2>1
  <2>4. i \in 2..Len(altered)
    BY <1>1, <2>3
  <2>5. r.content_hash = compute_content_hash(r)
    BY <1>1 DEF IInv, HashInv
  <2>6. ~ContentOk(altered, i)
    BY <1>2, <2>2, <2>3, <2>5 DEF ContentOk, altered
  <2> QED BY <2>4, <2>6 DEF verify_chain, altered
<1>3. ASSUME i < Len(records) PROVE ~verify_chain(RemoveAt(records, i))
  <2> DEFINE rest == RemoveAt(records, i)
  <2>1. Len(rest) = n - 1 /\ rest[i - 1] = records[i - 1] /\ rest[i] = records[i + 1]
    BY <1>1, <1>3, Removal DEF IInv, SizeInv
  <2> HIDE DEF rest
  <2>2. records[i + 1].prev_hash = records[i].chain_hash
    <3>1. i + 1 \in 1..Len(records) /\ i + 1 # 1 /\ (i + 1) - 1 = i
      BY <1>1, <1>3
    <3> QED BY <3>1 DEF IInv, HashInv
  <2>3. records[i].chain_hash # records[i - 1].chain_hash
    <3>1. i \in 1..Len(records) /\ i - 1 \in 1..Len(records) /\ i # i - 1
      BY <1>1
    <3> QED BY <3>1 DEF IInv, DistinctInv
  <2>4. ~LinkOk(rest, i) /\ i \in 2..Len(rest)
    BY <1>1, <1>3, <2>1, <2>2, <2>3 DEF LinkOk
  <2> QED BY <2>4 DEF verify_chain, rest
<1> QED BY <1>2, <1>3

\* verify_chain refuses a log of which a record after the genesis record has got
\* another content that the content hash tells from the one logged, and one that
\* has lost a record between two others, however long the log is.
THEOREM TamperingIsRefused == Spec => []TamperingRefused
BY RefusesTampering, Inductive, PTL

-----------------------------------------------------------------------------
(***************************************************************************)
(* scan is a fold over the log.  As in PipelineProofs, the fold is shown   *)
(* to exist and to take the positions in order; the argument about scan is *)
(* then one about one more record.                                         *)
(***************************************************************************)
\* A set of natural numbers that is not empty has a smallest one.
LEMMA Smallest ==
  ASSUME NEW B \in SUBSET Nat, B # {}
  PROVE  \E m \in B : \A k \in B : m <= k
<1> DEFINE R == OpToRel(<, Nat)
<1>1. IsWellFoundedOn(R, Nat)
  BY NatLessThanWellFounded
<1>2. \A x, y \in Nat : x < y => <<x, y>> \in R
  BY DEF OpToRel
<1> HIDE DEF R
<1>3. \E m \in B : \A k \in B : ~(<<k, m>> \in R)
  BY ONLY <1>1, WFMin, B \subseteq Nat, B # {}
<1>4. PICK m \in B : \A k \in B : ~(<<k, m>> \in R)
  BY <1>3
<1>5. \A k \in B : ~(k < m)
  BY <1>2, <1>4
<1>6. \A k \in B : m <= k
  BY <1>5
<1> QED BY <1>6

\* A set of natural numbers that is not empty and has a bound has a largest one.
LEMMA Largest ==
  ASSUME NEW n \in Nat, NEW s \in SUBSET (1..n), s # {}
  PROVE  Max(s) \in s /\ \A x \in s : x <= Max(s)
<1> DEFINE Bounds == {u \in Nat : \A x \in s : x <= u}
<1>1. n \in Bounds
  OBVIOUS
<1>2. PICK u \in Bounds : \A w \in Bounds : u <= w
  BY <1>1, Smallest
<1>3. u \in s
  <2> SUFFICES ASSUME u \notin s PROVE FALSE
    OBVIOUS
  <2>1. \A x \in s : x <= u - 1 /\ x >= 1
    BY <1>2
  <2>2. u - 1 \in Nat
    <3>1. PICK x \in s : TRUE
      OBVIOUS
    <3>2. x \in 1..n /\ u \in Nat
      OBVIOUS
    <3> HIDE DEF Bounds
    <3> QED BY <2>1, <3>1, <3>2
  <2>3. u - 1 \in Bounds
    BY <2>1, <2>2
  <2> QED BY <2>3, <1>2
<1>4. \E x \in s : \A y \in s : x >= y
  BY <1>3
<1> QED BY <1>4 DEF Max

\* f folds step over the sets of numbers up to n, the largest number last.
Folding(f, n, T, base, step) ==
    /\ f \in [SUBSET (1..n) -> T]
    /\ \A s \in SUBSET (1..n) :
          f[s] = IF s = {} THEN base ELSE step[<<Max(s), f[s \ {Max(s)}]>>]

\* A fold over sets of numbers up to m - 1 extends to the sets of numbers up to m.
LEMMA FoldExtends ==
  ASSUME NEW T, NEW base \in T, NEW m \in Nat, m # 0, NEW step \in [(1..m) \X T -> T],
         NEW g, Folding(g, m - 1, T, base, step)
  PROVE  \E it : Folding(it, m, T, base, step)
<1>0. /\ g \in [SUBSET (1..(m - 1)) -> T]
      /\ \A s \in SUBSET (1..(m - 1)) :
            g[s] = IF s = {} THEN base ELSE step[<<Max(s), g[s \ {Max(s)}]>>]
  BY DEF Folding
<1> DEFINE it == [s \in SUBSET (1..m) |-> IF m \in s THEN step[<<m, g[s \ {m}]>>] ELSE g[s]]
<1>1. \A s \in SUBSET (1..m) : s \ {m} \in SUBSET (1..(m - 1)) /\ (m \notin s => s \in SUBSET (1..(m - 1)))
  OBVIOUS
<1>2. it \in [SUBSET (1..m) -> T]
  BY <1>0, <1>1
<1>3. ASSUME NEW s \in SUBSET (1..m)
      PROVE  it[s] = IF s = {} THEN base ELSE step[<<Max(s), it[s \ {Max(s)}]>>]
  <2>0. s # {} => Max(s) \in s /\ \A x \in s : x <= Max(s)
    BY Largest
  <2>1. CASE m \in s
    <3>1. Max(s) = m
      <4>1. Max(s) \in s /\ m <= Max(s)
        BY <2>0, <2>1
      <4>2. Max(s) \in 1..m
        BY <4>1
      <4> QED BY ONLY <4>1, <4>2, m \in Nat
    <3>2. it[s \ {m}] = g[s \ {m}] /\ it[s] = step[<<m, g[s \ {m}]>>]
      BY <2>1, <1>1
    <3> QED BY <3>1, <3>2, <2>1
  <2>2. CASE m \notin s /\ s # {}
    <3>1. s \ {Max(s)} \in SUBSET (1..m) /\ m \notin s \ {Max(s)}
      BY <2>2
    <3>2. it[s] = g[s] /\ it[s \ {Max(s)}] = g[s \ {Max(s)}]
      BY <2>2, <3>1
    <3> QED BY <2>2, <3>2, <1>0, <1>1
  <2>3. CASE s = {}
    <3>1. it[s] = g[s] /\ s \in SUBSET (1..(m - 1))
      BY <2>3
    <3> QED BY <3>1, <2>3, <1>0
  <2> QED BY <2>1, <2>2, <2>3
<1> HIDE DEF it
<1> QED BY <1>2, <1>3 DEF Folding

\* There is a fold over the positions 1..n, whatever its step.
LEMMA FoldExists ==
  ASSUME NEW T, NEW base \in T, NEW n \in Nat, NEW step \in [(1..n) \X T -> T]
  PROVE  \E it : Folding(it, n, T, base, step)
<1> DEFINE P(m) == \E it : Folding(it, m, T, base, step)
           Bad == {m \in 0..n : ~P(m)}
<1>1. P(0)
  <2> DEFINE h == [s \in SUBSET (1..0) |-> base]
  <2>1. h \in [SUBSET (1..0) -> T] /\ \A s \in SUBSET (1..0) : h[s] = base
    OBVIOUS
  <2>2. \A s \in SUBSET (1..0) : s = {}
    OBVIOUS
  <2> HIDE DEF h
  <2>3. Folding(h, 0, T, base, step)
    BY <2>1, <2>2 DEF Folding
  <2> QED BY <2>3
<1>2. ASSUME NEW m \in 1..n, P(m - 1) PROVE P(m)
  <2>1. PICK g : Folding(g, m - 1, T, base, step)
    BY <1>2
  <2> DEFINE upto == [p \in (1..m) \X T |-> step[p]]
  <2>2. upto \in [(1..m) \X T -> T]
    OBVIOUS
  <2>3. m \in Nat /\ m # 0
    OBVIOUS
  <2>4. \A s \in SUBSET (1..m) : s # {} => Max(s) \in s
    BY ONLY <2>3, Largest
  <2>5. SUBSET (1..(m - 1)) \subseteq SUBSET (1..m)
    OBVIOUS
  <2>6. ASSUME NEW s \in SUBSET (1..m), s # {}, NEW x \in T
        PROVE  upto[<<Max(s), x>>] = step[<<Max(s), x>>]
    BY <2>4, <2>6
  <2> HIDE DEF upto
  <2>7. Folding(g, m - 1, T, base, upto)
    <3>1. g \in [SUBSET (1..(m - 1)) -> T]
      BY <2>1 DEF Folding
    <3>2. ASSUME NEW s \in SUBSET (1..(m - 1)), s # {}
          PROVE  g[s] = upto[<<Max(s), g[s \ {Max(s)}]>>]
      <4>1. s \ {Max(s)} \in SUBSET (1..(m - 1)) /\ s \in SUBSET (1..m)
        BY <2>5
      <4>2. g[s \ {Max(s)}] \in T
        BY <4>1, <3>1
      <4>3. g[s] = step[<<Max(s), g[s \ {Max(s)}]>>]
        BY <3>2, <2>1 DEF Folding
      <4> QED BY <4>1, <4>2, <4>3, <3>2, <2>6
    <3>3. {} \in SUBSET (1..(m - 1)) => g[{}] = base
      BY <2>1 DEF Folding
    <3> QED BY <3>1, <3>2, <3>3 DEF Folding
  <2>8. PICK it : Folding(it, m, T, base, upto)
    BY ONLY <2>2, <2>3, <2>7, base \in T, FoldExtends
  <2>9. Folding(it, m, T, base, step)
    <3>1. it \in [SUBSET (1..m) -> T]
      BY <2>8 DEF Folding
    <3>2. ASSUME NEW s \in SUBSET (1..m), s # {}
          PROVE  it[s] = step[<<Max(s), it[s \ {Max(s)}]>>]
      <4>1. it[s \ {Max(s)}] \in T
        BY <3>1
      <4>2. it[s] = upto[<<Max(s), it[s \ {Max(s)}]>>]
        BY <3>2, <2>8 DEF Folding
      <4> QED BY <4>1, <4>2, <3>2, <2>6
    <3>3. {} \in SUBSET (1..m) => it[{}] = base
      BY <2>8 DEF Folding
    <3> QED BY <3>1, <3>2, <3>3 DEF Folding
  <2> QED BY <2>9
<1> HIDE DEF P
<1>3. ASSUME NEW m \in Bad, \A k \in Bad : m <= k PROVE FALSE
  <2>1. m # 0
    BY <1>1
  <2>2. m \in 1..n /\ m - 1 \in 0..n /\ m - 1 \notin Bad
    BY <2>1, <1>3
  <2> QED BY <1>2, <2>2
<1>4. Bad \in SUBSET Nat
  OBVIOUS
<1>5. Bad = {} => P(n)
  OBVIOUS
<1> HIDE DEF Bad
<1>6. P(n)
  BY <1>3, <1>4, <1>5, Smallest
<1> QED BY <1>6 DEF P

\* What a fold does with the positions up to i.
LEMMA LastPosition ==
  ASSUME NEW n \in Nat, NEW i \in 1..n
  PROVE  /\ 1..i \in SUBSET (1..n) /\ 1..i # {}
         /\ Max(1..i) = i /\ (1..i) \ {i} = 1..(i - 1)
<1>1. 1..i \in SUBSET (1..n) /\ i \in 1..i
  OBVIOUS
<1>2. Max(1..i) \in 1..i /\ \A x \in 1..i : x <= Max(1..i)
  BY <1>1, Largest
<1>3. Max(1..i) = i
  BY <1>1, <1>2
<1>4. (1..i) \ {i} = 1..(i - 1)
  OBVIOUS
<1> QED BY <1>1, <1>3, <1>4

\* As long as f yields values, it goes from 1..(i - 1) to 1..i by a step.
Stepping(f, n, T, base, step) ==
    /\ f[{}] = base
    /\ \A i \in 1..n : f[1..(i - 1)] \in T => f[1..i] = step[<<i, f[1..(i - 1)]>>]

\* acc[i] is what step has made of base after i positions.
Chain(acc, n, T, base, step) ==
    /\ acc \in [0..n -> T] /\ acc[0] = base
    /\ \A i \in 1..n : acc[i] = step[<<i, acc[i - 1]>>]

ResultsAfter(f, n) == [i \in 0..n |-> f[1..i]]

\* Such a fold takes the positions one by one, from the first to the last.
LEMMA FoldChain ==
  ASSUME NEW T, NEW base \in T, NEW n \in Nat, NEW step \in [(1..n) \X T -> T],
         NEW f, Stepping(f, n, T, base, step)
  PROVE  Chain(ResultsAfter(f, n), n, T, base, step)
<1> DEFINE acc == [i \in 0..n |-> f[1..i]]
           Bad == {i \in 0..n : f[1..i] \notin T}
<1>1. f[1..0] = base
  <2>1. 1..0 = {}
    OBVIOUS
  <2> QED BY <2>1 DEF Stepping
<1>2. ASSUME NEW i \in Bad, \A k \in Bad : i <= k PROVE FALSE
  <2>1. i # 0
    BY <1>1
  <2>2. i \in 1..n /\ i - 1 \in 0..n /\ i - 1 \notin Bad
    BY <2>1, <1>2
  <2>3. f[1..(i - 1)] \in T
    BY <2>2
  <2>4. step[<<i, f[1..(i - 1)]>>] \in T
    BY <2>2, <2>3
  <2>5. f[1..i] = step[<<i, f[1..(i - 1)]>>]
    BY <2>2, <2>3 DEF Stepping
  <2> QED BY <2>2, <2>4, <2>5
<1>3. Bad \in SUBSET Nat
  OBVIOUS
<1>4. Bad = {} => acc \in [0..n -> T] /\ \A i \in 0..n : f[1..i] \in T
  OBVIOUS
<1> HIDE DEF Bad
<1>5. acc \in [0..n -> T] /\ \A i \in 0..n : f[1..i] \in T
  BY <1>2, <1>3, <1>4, Smallest
<1>6. acc[0] = base /\ \A i \in 1..n : acc[i] = step[<<i, acc[i - 1]>>]
  BY <1>1, <1>5 DEF Stepping
<1>7. ResultsAfter(f, n) = acc
  BY DEF ResultsAfter
<1> HIDE DEF acc
<1> QED BY <1>5, <1>6, <1>7 DEF Chain

-----------------------------------------------------------------------------
\* The result of a scan after one more record.
ScanRow(result, r, from, to, limit) ==
    IF \/ r.timestamp < from \/ r.timestamp > to
       \/ limit > 0 /\ Len(result) >= limit
    THEN result ELSE Append(result, r)

\* acc[i] is the result of a scan after the first i records.
ScannedUpTo(acc, T, rs, from, to, limit) ==
    /\ acc \in [0..Len(rs) -> Seq(T)] /\ acc[0] = <<>>
    /\ acc[Len(rs)] = scan(rs, from, to, limit)
    /\ \A i \in 1..Len(rs) : acc[i] = ScanRow(acc[i - 1], rs[i], from, to, limit)

\* A scan goes through the records one by one.
LEMMA ScanChain ==
  ASSUME NEW T, NEW rs \in Seq(T), NEW from, NEW to, NEW limit
  PROVE  \E acc : ScannedUpTo(acc, T, rs, from, to, limit)
<1>1. PICK n \in Nat : n = Len(rs) /\ DOMAIN rs = 1..n
  OBVIOUS
<1>2. \A i \in 1..n : rs[i] \in T
  BY <1>1
<1> DEFINE g(h) == [s \in SUBSET (1..n) |->
                      IF s = {} THEN <<>> ELSE ScanRow(h[s \ {Max(s)}], rs[Max(s)], from, to, limit)]
           f == CHOOSE h : h = g(h)
           step == [p \in (1..n) \X Seq(T) |-> ScanRow(p[2], rs[p[1]], from, to, limit)]
<1>3. \A i \in 1..n, x \in Seq(T) : ScanRow(x, rs[i], from, to, limit) \in Seq(T)
  BY <1>2 DEF ScanRow
<1>4. scan(rs, from, to, limit) = f[1..n]
  BY <1>1 DEF ScanRow, scan, FoldLeft, MapThenFoldSet
<1>5. step \in [(1..n) \X Seq(T) -> Seq(T)] /\ <<>> \in Seq(T)
  <2>1. \A p \in (1..n) \X Seq(T) : ScanRow(p[2], rs[p[1]], from, to, limit) \in Seq(T)
    BY <1>3
  <2>2. step \in [(1..n) \X Seq(T) -> Seq(T)]
    BY <2>1
  <2>3. <<>> \in Seq(T)
    OBVIOUS
  <2> QED BY <2>2, <2>3
<1>6. \A i \in 1..n, x \in Seq(T) : step[<<i, x>>] = ScanRow(x, rs[i], from, to, limit)
  OBVIOUS
<1> HIDE DEF step
<1>7. PICK it : Folding(it, n, Seq(T), <<>>, step)
  BY <1>5, FoldExists
<1>8. it = g(it)
  <2>1. it \in [SUBSET (1..n) -> Seq(T)]
    BY <1>7 DEF Folding
  <2>2. ASSUME NEW s \in SUBSET (1..n), s # {}
        PROVE  it[s] = ScanRow(it[s \ {Max(s)}], rs[Max(s)], from, to, limit)
    <3>1. Max(s) \in 1..n /\ it[s \ {Max(s)}] \in Seq(T)
      BY <2>1, <2>2, Largest
    <3>2. it[s] = step[<<Max(s), it[s \ {Max(s)}]>>]
      BY <1>7, <2>2 DEF Folding
    <3> QED BY <3>1, <3>2, <1>6
  <2>3. {} \in SUBSET (1..n) => it[{}] = <<>>
    BY <1>7 DEF Folding
  <2> QED BY <2>1, <2>2, <2>3
<1>9. f = g(f)
  BY <1>8
<1> HIDE DEF f
<1>10. f[{}] = <<>>
  BY <1>9
<1>11. ASSUME NEW i \in 1..n, f[1..(i - 1)] \in Seq(T)
       PROVE  f[1..i] = step[<<i, f[1..(i - 1)]>>]
  <2>1. /\ 1..i \in SUBSET (1..n) /\ 1..i # {}
        /\ Max(1..i) = i /\ (1..i) \ {i} = 1..(i - 1)
    BY LastPosition
  <2>2. f[1..i] = ScanRow(f[1..(i - 1)], rs[i], from, to, limit)
    BY <1>9, <2>1
  <2> QED BY <2>2, <1>6, <1>11
<1> DEFINE acc == ResultsAfter(f, n)
<1>12. Chain(acc, n, Seq(T), <<>>, step)
  <2>1. Stepping(f, n, Seq(T), <<>>, step)
    BY <1>10, <1>11 DEF Stepping
  <2> QED BY <1>5, <2>1, FoldChain
<1>13. acc[n] = f[1..n]
  BY DEF ResultsAfter
<1> HIDE DEF acc
<1>14. /\ acc \in [0..n -> Seq(T)] /\ acc[0] = <<>>
       /\ \A i \in 1..n : acc[i] = step[<<i, acc[i - 1]>>]
  BY <1>12 DEF Chain
<1>15. ASSUME NEW i \in 1..n PROVE acc[i] = ScanRow(acc[i - 1], rs[i], from, to, limit)
  <2>1. i - 1 \in 0..n
    OBVIOUS
  <2>2. acc[i - 1] \in Seq(T) /\ acc[i] = step[<<i, acc[i - 1]>>]
    BY <2>1, <1>14
  <2> QED BY <2>2, <1>6
<1>16. ScannedUpTo(acc, T, rs, from, to, limit)
  BY <1>1, <1>4, <1>13, <1>14, <1>15 DEF ScannedUpTo
<1> QED BY <1>16

\* The positions up to m whose records are in the interval.
Hits(rs, from, to, m) == {i \in 1..m : rs[i].timestamp \in from..to}

\* The records a scan returns of c in the interval.
Quota(c, limit) == IF limit > 0 /\ c > limit THEN limit ELSE c

\* The result is full or holds all there are, and each is where its rank says.
ScannedTo(result, rs, from, to, limit, m) ==
    /\ Len(result) = Quota(Cardinality(Hits(rs, from, to, m)), limit)
    /\ \A i \in Hits(rs, from, to, m) :
          LET rank == Cardinality(Hits(rs, from, to, i))
          IN rank <= Len(result) => result[rank] = rs[i]

\* One more record in the interval is one more hit; ranks are positive and ordered.
LEMMA Ranks ==
  ASSUME NEW rs, NEW from, NEW to, NEW m \in Nat
  PROVE  /\ IsFiniteSet(Hits(rs, from, to, m))
         /\ Cardinality(Hits(rs, from, to, m)) \in Nat
         /\ \A i \in Hits(rs, from, to, m) :
               /\ Cardinality(Hits(rs, from, to, i)) \in 1..Cardinality(Hits(rs, from, to, m))
               /\ Hits(rs, from, to, i) = {j \in Hits(rs, from, to, m) : j <= i}
<1>1. IsFiniteSet(Hits(rs, from, to, m))
  <2>1. IsFiniteSet(1..m) /\ Hits(rs, from, to, m) \subseteq 1..m
    BY FS_Interval DEF Hits
  <2> QED BY <2>1, FS_Subset
<1>2. Cardinality(Hits(rs, from, to, m)) \in Nat
  BY <1>1, FS_CardinalityType
<1>3. ASSUME NEW i \in Hits(rs, from, to, m)
      PROVE  /\ Cardinality(Hits(rs, from, to, i)) \in 1..Cardinality(Hits(rs, from, to, m))
             /\ Hits(rs, from, to, i) = {j \in Hits(rs, from, to, m) : j <= i}
  <2>1. Hits(rs, from, to, i) = {j \in Hits(rs, from, to, m) : j <= i}
    BY DEF Hits
  <2>2. Hits(rs, from, to, i) \subseteq Hits(rs, from, to, m) /\ i \in Hits(rs, from, to, i)
    BY <2>1 DEF Hits
  <2>3. /\ IsFiniteSet(Hits(rs, from, to, i))
        /\ Cardinality(Hits(rs, from, to, i)) <= Cardinality(Hits(rs, from, to, m))
    BY <1>1, <2>2, FS_Subset
  <2>4. Cardinality(Hits(rs, from, to, i)) \in Nat /\ Cardinality(Hits(rs, from, to, i)) # 0
    BY <2>2, <2>3, FS_CardinalityType, FS_EmptySet
  <2> QED BY <1>2, <2>1, <2>3, <2>4
<1> QED BY <1>1, <1>2, <1>3

\* One more record keeps the result as it should be.
LEMMA ScanOneMore ==
  ASSUME NEW T, NEW rs, NEW m \in Nat, m # 0, NEW from \in Nat, NEW to \in Nat,
         NEW limit \in Nat, rs[m].timestamp \in Nat, NEW result \in Seq(T), rs[m] \in T,
         ScannedTo(result, rs, from, to, limit, m - 1)
  PROVE  ScannedTo(ScanRow(result, rs[m], from, to, limit), rs, from, to, limit, m)
<1> DEFINE H(k) == Hits(rs, from, to, k)
           c(k) == Cardinality(H(k))
           next == ScanRow(result, rs[m], from, to, limit)
<1>1. m - 1 \in Nat /\ m \in 1..m
  OBVIOUS
<1>2. c(m) \in Nat /\ c(m - 1) \in Nat /\ \A i \in H(m - 1) : c(i) \in 1..c(m - 1)
  BY <1>1, Ranks
<1>3. Len(result) = Quota(c(m - 1), limit)
  BY DEF ScannedTo
<1>4. ASSUME NEW i \in H(m - 1), c(i) <= Len(result) PROVE result[c(i)] = rs[i]
  BY <1>4 DEF ScannedTo
<1>5. CASE rs[m].timestamp < from \/ rs[m].timestamp > to
  <2>1. H(m) = H(m - 1)
    BY <1>5 DEF Hits
  <2>2. next = result
    BY <1>5 DEF ScanRow
  <2> QED BY <2>1, <2>2 DEF ScannedTo
<1>6. CASE ~(rs[m].timestamp < from \/ rs[m].timestamp > to)
  <2>1. H(m) = H(m - 1) \union {m} /\ m \notin H(m - 1)
    BY <1>6 DEF Hits
  <2>2. c(m) = c(m - 1) + 1
    <3>1. IsFiniteSet(H(m - 1))
      BY <1>1, Ranks
    <3> QED BY <2>1, <3>1, FS_AddElement
  <2>3. CASE limit > 0 /\ Len(result) >= limit
    <3>1. next = result
      BY <2>3 DEF ScanRow
    <3>2. c(m - 1) >= limit /\ Len(result) = limit
      BY <1>2, <1>3, <2>3 DEF Quota
    <3>3. Quota(c(m), limit) = limit
      BY <1>2, <2>2, <2>3, <3>2 DEF Quota
    <3>4. ~(c(m) <= Len(result))
      BY <1>2, <2>2, <3>2
    <3> HIDE DEF next
    <3>5. ASSUME NEW i \in H(m), c(i) <= Len(next) PROVE next[c(i)] = rs[i]
      <4>1. i # m
        BY <3>1, <3>4, <3>5
      <4> QED BY <4>1, <2>1, <1>4, <3>1, <3>5
    <3>6. Len(next) = Quota(c(m), limit)
      BY <3>1, <3>2, <3>3
    <3>7. ScannedTo(next, rs, from, to, limit, m)
      BY <3>5, <3>6 DEF ScannedTo
    <3> QED BY <3>7 DEF next
  <2>4. CASE ~(limit > 0 /\ Len(result) >= limit)
    <3>1. next = Append(result, rs[m])
      BY <1>6, <2>4 DEF ScanRow
    <3>2. Len(result) = c(m - 1)
      BY <1>2, <1>3, <2>4 DEF Quota
    <3>3. Quota(c(m), limit) = c(m)
      BY <1>2, <2>2, <2>4, <3>2 DEF Quota
    <3>4. /\ Len(next) = Len(result) + 1 /\ next[Len(result) + 1] = rs[m]
          /\ \A k \in 1..Len(result) : next[k] = result[k]
      BY <3>1
    <3> HIDE DEF next
    <3>5. Len(next) = Quota(c(m), limit)
      BY <3>2, <3>3, <3>4, <2>2
    <3>6. ASSUME NEW i \in H(m) PROVE next[c(i)] = rs[i]
      <4>1. CASE i = m
        <5>1. c(i) = Len(result) + 1
          BY <4>1, <2>2, <3>2
        <5> QED BY <5>1, <4>1, <3>4
      <4>2. CASE i \in H(m - 1)
        <5>1. c(i) \in 1..Len(result)
          BY <4>2, <1>2, <3>2
        <5>2. c(i) <= Len(result)
          BY <5>1
        <5> QED BY <5>1, <5>2, <4>2, <1>4, <3>4
      <4> QED BY <4>1, <4>2, <2>1
    <3>7. ScannedTo(next, rs, from, to, limit, m)
      BY <3>5, <3>6 DEF ScannedTo
    <3> QED BY <3>7 DEF next
  <2> QED BY <2>3, <2>4
<1> QED BY <1>5, <1>6

\* What scan returns of any sequence of records with times.
LEMMA ScanOfAnyLog ==
  ASSUME NEW T, NEW rs \in Seq(T), NEW from \in Nat, NEW to \in Nat, NEW limit \in Nat,
         \A i \in 1..Len(rs) : rs[i].timestamp \in Nat
  PROVE  ScannedTo(scan(rs, from, to, limit), rs, from, to, limit, Len(rs))
<1>1. PICK acc : ScannedUpTo(acc, T, rs, from, to, limit)
  BY ScanChain
<1>2. /\ acc \in [0..Len(rs) -> Seq(T)] /\ acc[0] = <<>>
      /\ acc[Len(rs)] = scan(rs, from, to, limit)
      /\ \A i \in 1..Len(rs) : acc[i] = ScanRow(acc[i - 1], rs[i], from, to, limit)
  BY <1>1 DEF ScannedUpTo
<1> DEFINE n == Len(rs)
           Good(i) == ScannedTo(acc[i], rs, from, to, limit, i)
           Bad == {i \in 0..n : ~Good(i)}
<1>3. n \in Nat /\ \A i \in 1..n : rs[i] \in T
  OBVIOUS
<1>4. Good(0)
  <2>1. Hits(rs, from, to, 0) = {}
    BY DEF Hits
  <2>2. Cardinality({}) = 0
    BY FS_EmptySet
  <2>3. Len(acc[0]) = 0
    BY <1>2
  <2>4. Quota(0, limit) = 0
    BY DEF Quota
  <2> QED BY <2>1, <2>2, <2>3, <2>4 DEF ScannedTo
<1>5. ASSUME NEW m \in 1..n, Good(m - 1) PROVE Good(m)
  <2>1. m \in Nat /\ m # 0 /\ m - 1 \in 0..n
    OBVIOUS
  <2>2. acc[m - 1] \in Seq(T) /\ rs[m] \in T /\ rs[m].timestamp \in Nat
    BY <2>1, <1>2, <1>3
  <2>3. acc[m] = ScanRow(acc[m - 1], rs[m], from, to, limit)
    BY <1>2
  <2> QED BY <2>1, <2>2, <2>3, <1>5, ScanOneMore
<1> HIDE DEF Good
<1>6. ASSUME NEW m \in Bad, \A k \in Bad : m <= k PROVE FALSE
  <2>1. m # 0
    BY <1>4
  <2>2. m \in 1..n /\ m - 1 \in 0..n /\ m - 1 \notin Bad
    BY <2>1, <1>6, <1>3
  <2> QED BY <1>5, <2>2
<1>7. Bad \in SUBSET Nat
  OBVIOUS
<1>8. Bad = {} => Good(n)
  BY <1>3
<1> HIDE DEF Bad
<1>9. Good(n)
  BY <1>6, <1>7, <1>8, Smallest
<1> QED BY <1>9, <1>2 DEF Good

\* scan returns the first records of the interval in log order, wherever the
\* clock has jumped and however many there are.
THEOREM ScansReturnPrefixes == Spec => []ScanIsPrefixOfInterval
<1>1. IInv => ScanIsPrefixOfInterval
  <2> SUFFICES ASSUME IInv, NEW from \in Times, NEW to \in Times, NEW limit \in 0..MaxRecords
               PROVE  LET hits   == {i \in DOMAIN records : records[i].timestamp \in from..to}
                          result == scan(records, from, to, limit)
                      IN /\ Len(result) = IF limit > 0 /\ Cardinality(hits) > limit
                                          THEN limit ELSE Cardinality(hits)
                         /\ \A i \in hits :
                               LET rank == Cardinality({j \in hits : j <= i})
                               IN rank <= Len(result) => result[rank] = records[i]
    BY DEF ScanIsPrefixOfInterval
  <2>1. PICK T : records \in Seq(T)
    BY DEF IInv, SizeInv, IsASeq
  <2>2. /\ from \in Nat /\ to \in Nat /\ limit \in Nat
        /\ \A i \in 1..Len(records) : records[i].timestamp \in Nat
    <3>1. \A i \in 1..Len(records) : records[i].timestamp \in Times
      BY DEF IInv, ContentInv
    <3>2. Times \subseteq Nat /\ MaxRecords \in Nat
      BY TimesAssumption
    <3>3. limit \in Nat
      BY <3>2
    <3> QED BY <3>1, <3>2, <3>3
  <2> DEFINE n == Len(records)
             hits == Hits(records, from, to, n)
             result == scan(records, from, to, limit)
  <2>3. n \in Nat /\ DOMAIN records = 1..n
    BY <2>1
  <2>4. hits = {i \in DOMAIN records : records[i].timestamp \in from..to}
    BY <2>3 DEF Hits
  <2>5. ScannedTo(result, records, from, to, limit, n)
    BY <2>1, <2>2, ScanOfAnyLog
  <2>6. Len(result) = Quota(Cardinality(hits), limit)
    BY <2>5 DEF ScannedTo
  <2>7. ASSUME NEW i \in hits
        PROVE  Cardinality({j \in hits : j <= i}) <= Len(result)
                  => result[Cardinality({j \in hits : j <= i})] = records[i]
    <3>1. Hits(records, from, to, i) = {j \in hits : j <= i}
      BY <2>3, Ranks
    <3> QED BY <3>1, <2>5 DEF ScannedTo
  <2> HIDE DEF hits, result
  <2> QED BY <2>4, <2>6, <2>7 DEF Quota, result
<1> QED BY <1>1, Inductive, PTL

-----------------------------------------------------------------------------
(***************************************************************************)
(* What a digest is of: the text of a content can be read back, part by    *)
(* part, since each part ends where the first separator is.                *)
(***************************************************************************)
Joined(a, x, c) == a \o <<x>> \o c

\* The text w is a, the separator x and c.
Consists(w, a, x, c) ==
    /\ Len(w) = Len(a) + 1 + Len(c) /\ w[Len(a) + 1] = x
    /\ \A i \in 1..Len(a) : w[i] = a[i]
    /\ \A i \in 1..Len(c) : w[Len(a) + 1 + i] = c[i]

LEMMA JoinedElements ==
  ASSUME NEW T, NEW a \in Seq(T), NEW x \in T, NEW c \in Seq(T)
  PROVE  Joined(a, x, c) \in Seq(T) /\ Consists(Joined(a, x, c), a, x, c)
<1> DEFINE b == a \o <<x>>
<1>1. b \in Seq(T) /\ Len(b) = Len(a) + 1 /\ b[Len(a) + 1] = x /\ \A i \in 1..Len(a) : b[i] = a[i]
  OBVIOUS
<1>2. Joined(a, x, c) = b \o c
  BY DEF Joined
<1> HIDE DEF b
<1>3. Len(a) \in Nat /\ Len(c) \in Nat
  OBVIOUS
<1>4. /\ b \o c \in Seq(T) /\ Len(b \o c) = Len(b) + Len(c)
      /\ \A i \in 1..Len(b) : (b \o c)[i] = b[i]
      /\ \A i \in 1..Len(c) : (b \o c)[Len(b) + i] = c[i]
  BY <1>1
<1>5. Len(a) + 1 \in 1..Len(b) /\ \A i \in 1..Len(a) : i \in 1..Len(b)
  BY <1>1, <1>3
<1> QED BY <1>1, <1>2, <1>4, <1>5 DEF Consists

\* A part ends at the first separator, so it can be told from the rest.
LEMMA PartsOf ==
  ASSUME NEW T, NEW a \in Seq(T), NEW b \in Seq(T), NEW x \in T, NEW c \in Seq(T), NEW d \in Seq(T),
         Free(a, x), Free(b, x), Joined(a, x, c) = Joined(b, x, d)
  PROVE  a = b /\ c = d
<1>1. Len(a) \in Nat /\ Len(b) \in Nat /\ Len(c) \in Nat /\ Len(d) \in Nat
  OBVIOUS
<1> DEFINE w == Joined(a, x, c)
           v == Joined(b, x, d)
<1>10. w = v
  OBVIOUS
<1>2. Consists(w, a, x, c)
  BY JoinedElements
<1>11. Consists(v, b, x, d)
  BY JoinedElements
<1> HIDE DEF w, v
<1>3. Consists(w, b, x, d)
  BY <1>10, <1>11
<1>4. (\A i \in 1..Len(a) : a[i] # x) /\ (\A i \in 1..Len(b) : b[i] # x)
  BY DEF Free
<1>5. ~(Len(a) < Len(b))
  <2> SUFFICES ASSUME Len(a) < Len(b) PROVE FALSE
    OBVIOUS
  <2>1. Len(a) + 1 \in 1..Len(b)
    BY <1>1
  <2> QED BY <2>1, <1>2, <1>3, <1>4 DEF Consists
<1>6. ~(Len(b) < Len(a))
  <2> SUFFICES ASSUME Len(b) < Len(a) PROVE FALSE
    OBVIOUS
  <2>1. Len(b) + 1 \in 1..Len(a)
    BY <1>1
  <2> QED BY <2>1, <1>2, <1>3, <1>4 DEF Consists
<1>7. Len(a) = Len(b) /\ Len(c) = Len(d)
  BY <1>1, <1>2, <1>3, <1>5, <1>6 DEF Consists
<1>8. \A i \in 1..Len(a) : a[i] = b[i]
  BY <1>2, <1>3, <1>7 DEF Consists
<1>9. \A i \in 1..Len(c) : c[i] = d[i]
  BY <1>2, <1>3, <1>7 DEF Consists
<1> QED BY <1>7, <1>8, <1>9

Associates(a, b, c) == (a \o b) \o c = a \o (b \o c)

LEMMA Regroup ==
  ASSUME NEW T, NEW a \in Seq(T), NEW b \in Seq(T), NEW c \in Seq(T)
  PROVE  Associates(a, b, c)
<1>1. /\ a \o b \in Seq(T) /\ Len(a \o b) = Len(a) + Len(b)
      /\ \A i \in 1..Len(a) : (a \o b)[i] = a[i]
      /\ \A i \in 1..Len(b) : (a \o b)[Len(a) + i] = b[i]
  OBVIOUS
<1>2. /\ b \o c \in Seq(T) /\ Len(b \o c) = Len(b) + Len(c)
      /\ \A i \in 1..Len(b) : (b \o c)[i] = b[i]
      /\ \A i \in 1..Len(c) : (b \o c)[Len(b) + i] = c[i]
  OBVIOUS
<1>3. Len(a) \in Nat /\ Len(b) \in Nat /\ Len(c) \in Nat
  OBVIOUS
<1> DEFINE l == (a \o b) \o c
           r == a \o (b \o c)
<1>4. l \in Seq(T) /\ r \in Seq(T) /\ Len(l) = Len(a) + Len(b) + Len(c) /\ Len(r) = Len(l)
  BY <1>1, <1>2
<1>5. ASSUME NEW i \in 1..Len(l) PROVE l[i] = r[i]
  <2>1. CASE i \in 1..Len(a)
    BY <2>1, <1>1, <1>2, <1>3
  <2>2. CASE i \in (Len(a) + 1)..(Len(a) + Len(b))
    BY <2>2, <1>1, <1>2, <1>3
  <2>3. CASE i \in (Len(a) + Len(b) + 1)..(Len(a) + Len(b) + Len(c))
    BY <2>3, <1>1, <1>2, <1>3
  <2> QED BY <2>1, <2>2, <2>3, <1>3, <1>4
<1> HIDE DEF l, r
<1>6. l = r
  BY <1>4, <1>5
<1> QED BY <1>6 DEF l, r, Associates

\* What is put before equal texts, or after them, makes no difference.
LEMMA SameBeginning ==
  ASSUME NEW T, NEW a \in Seq(T), NEW c \in Seq(T), NEW d \in Seq(T), a \o c = a \o d
  PROVE  c = d
<1>1. /\ Len(a \o c) = Len(a) + Len(c) /\ Len(a \o d) = Len(a) + Len(d)
      /\ \A i \in 1..Len(c) : (a \o c)[Len(a) + i] = c[i]
      /\ \A i \in 1..Len(d) : (a \o d)[Len(a) + i] = d[i]
  OBVIOUS
<1>2. Len(a) \in Nat /\ Len(c) \in Nat /\ Len(d) \in Nat
  OBVIOUS
<1>3. Len(c) = Len(d)
  BY <1>1, <1>2
<1>4. \A i \in 1..Len(c) : c[i] = d[i]
  BY <1>1, <1>3
<1> QED BY <1>3, <1>4

\* acc[i] is what the first i parts make when flattened.
FlattenedUpTo(acc, T, parts) ==
    /\ acc \in [0..Len(parts) -> Seq(T)] /\ acc[0] = <<>>
    /\ acc[Len(parts)] = FlattenSeq(parts)
    /\ \A i \in 1..Len(parts) : acc[i] = acc[i - 1] \o parts[i]

\* Flattening takes the parts one by one.
LEMMA FlattenChain ==
  ASSUME NEW T, NEW parts \in Seq(Seq(T))
  PROVE  \E acc : FlattenedUpTo(acc, T, parts)
<1>1. PICK n \in Nat : n = Len(parts) /\ DOMAIN parts = 1..n
  OBVIOUS
<1>2. \A i \in 1..n : parts[i] \in Seq(T)
  BY <1>1
<1> DEFINE step == [p \in (1..n) \X Seq(T) |-> p[2] \o parts[p[1]]]
<1>3. step \in [(1..n) \X Seq(T) -> Seq(T)] /\ <<>> \in Seq(T)
  <2>1. \A p \in (1..n) \X Seq(T) : p[2] \o parts[p[1]] \in Seq(T)
    <3>1. ASSUME NEW p \in (1..n) \X Seq(T) PROVE p[2] \in Seq(T) /\ parts[p[1]] \in Seq(T)
      BY <1>2
    <3> QED BY <3>1
  <2>2. step \in [(1..n) \X Seq(T) -> Seq(T)]
    BY <2>1
  <2>3. <<>> \in Seq(T)
    OBVIOUS
  <2> QED BY <2>2, <2>3
<1>4. \A i \in 1..n, x \in Seq(T) : step[<<i, x>>] = x \o parts[i]
  OBVIOUS
<1> HIDE DEF step
<1>5. PICK it : Folding(it, n, Seq(T), <<>>, step)
  BY <1>3, FoldExists
<1> DEFINE acc == ResultsAfter(it, n)
<1>6. Chain(acc, n, Seq(T), <<>>, step)
  <2>1. it[{}] = <<>>
    <3>1. {} \in SUBSET (1..n)
      OBVIOUS
    <3> QED BY <3>1, <1>5 DEF Folding
  <2>2. ASSUME NEW i \in 1..n PROVE it[1..i] = step[<<i, it[1..(i - 1)]>>]
    <3>1. /\ 1..i \in SUBSET (1..n) /\ 1..i # {}
          /\ Max(1..i) = i /\ (1..i) \ {i} = 1..(i - 1)
      BY LastPosition
    <3> QED BY <3>1, <1>5 DEF Folding
  <2>3. Stepping(it, n, Seq(T), <<>>, step)
    BY <2>1, <2>2 DEF Stepping
  <2> QED BY <1>3, <2>3, FoldChain
<1> HIDE DEF acc
<1>7. /\ acc \in [0..n -> Seq(T)] /\ acc[0] = <<>>
      /\ \A i \in 1..n : acc[i] = step[<<i, acc[i - 1]>>]
  BY <1>6 DEF Chain
<1>8. ASSUME NEW i \in 1..n PROVE acc[i] = acc[i - 1] \o parts[i]
  <2>1. i - 1 \in 0..n
    OBVIOUS
  <2>2. acc[i - 1] \in Seq(T) /\ acc[i] = step[<<i, acc[i - 1]>>]
    BY <2>1, <1>7
  <2> QED BY <2>2, <1>4
<1>9. acc[n] = FlattenSeq(parts)
  <2>1. CASE n = 0
    BY <2>1, <1>1, <1>7 DEF FlattenSeq
  <2>2. CASE n # 0
    <3> DEFINE g(h) == [i \in 1..n |-> IF i = 1 THEN parts[i] ELSE h[i - 1] \o parts[i]]
               f == CHOOSE h : h = g(h)
               whole == [i \in 1..n |-> acc[i]]
    <3>1. FlattenSeq(parts) = f[n]
      BY <1>1, <2>2 DEF FlattenSeq
    <3>2. acc[1] = parts[1]
      <4>1. 1 \in 1..n /\ 1 - 1 = 0
        BY <2>2
      <4>2. acc[1] = <<>> \o parts[1] /\ parts[1] \in Seq(T)
        BY <4>1, <1>2, <1>7, <1>8
      <4> QED BY <4>2
    <3>3. whole = g(whole)
      <4>1. ASSUME NEW i \in 1..n, i # 1 PROVE acc[i] = whole[i - 1] \o parts[i]
        <5>1. i - 1 \in 1..n
          BY <4>1
        <5> QED BY <5>1, <1>8
      <4>2. ASSUME NEW i \in 1..n
            PROVE  whole[i] = (IF i = 1 THEN parts[i] ELSE whole[i - 1] \o parts[i])
        BY <4>1, <3>2
      <4>3. whole = [i \in 1..n |-> whole[i]]
        OBVIOUS
      <4> HIDE DEF whole
      <4> QED BY <4>2, <4>3
    <3>4. f = g(f)
      BY <3>3
    <3> HIDE DEF f
    <3> DEFINE Bad == {i \in 1..n : f[i] # acc[i]}
    <3>5. ASSUME NEW m \in Bad, \A k \in Bad : m <= k PROVE FALSE
      <4>1. m \in 1..n /\ f[m] # acc[m]
        OBVIOUS
      <4>2. f[m] = (IF m = 1 THEN parts[m] ELSE f[m - 1] \o parts[m])
        BY <4>1, <3>4
      <4>3. m # 1
        BY <4>1, <4>2, <3>2
      <4>4. m - 1 \in 1..n /\ m - 1 \notin Bad
        BY <4>1, <4>3, <3>5
      <4>5. f[m - 1] = acc[m - 1]
        BY <4>4
      <4> QED BY <4>1, <4>2, <4>3, <4>5, <1>8
    <3>6. Bad \in SUBSET Nat
      OBVIOUS
    <3>7. Bad = {} => f[n] = acc[n]
      BY <2>2
    <3> HIDE DEF Bad
    <3>8. f[n] = acc[n]
      BY <3>5, <3>6, <3>7, Smallest
    <3> QED BY <3>1, <3>8
  <2> QED BY <2>1, <2>2
<1>10. FlattenedUpTo(acc, T, parts)
  BY <1>1, <1>7, <1>8, <1>9 DEF FlattenedUpTo
<1> QED BY <1>10

\* Whatever part one stops at, the whole is what there is and a remainder.
HasRemainders(acc, T, parts) ==
    \A i \in 0..Len(parts) : \E r \in Seq(T) : FlattenSeq(parts) = acc[i] \o r

LEMMA Remainders ==
  ASSUME NEW T, NEW parts \in Seq(Seq(T)), NEW acc, FlattenedUpTo(acc, T, parts)
  PROVE  HasRemainders(acc, T, parts)
<1>1. PICK n \in Nat : n = Len(parts) /\ DOMAIN parts = 1..n
  OBVIOUS
<1> DEFINE Good(i) == \E r \in Seq(T) : FlattenSeq(parts) = acc[i] \o r
           Bad == {k \in 0..n : ~Good(n - k)}
<1>2. /\ acc \in [0..n -> Seq(T)] /\ acc[n] = FlattenSeq(parts)
      /\ \A i \in 1..n : acc[i] = acc[i - 1] \o parts[i]
      /\ \A i \in 1..n : parts[i] \in Seq(T)
  <2>1. \A i \in 1..n : parts[i] \in Seq(T)
    BY <1>1
  <2> QED BY <2>1, <1>1 DEF FlattenedUpTo
<1>3. Good(n)
  <2>1. acc[n] \in Seq(T)
    BY <1>2
  <2>2. acc[n] = acc[n] \o <<>> /\ <<>> \in Seq(T)
    BY <2>1
  <2> QED BY <2>2, <1>2
<1>4. ASSUME NEW i \in 1..n, Good(i) PROVE Good(i - 1)
  <2>1. PICK r \in Seq(T) : FlattenSeq(parts) = acc[i] \o r
    BY <1>4
  <2>2. i - 1 \in 0..n /\ acc[i - 1] \in Seq(T) /\ parts[i] \in Seq(T)
    BY <1>2
  <2>3. Associates(acc[i - 1], parts[i], r)
    BY <2>1, <2>2, Regroup
  <2>4. parts[i] \o r \in Seq(T)
    BY <2>2
  <2> QED BY <2>1, <2>3, <2>4, <1>2 DEF Associates
<1> HIDE DEF Good
<1>5. ASSUME NEW k \in Bad, \A l \in Bad : k <= l PROVE FALSE
  <2>1. k \in 0..n /\ ~Good(n - k)
    OBVIOUS
  <2>2. k # 0
    BY <2>1, <1>3
  <2>3. k - 1 \in 0..n /\ k - 1 \notin Bad /\ n - (k - 1) \in 1..n /\ (n - (k - 1)) - 1 = n - k
    BY <2>1, <2>2, <1>5
  <2>4. Good(n - (k - 1))
    BY <2>3
  <2> QED BY <2>1, <2>3, <2>4, <1>4
<1>6. Bad \in SUBSET Nat
  OBVIOUS
<1>7. ASSUME Bad = {}, NEW i \in 0..n PROVE Good(i)
  <2>1. n - i \in 0..n /\ n - (n - i) = i
    OBVIOUS
  <2> QED BY <2>1, <1>7
<1> HIDE DEF Bad
<1>8. Bad = {}
  BY <1>5, <1>6, Smallest
<1> QED BY <1>1, <1>7, <1>8 DEF Good, HasRemainders

\* What texts are made of; the provers do not know a literal to be a string.
Tokens == STRING \union {"|", "=", ";", "genesis", "system"}
              \union {ToString(time) : time \in Times}

Equals == "="
End    == ";"
Bar    == "|"

LEMMA Separators == Equals \in Tokens /\ End \in Tokens /\ Bar \in Tokens
BY DEF Tokens, Equals, End, Bar

\* The text of one entry of a metadata map.
Entry(p) == p[1] \o <<Equals>> \o p[2] \o <<End>>

\* A map whose text can be read back.
Readable(meta) ==
    /\ meta \in Seq(Seq(Tokens) \X Seq(Tokens))
    /\ \A i \in DOMAIN meta : Free(meta[i][1], Equals) /\ Free(meta[i][2], End)

LEMMA LongerByOne ==
  ASSUME NEW T, NEW u \in Seq(T), NEW s \in Seq(T), Len(s) = 1
  PROVE  u \o s \in Seq(T) /\ u \o s # <<>>
<1>1. u \o s \in Seq(T)
  OBVIOUS
<1>2. Len(u \o s) = Len(u) + Len(s)
  BY ONLY u \in Seq(T), s \in Seq(T)
<1>3. Len(u) \in Nat
  OBVIOUS
<1>4. Len(u \o s) # 0
  BY <1>2, <1>3
<1> QED BY <1>1, <1>4

EntryOf(k, v, r) ==
    /\ Entry(<<k, v>>) \in Seq(Tokens) /\ Entry(<<k, v>>) # <<>>
    /\ Entry(<<k, v>>) \o r = Joined(k, Equals, Joined(v, End, r))

LEMMA EntryForm ==
  ASSUME NEW k \in Seq(Tokens), NEW v \in Seq(Tokens), NEW r \in Seq(Tokens)
  PROVE  EntryOf(k, v, r)
<1> DEFINE e == <<Equals>>
           s == <<End>>
<1>1. e \in Seq(Tokens) /\ s \in Seq(Tokens) /\ Len(s) = 1
  BY Separators
<1>2. Entry(<<k, v>>) = ((k \o e) \o v) \o s
  BY DEF Entry
<1>3. Joined(k, Equals, Joined(v, End, r)) = (k \o e) \o ((v \o s) \o r)
  BY DEF Joined
<1> HIDE DEF e, s
<1>4. k \o e \in Seq(Tokens)
  BY <1>1
<1>5. (k \o e) \o v \in Seq(Tokens) /\ s \o r \in Seq(Tokens) /\ v \o s \in Seq(Tokens)
  BY <1>1, <1>4
<1>6. Associates((k \o e) \o v, s, r)
  BY <1>1, <1>5, Regroup
<1>7. Associates(k \o e, v, s \o r)
  BY <1>4, <1>5, Regroup
<1>8. Associates(v, s, r)
  BY <1>1, Regroup
<1>9. ((k \o e) \o v) \o s \in Seq(Tokens) /\ ((k \o e) \o v) \o s # <<>>
  BY <1>1, <1>5, LongerByOne
<1> QED BY <1>2, <1>3, <1>6, <1>7, <1>8, <1>9 DEF Associates, EntryOf

\* The entries of a map, in key order.
Entries(m) == [i \in DOMAIN m |-> Entry(m[i])]

LEMMA EntriesOf ==
  ASSUME NEW m, Readable(m)
  PROVE  /\ Len(m) \in Nat /\ DOMAIN m = 1..Len(m)
         /\ Entries(m) \in Seq(Seq(Tokens)) /\ Len(Entries(m)) = Len(m)
         /\ \A i \in 1..Len(m) : /\ m[i] = <<m[i][1], m[i][2]>>
                                 /\ m[i][1] \in Seq(Tokens) /\ m[i][2] \in Seq(Tokens)
                                 /\ Free(m[i][1], Equals) /\ Free(m[i][2], End)
                                 /\ Entries(m)[i] = Entry(m[i])
                                 /\ Entries(m)[i] \in Seq(Tokens) /\ Entries(m)[i] # <<>>
         /\ MetadataText(m) = FlattenSeq(Entries(m))
<1>1. Len(m) \in Nat /\ DOMAIN m = 1..Len(m)
  BY DEF Readable
<1>2. ASSUME NEW i \in 1..Len(m)
      PROVE  /\ m[i] = <<m[i][1], m[i][2]>>
             /\ m[i][1] \in Seq(Tokens) /\ m[i][2] \in Seq(Tokens)
             /\ Free(m[i][1], Equals) /\ Free(m[i][2], End)
  <2>1. m[i] \in Seq(Tokens) \X Seq(Tokens)
    BY <1>1 DEF Readable
  <2>2. Free(m[i][1], Equals) /\ Free(m[i][2], End)
    BY <1>1 DEF Readable
  <2> QED BY <2>1, <2>2
<1>3. ASSUME NEW i \in 1..Len(m) PROVE Entry(m[i]) \in Seq(Tokens) /\ Entry(m[i]) # <<>>
  <2>1. <<>> \in Seq(Tokens)
    OBVIOUS
  <2>2. Entry(<<m[i][1], m[i][2]>>) \in Seq(Tokens) /\ Entry(<<m[i][1], m[i][2]>>) # <<>>
    BY <1>2, <2>1, EntryForm DEF EntryOf
  <2> QED BY <1>2, <2>2
<1>4. \A i \in 1..Len(m) : Entries(m)[i] = Entry(m[i])
  BY <1>1 DEF Entries
<1>5. Entries(m) = [i \in 1..Len(m) |-> Entry(m[i])]
  BY <1>1 DEF Entries
<1>6. Entries(m) \in Seq(Seq(Tokens)) /\ Len(Entries(m)) = Len(m)
  BY <1>1, <1>3, <1>5
<1>7. MetadataText(m) = FlattenSeq(Entries(m))
  BY DEF MetadataText, Entries, Entry, Equals, End
<1> QED BY <1>1, <1>2, <1>3, <1>4, <1>6, <1>7

LEMMA MapText ==
  ASSUME NEW m, Readable(m)
  PROVE  MetadataText(m) \in Seq(Tokens)
<1>1. Entries(m) \in Seq(Seq(Tokens)) /\ MetadataText(m) = FlattenSeq(Entries(m))
  BY EntriesOf
<1>2. PICK acc : FlattenedUpTo(acc, Tokens, Entries(m))
  BY <1>1, FlattenChain
<1>3. Len(Entries(m)) \in 0..Len(Entries(m))
  BY <1>1
<1> QED BY <1>1, <1>2, <1>3 DEF FlattenedUpTo

\* Maps with the same text agree entry by entry, and neither is the longer one.
LEMMA SameEntries ==
  ASSUME NEW meta, NEW other, Readable(meta), Readable(other),
         MetadataText(meta) = MetadataText(other)
  PROVE  /\ ~(Len(meta) < Len(other))
         /\ \A i \in 1..Len(meta) : i <= Len(other) => meta[i] = other[i]
<1> DEFINE text == MetadataText(meta)
<1> HIDE DEF text
<1>1. ASSUME NEW m, Readable(m)
      PROVE  /\ Len(m) \in Nat /\ DOMAIN m = 1..Len(m)
             /\ Entries(m) \in Seq(Seq(Tokens)) /\ Len(Entries(m)) = Len(m)
             /\ \A i \in 1..Len(m) : /\ m[i] = <<m[i][1], m[i][2]>>
                                     /\ m[i][1] \in Seq(Tokens) /\ m[i][2] \in Seq(Tokens)
                                     /\ Free(m[i][1], Equals) /\ Free(m[i][2], End)
                                     /\ Entries(m)[i] = Entry(m[i])
                                     /\ Entries(m)[i] \in Seq(Tokens) /\ Entries(m)[i] # <<>>
             /\ MetadataText(m) = FlattenSeq(Entries(m))
  BY <1>1, EntriesOf
<1>2. PICK acc : FlattenedUpTo(acc, Tokens, Entries(meta))
  BY <1>1, FlattenChain
<1>3. PICK bcc : FlattenedUpTo(bcc, Tokens, Entries(other))
  BY <1>1, FlattenChain
<1> DEFINE n == Len(meta)
           k == Len(other)
<1>4. n \in Nat /\ k \in Nat
  BY <1>1
<1>5. /\ acc \in [0..n -> Seq(Tokens)] /\ acc[0] = <<>> /\ acc[n] = text
      /\ \A i \in 1..n : acc[i] = acc[i - 1] \o Entries(meta)[i]
  BY <1>1, <1>2 DEF FlattenedUpTo, text
<1>6. /\ bcc \in [0..k -> Seq(Tokens)] /\ bcc[0] = <<>> /\ bcc[k] = text
      /\ \A i \in 1..k : bcc[i] = bcc[i - 1] \o Entries(other)[i]
  BY <1>1, <1>3 DEF FlattenedUpTo, text
<1>7. \A i \in 0..n : \E r \in Seq(Tokens) : text = acc[i] \o r
  <2>1. Entries(meta) \in Seq(Seq(Tokens)) /\ Len(Entries(meta)) = Len(meta)
        /\ text = FlattenSeq(Entries(meta))
    BY <1>1 DEF text
  <2>2. HasRemainders(acc, Tokens, Entries(meta))
    BY <1>2, <2>1, Remainders
  <2> QED BY <2>1, <2>2 DEF HasRemainders
<1>8. \A i \in 0..k : \E r \in Seq(Tokens) : text = bcc[i] \o r
  <2>1. Entries(other) \in Seq(Seq(Tokens)) /\ Len(Entries(other)) = Len(other)
        /\ text = FlattenSeq(Entries(other))
    BY <1>1 DEF text
  <2>2. HasRemainders(bcc, Tokens, Entries(other))
    BY <1>3, <2>1, Remainders
  <2> QED BY <2>1, <2>2 DEF HasRemainders
<1>9. ASSUME NEW i \in 1..n, i <= k, acc[i - 1] = bcc[i - 1]
      PROVE  meta[i] = other[i] /\ acc[i] = bcc[i]
  <2>1. i - 1 \in 0..n /\ i \in 0..n /\ i \in 1..k /\ i \in 0..k
    BY <1>4, <1>9
  <2> DEFINE a == acc[i - 1]
             x == meta[i]
             y == other[i]
  <2>2. a \in Seq(Tokens)
    BY <2>1, <1>5
  <2>3. PICK r \in Seq(Tokens) : text = acc[i] \o r
    BY <2>1, <1>7
  <2>4. PICK q \in Seq(Tokens) : text = bcc[i] \o q
    BY <2>1, <1>8
  <2>5. /\ x = <<x[1], x[2]>> /\ x[1] \in Seq(Tokens) /\ x[2] \in Seq(Tokens)
        /\ Free(x[1], Equals) /\ Free(x[2], End)
        /\ acc[i] = a \o Entry(x) /\ Entry(x) \in Seq(Tokens)
    BY <1>1, <1>5
  <2>6. /\ y = <<y[1], y[2]>> /\ y[1] \in Seq(Tokens) /\ y[2] \in Seq(Tokens)
        /\ Free(y[1], Equals) /\ Free(y[2], End)
        /\ bcc[i] = a \o Entry(y) /\ Entry(y) \in Seq(Tokens)
    BY <1>1, <1>6, <1>9, <2>1
  <2> HIDE DEF a, x, y
  <2>7. text = a \o (Entry(x) \o r) /\ Entry(x) \o r \in Seq(Tokens)
    <3>1. Associates(a, Entry(x), r)
      BY <2>2, <2>3, <2>5, Regroup
    <3> QED BY <2>3, <2>5, <3>1 DEF Associates
  <2>8. text = a \o (Entry(y) \o q) /\ Entry(y) \o q \in Seq(Tokens)
    <3>1. Associates(a, Entry(y), q)
      BY <2>2, <2>4, <2>6, Regroup
    <3> QED BY <2>4, <2>6, <3>1 DEF Associates
  <2>9. Entry(x) \o r = Entry(y) \o q
    BY <2>2, <2>7, <2>8, SameBeginning
  <2>10. Entry(x) \o r = Joined(x[1], Equals, Joined(x[2], End, r))
    <3>1. EntryOf(x[1], x[2], r)
      BY <2>3, <2>5, EntryForm
    <3> QED BY <2>5, <3>1 DEF EntryOf
  <2>11. Entry(y) \o q = Joined(y[1], Equals, Joined(y[2], End, q))
    <3>1. EntryOf(y[1], y[2], q)
      BY <2>4, <2>6, EntryForm
    <3> QED BY <2>6, <3>1 DEF EntryOf
  <2>12. Joined(x[2], End, r) \in Seq(Tokens) /\ Joined(y[2], End, q) \in Seq(Tokens)
    BY <2>3, <2>4, <2>5, <2>6, Separators, JoinedElements
  <2>13. x[1] = y[1] /\ Joined(x[2], End, r) = Joined(y[2], End, q)
    <3> DEFINE c == Joined(x[2], End, r)
               d == Joined(y[2], End, q)
    <3>1. Joined(x[1], Equals, c) = Joined(y[1], Equals, d) /\ c \in Seq(Tokens) /\ d \in Seq(Tokens)
      BY <2>9, <2>10, <2>11, <2>12
    <3> HIDE DEF c, d
    <3>2. x[1] = y[1] /\ c = d
      BY <2>5, <2>6, <3>1, Separators, PartsOf
    <3> QED BY <3>2 DEF c, d
  <2>14. x[2] = y[2]
    BY <2>3, <2>4, <2>5, <2>6, <2>13, Separators, PartsOf
  <2>15. x = y
    BY <2>5, <2>6, <2>13, <2>14
  <2> QED BY <2>5, <2>6, <2>15 DEF x, y
<1> DEFINE Good(i) == i <= k => acc[i] = bcc[i] /\ (i # 0 => meta[i] = other[i])
           Bad == {i \in 0..n : ~Good(i)}
<1>10. Good(0)
  BY <1>5, <1>6
<1>11. ASSUME NEW i \in 1..n, Good(i - 1) PROVE Good(i)
  <2>1. i <= k => i - 1 <= k
    BY <1>4
  <2> QED BY <1>9, <1>11, <2>1
<1> HIDE DEF Good
<1>12. ASSUME NEW i \in Bad, \A j \in Bad : i <= j PROVE FALSE
  <2>1. i \in 1..n /\ i - 1 \in 0..n /\ i - 1 \notin Bad
    BY <1>4, <1>10, <1>12
  <2> QED BY <1>11, <2>1
<1>13. Bad \in SUBSET Nat
  OBVIOUS
<1>14. Bad = {} => \A i \in 0..n : Good(i)
  OBVIOUS
<1> HIDE DEF Bad
<1>15. \A i \in 0..n : Good(i)
  BY <1>12, <1>13, <1>14, Smallest
<1>16. \A i \in 1..n : i <= k => meta[i] = other[i]
  BY <1>4, <1>15 DEF Good
<1>17. ~(n < k)
  <2> SUFFICES ASSUME n < k PROVE FALSE
    OBVIOUS
  <2>1. n + 1 \in 1..k /\ n \in 0..n /\ n \in 0..k /\ n + 1 \in 0..k /\ (n + 1) - 1 = n
    BY <1>4
  <2>2. bcc[n] = text /\ text \in Seq(Tokens)
    BY <2>1, <1>4, <1>5, <1>15 DEF Good
  <2> DEFINE e == Entries(other)[n + 1]
  <2>3. bcc[n + 1] = text \o e /\ e \in Seq(Tokens) /\ e # <<>>
    BY <1>1, <1>6, <2>1, <2>2
  <2>4. PICK r \in Seq(Tokens) : text = bcc[n + 1] \o r
    BY <2>1, <1>8
  <2> HIDE DEF e
  <2>5. Len(e) \in Nat /\ Len(e) # 0
    BY <2>3
  <2>6. Len(text \o e) = Len(text) + Len(e) /\ text \o e \in Seq(Tokens) /\ Len(text) \in Nat
    BY <2>2, <2>3
  <2>7. Len(text) = Len(text \o e) + Len(r) /\ Len(r) \in Nat
    BY <2>3, <2>4, <2>6
  <2> QED BY <2>5, <2>6, <2>7
<1> QED BY <1>16, <1>17

LEMMA SameElements ==
  ASSUME NEW T, NEW a \in Seq(T), NEW b \in Seq(T), Len(a) = Len(b),
         \A i \in 1..Len(a) : a[i] = b[i]
  PROVE  a = b
OBVIOUS

\* Different maps have different texts.
LEMMA MapsAreTold ==
  ASSUME NEW meta, NEW other, Readable(meta), Readable(other),
         MetadataText(meta) = MetadataText(other)
  PROVE  meta = other
<1>1. /\ ~(Len(meta) < Len(other)) /\ ~(Len(other) < Len(meta))
      /\ \A i \in 1..Len(meta) : i <= Len(other) => meta[i] = other[i]
  BY SameEntries
<1>2. /\ meta \in Seq(Seq(Tokens) \X Seq(Tokens)) /\ other \in Seq(Seq(Tokens) \X Seq(Tokens))
      /\ Len(meta) \in Nat /\ Len(other) \in Nat
  BY DEF Readable
<1>3. Len(meta) = Len(other)
  BY <1>1, <1>2
<1>4. \A i \in 1..Len(meta) : meta[i] = other[i]
  BY <1>1, <1>3
<1> QED BY <1>2, <1>3, <1>4, SameElements

\* A text whose first part is one token, whichever that is.
LEMMA OneTokenFirst ==
  ASSUME NEW T, NEW t \in T, NEW u \in T, NEW x \in T, NEW c \in Seq(T), NEW d \in Seq(T),
         Joined(<<t>>, x, c) = Joined(<<u>>, x, d)
  PROVE  t = u /\ c = d
<1> DEFINE a == <<t>>
           b == <<u>>
<1>1. /\ a \in Seq(T) /\ Len(a) = 1 /\ a[1] = t
      /\ b \in Seq(T) /\ Len(b) = 1 /\ b[1] = u
  OBVIOUS
<1>2. Joined(a, x, c) = Joined(b, x, d)
  OBVIOUS
<1> HIDE DEF a, b
<1> DEFINE w == Joined(a, x, c)
<1>3. Consists(w, a, x, c)
  BY <1>1, JoinedElements
<1>4. Consists(w, b, x, d)
  BY <1>1, <1>2, JoinedElements
<1> HIDE DEF w
<1>5. t = u
  <2>1. 1 \in 1..Len(a) /\ 1 \in 1..Len(b)
    BY <1>1
  <2>2. w[1] = a[1] /\ w[1] = b[1]
    BY <2>1, <1>3, <1>4 DEF Consists
  <2> QED BY <2>2, <1>1
<1>6. Len(c) = Len(d)
  <2>1. Len(w) = 1 + 1 + Len(c) /\ Len(w) = 1 + 1 + Len(d)
    BY <1>1, <1>3, <1>4 DEF Consists
  <2>2. Len(c) \in Nat /\ Len(d) \in Nat
    OBVIOUS
  <2> QED BY <2>1, <2>2
<1>7. \A i \in 1..Len(c) : c[i] = d[i]
  BY <1>1, <1>3, <1>4, <1>6 DEF Consists
<1> QED BY <1>5, <1>6, <1>7, SameElements

\* The text of a content: four parts, three of them ended by a bar.
ContentText(r) ==
    r.operation \o <<"|">> \o r.actor_identity \o <<"|">>
        \o <<ToString(r.timestamp)>> \o <<"|">> \o MetadataText(r.metadata)

ContentParts(op, actor, time, meta) == Joined(op, Bar, Joined(actor, Bar, Joined(time, Bar, meta)))

InParts(op, actor, time, meta) ==
    op \o <<Bar>> \o actor \o <<Bar>> \o time \o <<Bar>> \o meta
        = ContentParts(op, actor, time, meta)

LEMMA ContentForm ==
  ASSUME NEW op \in Seq(Tokens), NEW actor \in Seq(Tokens), NEW time \in Seq(Tokens),
         NEW meta \in Seq(Tokens)
  PROVE  InParts(op, actor, time, meta)
<1> DEFINE bar == <<Bar>>
           front == op \o bar
           last == Joined(time, Bar, meta)
           middle == (front \o actor) \o bar
<1>1. bar \in Seq(Tokens)
  BY Separators
<1>2. last = (time \o bar) \o meta
  BY DEF Joined
<1>3. ContentParts(op, actor, time, meta) = front \o ((actor \o bar) \o last)
  BY DEF ContentParts, Joined
<1> HIDE DEF bar, last
<1>4. front \in Seq(Tokens) /\ time \o bar \in Seq(Tokens) /\ actor \o bar \in Seq(Tokens)
  BY <1>1
<1> HIDE DEF front
<1>5. front \o actor \in Seq(Tokens)
  BY <1>4
<1>6. middle \in Seq(Tokens)
  BY <1>1, <1>5
<1>7. last \in Seq(Tokens)
  BY <1>2, <1>4
<1>8. middle = front \o (actor \o bar)
  <2>1. Associates(front, actor, bar)
    BY <1>1, <1>4, Regroup
  <2> QED BY <2>1 DEF Associates
<1>9. (front \o (actor \o bar)) \o last = front \o ((actor \o bar) \o last)
  <2>1. Associates(front, actor \o bar, last)
    BY <1>4, <1>7, Regroup
  <2> QED BY <2>1 DEF Associates
<1> HIDE DEF middle
<1>10. (middle \o time) \o bar = middle \o (time \o bar)
  <2>1. Associates(middle, time, bar)
    BY <1>1, <1>6, Regroup
  <2> QED BY <2>1 DEF Associates
<1>11. (middle \o (time \o bar)) \o meta = middle \o last
  <2>1. Associates(middle, time \o bar, meta)
    BY <1>4, <1>6, Regroup
  <2> QED BY <2>1, <1>2 DEF Associates
<1>12. ((middle \o time) \o bar) \o meta = front \o ((actor \o bar) \o last)
  BY <1>8, <1>9, <1>10, <1>11
<1> QED BY <1>3, <1>12 DEF middle, front, bar, InParts

\* Contents of which each part can be told.
Legible(r) ==
    /\ r.operation \in Seq(Tokens) /\ Free(r.operation, Bar)
    /\ r.actor_identity \in Seq(Tokens) /\ Free(r.actor_identity, Bar)
    /\ r.timestamp \in Times
    /\ Readable(r.metadata)

LEMMA ContentsAreTold ==
  ASSUME NEW r, NEW q, Legible(r), Legible(q), compute_content_hash(r) = compute_content_hash(q)
  PROVE  /\ r.operation = q.operation /\ r.actor_identity = q.actor_identity
         /\ r.timestamp = q.timestamp /\ r.metadata = q.metadata
<1>1. ContentText(r) = ContentText(q)
  BY DEF compute_content_hash, ContentText, Sha256
<1> DEFINE last(p) == Joined(<<ToString(p.timestamp)>>, Bar, MetadataText(p.metadata))
           rest(p) == Joined(p.actor_identity, Bar, last(p))
<1>2. ASSUME NEW p, Legible(p)
      PROVE  /\ p.operation \in Seq(Tokens) /\ Free(p.operation, Bar)
             /\ p.actor_identity \in Seq(Tokens) /\ Free(p.actor_identity, Bar)
             /\ ToString(p.timestamp) \in Tokens /\ MetadataText(p.metadata) \in Seq(Tokens)
             /\ last(p) \in Seq(Tokens) /\ rest(p) \in Seq(Tokens)
             /\ ContentText(p) = Joined(p.operation, Bar, rest(p))
  <2>1. /\ p.operation \in Seq(Tokens) /\ Free(p.operation, Bar)
        /\ p.actor_identity \in Seq(Tokens) /\ Free(p.actor_identity, Bar)
    BY <1>2 DEF Legible
  <2>2. ToString(p.timestamp) \in Tokens
    BY <1>2 DEF Legible, Tokens
  <2>3. MetadataText(p.metadata) \in Seq(Tokens)
    BY <1>2, MapText DEF Legible
  <2>4. <<ToString(p.timestamp)>> \in Seq(Tokens)
    BY <2>2
  <2>5. last(p) \in Seq(Tokens)
    BY <2>3, <2>4, Separators, JoinedElements
  <2>6. rest(p) \in Seq(Tokens)
    <3> HIDE DEF last
    <3> QED BY <2>1, <2>5, Separators, JoinedElements
  <2>7. ContentText(p) = ContentParts(p.operation, p.actor_identity, <<ToString(p.timestamp)>>,
                                      MetadataText(p.metadata))
    <3>1. ContentText(p) = p.operation \o <<Bar>> \o p.actor_identity \o <<Bar>>
                             \o <<ToString(p.timestamp)>> \o <<Bar>> \o MetadataText(p.metadata)
      BY DEF ContentText, Bar
    <3>2. InParts(p.operation, p.actor_identity, <<ToString(p.timestamp)>>,
                  MetadataText(p.metadata))
      BY <2>1, <2>3, <2>4, ContentForm
    <3> QED BY <3>1, <3>2 DEF InParts
  <2>8. ContentText(p) = Joined(p.operation, Bar, rest(p))
    BY <2>7 DEF ContentParts
  <2> QED BY <2>1, <2>2, <2>3, <2>5, <2>6, <2>8
<1>3. Joined(r.operation, Bar, rest(r)) = Joined(q.operation, Bar, rest(q))
  BY <1>1, <1>2
<1> HIDE DEF rest
<1>4. r.operation = q.operation /\ rest(r) = rest(q)
  <2>1. /\ r.operation \in Seq(Tokens) /\ Free(r.operation, Bar) /\ rest(r) \in Seq(Tokens)
        /\ q.operation \in Seq(Tokens) /\ Free(q.operation, Bar) /\ rest(q) \in Seq(Tokens)
    BY <1>2
  <2> QED BY <1>3, <2>1, Separators, PartsOf
<1>5. Joined(r.actor_identity, Bar, last(r)) = Joined(q.actor_identity, Bar, last(q))
  BY <1>4 DEF rest
<1> HIDE DEF last
<1>6. r.actor_identity = q.actor_identity /\ last(r) = last(q)
  <2>1. /\ r.actor_identity \in Seq(Tokens) /\ Free(r.actor_identity, Bar) /\ last(r) \in Seq(Tokens)
        /\ q.actor_identity \in Seq(Tokens) /\ Free(q.actor_identity, Bar) /\ last(q) \in Seq(Tokens)
    BY <1>2
  <2> QED BY <1>5, <2>1, Separators, PartsOf
<1>7. Joined(<<ToString(r.timestamp)>>, Bar, MetadataText(r.metadata))
        = Joined(<<ToString(q.timestamp)>>, Bar, MetadataText(q.metadata))
  BY <1>6 DEF last
<1>8. ToString(r.timestamp) = ToString(q.timestamp) /\ MetadataText(r.metadata) = MetadataText(q.metadata)
  BY <1>2, <1>7, Separators, OneTokenFirst
<1>9. r.timestamp = q.timestamp
  BY <1>8, TextAssumption DEF Legible
<1>10. r.metadata = q.metadata
  BY <1>8, MapsAreTold DEF Legible
<1> QED BY <1>4, <1>6, <1>9, <1>10


LEMMA WiderSequences ==
  ASSUME NEW A, NEW B, A \subseteq B, NEW s \in Seq(A)
  PROVE  s \in Seq(B)
<1>1. Len(s) \in Nat /\ \A i \in 1..Len(s) : s[i] \in B
  OBVIOUS
<1>2. s = [i \in 1..Len(s) |-> s[i]]
  OBVIOUS
<1> QED BY <1>1, <1>2

\* What callers supply, and the genesis record, can be told when it is free of
\* the separators.
LEMMA CallersAreLegible ==
  ASSUME NEW r, r.operation \in Operations \union {<<"genesis">>},
         r.actor_identity \in Actors \union {<<"system">>},
         r.timestamp \in Times, r.metadata \in Metadatas \union {<<>>},
         SeparatorFree(r)
  PROVE  Legible(r)
<1>1. Seq(STRING) \subseteq Seq(Tokens)
  <2>1. STRING \subseteq Tokens
    BY DEF Tokens
  <2> QED BY <2>1, WiderSequences
<1>2. Operations \union Actors \subseteq Seq(Tokens)
  BY <1>1, TextAssumption
<1>3. <<"genesis">> \in Seq(Tokens) /\ <<"system">> \in Seq(Tokens)
  <2> DEFINE g == "genesis"
             y == "system"
  <2>1. g \in Tokens /\ y \in Tokens
    BY DEF Tokens
  <2> HIDE DEF g, y
  <2>2. <<g>> \in Seq(Tokens) /\ <<y>> \in Seq(Tokens)
    BY <2>1
  <2> QED BY <2>2 DEF g, y
<1>4. r.metadata \in Seq(Seq(Tokens) \X Seq(Tokens))
  <2>1. CASE r.metadata \in Metadatas
    <3>1. r.metadata \in Seq(Seq(STRING) \X Seq(STRING))
      BY <2>1, TextAssumption
    <3>2. Seq(STRING) \X Seq(STRING) \subseteq Seq(Tokens) \X Seq(Tokens)
      BY <1>1
    <3> QED BY <3>1, <3>2, WiderSequences
  <2>2. CASE r.metadata = <<>>
    BY <2>2
  <2> QED BY <2>1, <2>2
<1>5. r.operation \in Seq(Tokens) /\ r.actor_identity \in Seq(Tokens)
  BY <1>2, <1>3
<1>6. Free(r.operation, Bar) /\ Free(r.actor_identity, Bar)
  BY DEF SeparatorFree, Bar
<1>7. \A i \in DOMAIN r.metadata : Free(r.metadata[i][1], Equals) /\ Free(r.metadata[i][2], End)
  BY DEF SeparatorFree, Equals, End
<1> QED BY <1>4, <1>5, <1>6, <1>7 DEF Legible, Readable

-----------------------------------------------------------------------------
(***************************************************************************)
(* Alterations.                                                            *)
(***************************************************************************)
\* Every record has the fields of one and no others.
IsRecord(r) ==
    r = [record_id |-> r.record_id, operation |-> r.operation,
         actor_identity |-> r.actor_identity, timestamp |-> r.timestamp,
         metadata |-> r.metadata, prev_hash |-> r.prev_hash,
         content_hash |-> r.content_hash, chain_hash |-> r.chain_hash]

FormInv == \A i \in 1..Len(records) : IsRecord(records[i])

LEMMA FormHolds == Spec => []FormInv
<1>1. Init => FormInv
  BY DEF Init, FormInv
<1>2. IInv /\ FormInv /\ [Next]_vars => FormInv'
  <2> SUFFICES ASSUME IInv, FormInv, [Next]_vars PROVE FormInv'
    OBVIOUS
  <2>1. ASSUME NEW id, NEW op, NEW actor, NEW time, NEW meta, NEW prev,
               records' = Append(records, NewRecord(id, op, actor, time, meta, prev))
        PROVE  FormInv'
    <3> DEFINE r == NewRecord(id, op, actor, time, meta, prev)
    <3>1. IsRecord(r)
      BY DEF IsRecord, NewRecord
    <3> HIDE DEF r
    <3>2. /\ Len(records) \in Nat /\ Len(records') = Len(records) + 1
          /\ \A i \in 1..Len(records) : records'[i] = records[i]
          /\ records'[Len(records) + 1] = r
      BY <2>1, PushBack DEF IInv, SizeInv, r
    <3>3. \A i \in 1..Len(records') : i \in 1..Len(records) \/ i = Len(records) + 1
      BY <3>2
    <3>4. \A i \in 1..Len(records') : IsRecord(records'[i])
      BY <3>1, <3>2, <3>3 DEF FormInv
    <3> QED BY <3>4 DEF FormInv, IsRecord
  <2>2. CASE UNCHANGED vars
    BY <2>2 DEF vars, FormInv, IsRecord
  <2> QED BY <2>1, <2>2 DEF Next, create_genesis, append
<1> QED BY <1>1, <1>2, Inductive, PTL DEF Spec

\* Flattening parts of which all but one are empty gives that one.
LEMMA FlattenOne ==
  ASSUME NEW x, NEW parts \in Seq(Seq({x})), NEW m \in 1..Len(parts),
         \A k \in 1..Len(parts) : parts[k] = IF k = m THEN <<x>> ELSE <<>>
  PROVE  FlattenSeq(parts) = <<x>>
<1>0. Len(parts) \in Nat
  BY ONLY parts \in Seq(Seq({x}))
<1>1. PICK n \in Nat : n = Len(parts)
  BY ONLY <1>0
<1>2. PICK acc : FlattenedUpTo(acc, {x}, parts)
  BY FlattenChain
<1>3. /\ acc \in [0..n -> Seq({x})] /\ acc[0] = <<>> /\ acc[n] = FlattenSeq(parts)
      /\ \A k \in 1..n : acc[k] = acc[k - 1] \o (IF k = m THEN <<x>> ELSE <<>>)
  BY <1>1, <1>2 DEF FlattenedUpTo
<1> DEFINE Good(k) == acc[k] = IF k < m THEN <<>> ELSE <<x>>
           Bad == {k \in 0..n : ~Good(k)}
<1>4. Good(0)
  BY <1>1, <1>3
<1>5. ASSUME NEW k \in 1..n, Good(k - 1) PROVE Good(k)
  <2>1. <<>> \o <<>> = <<>> /\ <<>> \o <<x>> = <<x>> /\ <<x>> \o <<>> = <<x>>
    BY ONLY TRUE
  <2>2. m \in Nat /\ k \in Nat
    BY <1>1
  <2>6. acc[k] = acc[k - 1] \o (IF k = m THEN <<x>> ELSE <<>>)
    BY <1>3
  <2>7. acc[k - 1] = IF k - 1 < m THEN <<>> ELSE <<x>>
    BY <1>5
  <2>3. CASE k < m
    <3>1. k - 1 < m /\ k # m
      BY <2>2, <2>3
    <3>2. acc[k] = <<>> \o <<>>
      BY <2>6, <2>7, <3>1
    <3> QED BY <2>1, <2>3, <3>2
  <2>4. CASE k = m
    <3>1. k - 1 < m /\ ~(k < m)
      BY <2>2, <2>4
    <3>2. acc[k] = <<>> \o <<x>>
      BY <2>4, <2>6, <2>7, <3>1
    <3> QED BY <2>1, <3>1, <3>2
  <2>5. CASE k > m
    <3>1. ~(k - 1 < m) /\ k # m /\ ~(k < m)
      BY <2>2, <2>5
    <3>2. acc[k] = <<x>> \o <<>>
      BY <2>6, <2>7, <3>1
    <3> QED BY <2>1, <3>1, <3>2
  <2> QED BY <2>2, <2>3, <2>4, <2>5
<1> HIDE DEF Good
<1>6. ASSUME NEW k \in Bad, \A l \in Bad : k <= l PROVE FALSE
  <2>1. k \in 1..n /\ k - 1 \in 0..n /\ k - 1 \notin Bad
    BY <1>1, <1>4, <1>6
  <2> QED BY <1>5, <2>1
<1>7. Bad \in SUBSET Nat
  OBVIOUS
<1>8. Bad = {} => Good(n)
  <2>1. n \in 0..n
    BY ONLY <1>1
  <2> QED BY <2>1
<1> HIDE DEF Bad
<1>9. Good(n)
  BY <1>6, <1>7, <1>8, Smallest
<1>10. ~(n < m)
  BY <1>1
<1> QED BY <1>3, <1>9, <1>10 DEF Good

\* What daily_verification reports of a log with one record whose content fails.
LEMMA ReportNames ==
  ASSUME NEW rs, Len(rs) \in Nat, NEW i \in 2..Len(rs),
         \A k \in 2..Len(rs) : LinkOk(rs, k) /\ ChainOk(rs, k) /\ (ContentOk(rs, k) <=> k # i)
  PROVE  /\ ~daily_verification(rs).is_valid
         /\ ToSet(daily_verification(rs).broken_links) = {rs[i].record_id}
<1> DEFINE n == Len(rs) - 1
           x == rs[i].record_id
           Broken(k) == (IF LinkOk(rs, k) THEN <<>> ELSE <<rs[k].record_id>>)
                    \o (IF ContentOk(rs, k) THEN <<>> ELSE <<rs[k].record_id>>)
                    \o (IF ChainOk(rs, k) THEN <<>> ELSE <<rs[k].record_id>>)
           parts == [k \in 1..n |-> Broken(k + 1)]
<1>1. n \in Nat /\ i - 1 \in 1..n
  OBVIOUS
<1>2. /\ daily_verification(rs).is_valid = (FlattenSeq(parts) = <<>>)
      /\ daily_verification(rs).broken_links = FlattenSeq(parts)
  BY DEF daily_verification
<1>3. ASSUME NEW k \in 1..n PROVE Broken(k + 1) = IF k = i - 1 THEN <<x>> ELSE <<>>
  <2>1. k + 1 \in 2..Len(rs) /\ (k + 1 = i <=> k = i - 1)
    BY <1>1
  <2>2. /\ LinkOk(rs, k + 1) /\ ChainOk(rs, k + 1)
        /\ (ContentOk(rs, k + 1) <=> k # i - 1)
    BY <2>1
  <2>3. (<<>> \o <<>>) \o <<>> = <<>> /\ (<<>> \o <<x>>) \o <<>> = <<x>>
    OBVIOUS
  <2>4. k = i - 1 => rs[k + 1].record_id = x
    BY <2>1
  <2> HIDE DEF x
  <2>5. CASE k = i - 1
    <3>1. Broken(k + 1) = (<<>> \o <<rs[k + 1].record_id>>) \o <<>>
      BY <2>2, <2>5
    <3> QED BY <3>1, <2>3, <2>4, <2>5
  <2>6. CASE k # i - 1
    <3>1. Broken(k + 1) = (<<>> \o <<>>) \o <<>>
      BY <2>2, <2>6
    <3> QED BY <3>1, <2>3, <2>6
  <2> QED BY <2>5, <2>6
<1> HIDE DEF Broken, x
<1>4. \A k \in 1..n : parts[k] = IF k = i - 1 THEN <<x>> ELSE <<>>
  BY <1>3
<1>5. parts \in Seq(Seq({x})) /\ Len(parts) = n
  <2>1. <<x>> \in Seq({x}) /\ <<>> \in Seq({x})
    OBVIOUS
  <2>2. \A k \in 1..n : parts[k] \in Seq({x})
    BY <1>4, <2>1
  <2>3. parts \in [1..n -> Seq({x})]
    BY <2>2
  <2> HIDE DEF parts
  <2> QED BY <2>3, <1>1
<1> HIDE DEF parts, n
<1>6. FlattenSeq(parts) = <<x>>
  BY <1>1, <1>4, <1>5, FlattenOne
<1>7. <<x>> # <<>> /\ ToSet(<<x>>) = {x}
  BY DEF ToSet
<1> QED BY <1>2, <1>6, <1>7 DEF x

\* Flattening empty parts gives nothing.
LEMMA FlattenNone ==
  ASSUME NEW S, NEW parts \in Seq(Seq(S)), \A k \in 1..Len(parts) : parts[k] = <<>>
  PROVE  FlattenSeq(parts) = <<>>
<1>1. PICK n \in Nat : n = Len(parts)
  OBVIOUS
<1>2. PICK acc : FlattenedUpTo(acc, S, parts)
  BY FlattenChain
<1>3. /\ acc[0] = <<>> /\ acc[n] = FlattenSeq(parts)
      /\ \A k \in 1..n : acc[k] = acc[k - 1] \o <<>>
  BY <1>1, <1>2 DEF FlattenedUpTo
<1> DEFINE Bad == {k \in 0..n : acc[k] # <<>>}
<1>4. ASSUME NEW k \in Bad, \A l \in Bad : k <= l PROVE FALSE
  <2>1. k \in 1..n /\ k - 1 \in 0..n /\ k - 1 \notin Bad
    BY <1>1, <1>3, <1>4
  <2>2. acc[k] = <<>> \o <<>>
    BY <1>3, <2>1
  <2> QED BY <2>2
<1>5. Bad \in SUBSET Nat
  OBVIOUS
<1>6. Bad = {} => acc[n] = <<>>
  <2>1. n \in 0..n
    BY ONLY <1>1
  <2> QED BY <2>1
<1> HIDE DEF Bad
<1> QED BY <1>3, <1>4, <1>5, <1>6, Smallest

\* What daily_verification reports of a log in which every test holds.
LEMMA ReportIsEmpty ==
  ASSUME NEW rs, Len(rs) \in Nat,
         \A k \in 2..Len(rs) : LinkOk(rs, k) /\ ChainOk(rs, k) /\ ContentOk(rs, k)
  PROVE  /\ daily_verification(rs).is_valid
         /\ ToSet(daily_verification(rs).broken_links) = {}
<1> DEFINE n == Len(rs) - 1
           Broken(k) == (IF LinkOk(rs, k) THEN <<>> ELSE <<rs[k].record_id>>)
                    \o (IF ContentOk(rs, k) THEN <<>> ELSE <<rs[k].record_id>>)
                    \o (IF ChainOk(rs, k) THEN <<>> ELSE <<rs[k].record_id>>)
           parts == [k \in 1..n |-> Broken(k + 1)]
<1>1. /\ daily_verification(rs).is_valid = (FlattenSeq(parts) = <<>>)
      /\ daily_verification(rs).broken_links = FlattenSeq(parts)
  BY DEF daily_verification
<1>2. ASSUME NEW k \in 1..n PROVE Broken(k + 1) = <<>>
  <2>1. LinkOk(rs, k + 1) /\ ChainOk(rs, k + 1) /\ ContentOk(rs, k + 1)
    <3>1. k + 1 \in 2..Len(rs)
      OBVIOUS
    <3> QED BY <3>1
  <2>2. (<<>> \o <<>>) \o <<>> = <<>>
    OBVIOUS
  <2> QED BY <2>1, <2>2
<1> HIDE DEF Broken
<1>3. \A k \in 1..n : parts[k] = <<>>
  BY <1>2
<1>4. FlattenSeq(parts) = <<>>
  <2>1. CASE Len(rs) = 0
    <3>1. n = -1 /\ 1..n = {}
      BY <2>1
    <3>2. parts = <<>>
      BY <3>1
    <3> HIDE DEF parts
    <3>3. parts \in Seq(Seq({0}))
      BY <3>2
    <3>4. \A k \in 1..Len(parts) : parts[k] = <<>>
      BY <3>2
    <3> QED BY <3>3, <3>4, FlattenNone
  <2>2. CASE Len(rs) # 0
    <3>1. n \in Nat
      BY <2>2
    <3>2. parts \in [1..n -> Seq({0})]
      <4>1. <<>> \in Seq({0})
        OBVIOUS
      <4>2. \A k \in 1..n : parts[k] \in Seq({0})
        BY <1>3, <4>1
      <4> QED BY <4>2
    <3> HIDE DEF parts, n
    <3>3. parts \in Seq(Seq({0})) /\ Len(parts) = n
      BY <3>1, <3>2
    <3> QED BY <1>3, <3>3, FlattenNone
  <2> QED BY <2>1, <2>2
<1> HIDE DEF parts
<1>5. ToSet(<<>>) = {}
  BY DEF ToSet
<1> QED BY <1>1, <1>4, <1>5

\* What AlterationsFound says of one change.
ToldApart(altered, i) ==
    LET report == daily_verification(altered)
        told   == compute_content_hash(altered[i]) # compute_content_hash(records[i])
    IN /\ verify_chain(altered) <=> ~told
       /\ report.is_valid <=> ~told
       /\ ToSet(report.broken_links) = IF told THEN {records[i].record_id} ELSE {}
       /\ SeparatorFree(altered[i]) /\ SeparatorFree(records[i]) => told

\* A log with one content changed is refused, and the report of the day names
\* the record and no other, exactly when the text hashed has changed, which it
\* always has between contents free of the separators; a removed record is
\* missed by the chain.  This is for any contents and any length.
THEOREM AlterationsAlwaysFound == Spec => []AlterationsFound
<1>1. IInv /\ FormInv => AlterationsFound
  <2> SUFFICES ASSUME IInv, FormInv, NEW i \in 2..Len(records)
               PROVE  /\ \A op \in Operations, actor \in Actors, meta \in Metadatas,
                            time \in Times :
                            Altered(i, op, actor, meta, time) # records =>
                                ToldApart(Altered(i, op, actor, meta, time), i)
                      /\ i < Len(records) => ~verify_chain(RemoveAt(records, i))
    BY DEF AlterationsFound, Altered, ToldApart
  <2>1. PICK n \in Nat : n = Len(records) /\ DOMAIN records = 1..n
    BY PushBack DEF IInv, SizeInv
  <2>2. records = [k \in 1..n |-> records[k]]
    <3>1. PICK S : records \in Seq(S)
      BY DEF IInv, SizeInv, IsASeq
    <3> QED BY <3>1, <2>1
  <2>3. ASSUME NEW op \in Operations, NEW actor \in Actors, NEW meta \in Metadatas,
               NEW time \in Times, Altered(i, op, actor, meta, time) # records
        PROVE  ToldApart(Altered(i, op, actor, meta, time), i)
    <3> DEFINE r == records[i]
               t == [r EXCEPT !.operation = op, !.actor_identity = actor,
                              !.metadata = meta, !.timestamp = time]
               altered == Altered(i, op, actor, meta, time)
    <3>1. altered = [records EXCEPT ![i] = t]
      BY DEF Altered
    <3>2. IsRecord(r) /\ i \in 1..n
      BY <2>1 DEF FormInv
    <3> HIDE DEF r
    <3>3. /\ t.operation = op /\ t.actor_identity = actor /\ t.metadata = meta /\ t.timestamp = time
          /\ t.record_id = r.record_id /\ t.prev_hash = r.prev_hash
          /\ t.content_hash = r.content_hash /\ t.chain_hash = r.chain_hash
      BY <3>2 DEF IsRecord
    <3>4. \/ op # r.operation \/ actor # r.actor_identity
          \/ meta # r.metadata \/ time # r.timestamp
      <4> SUFFICES ASSUME op = r.operation, actor = r.actor_identity,
                          meta = r.metadata, time = r.timestamp
                   PROVE  FALSE
        OBVIOUS
      <4>1. t = r
        BY <3>2 DEF IsRecord
      <4> HIDE DEF t
      <4>2. [records EXCEPT ![i] = t] = records
        BY <4>1, <2>2, <3>2 DEF r
      <4> QED BY <4>2, <3>1, <2>3
    <3> HIDE DEF t, altered
    <3>5. DOMAIN altered = 1..n /\ altered[i] = t /\ \A k \in 1..n : k # i => altered[k] = records[k]
      BY <2>1, <3>1, <3>2
    <3>6. Len(altered) = n
      BY <3>5
    <3> DEFINE told == compute_content_hash(t) # compute_content_hash(r)
    <3>9. SeparatorFree(t) /\ SeparatorFree(r) => told
      <4> SUFFICES ASSUME SeparatorFree(t), SeparatorFree(r) PROVE told
        OBVIOUS
      <4>1. Legible(t)
        BY <3>3, CallersAreLegible
      <4>2. Legible(r)
        BY <2>1, <3>2, CallersAreLegible DEF IInv, ContentInv, r
      <4> QED BY <3>3, <3>4, <4>1, <4>2, ContentsAreTold
    <3>10. \A k \in 1..n : /\ altered[k].prev_hash = records[k].prev_hash
                            /\ altered[k].content_hash = records[k].content_hash
                            /\ altered[k].chain_hash = records[k].chain_hash
      BY <3>3, <3>5 DEF r
    <3>11. ASSUME NEW k \in 2..n
           PROVE  /\ LinkOk(altered, k) /\ ChainOk(altered, k)
                  /\ ContentOk(altered, k) <=> (k # i \/ ~told)
      <4>1. k \in 1..n /\ k - 1 \in 1..n /\ k # 1
        BY <2>1
      <4>2. LinkOk(altered, k)
        BY <4>1, <3>10, <2>1 DEF LinkOk, IInv, HashInv
      <4>3. ChainOk(altered, k)
        BY <4>1, <3>10, <2>1 DEF ChainOk, IInv, HashInv
      <4>4. CASE k = i
        <5>1. r.content_hash = compute_content_hash(r)
          BY <2>1, <3>2 DEF IInv, HashInv, r
        <5>2. ContentOk(altered, k) <=> ~told
          BY <4>4, <5>1, <3>3, <3>5 DEF ContentOk
        <5> QED BY <4>2, <4>3, <4>4, <5>2
      <4>5. CASE k # i
        <5>1. records[k].content_hash = compute_content_hash(records[k])
          BY <2>1, <4>1 DEF IInv, HashInv
        <5>2. ContentOk(altered, k)
          BY <4>1, <4>5, <5>1, <3>5 DEF ContentOk
        <5> QED BY <4>2, <4>3, <4>5, <5>2
      <4> QED BY <4>4, <4>5
    <3> HIDE DEF told
    <3>12. i \in 2..Len(altered) /\ Len(altered) \in Nat
      BY <2>1, <3>6
    <3>13. altered[i].record_id = records[i].record_id
      BY <3>3, <3>5 DEF r
    <3>14. CASE told
      <4>1. \A k \in 2..Len(altered) :
               LinkOk(altered, k) /\ ChainOk(altered, k) /\ (ContentOk(altered, k) <=> k # i)
        BY <3>6, <3>11, <3>14
      <4>2. ~verify_chain(altered)
        BY <3>12, <4>1 DEF verify_chain
      <4>3. /\ ~daily_verification(altered).is_valid
            /\ ToSet(daily_verification(altered).broken_links) = {records[i].record_id}
        BY <3>12, <3>13, <4>1, ReportNames
      <4> QED BY <3>5, <3>9, <3>14, <4>2, <4>3 DEF ToldApart, told, r, altered
    <3>15. CASE ~told
      <4>1. \A k \in 2..Len(altered) :
               LinkOk(altered, k) /\ ChainOk(altered, k) /\ ContentOk(altered, k)
        BY <3>6, <3>11, <3>15
      <4>2. verify_chain(altered)
        BY <4>1 DEF verify_chain
      <4>3. /\ daily_verification(altered).is_valid
            /\ ToSet(daily_verification(altered).broken_links) = {}
        BY <3>12, <4>1, ReportIsEmpty
      <4> QED BY <3>5, <3>9, <3>15, <4>2, <4>3 DEF ToldApart, told, r, altered
    <3> QED BY <3>14, <3>15
  <2>4. i < Len(records) => ~verify_chain(RemoveAt(records, i))
    BY RefusesTampering DEF TamperingRefused
  <2> QED BY <2>3, <2>4
<1> QED BY <1>1, Inductive, FormHolds, PTL
=============================================================================
