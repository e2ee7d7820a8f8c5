----------------------------- MODULE StoreProofs ----------------------------
(***************************************************************************)
(* Proofs about the table store and the importers on top of it.            *)
(*                                                                         *)
(* ObjectStore, for every set of clients, tables and rows and every bound  *)
(* on the part numbers: TypeOK and CallInv are inductive together; the     *)
(* rest of IInv is preserved conjunct by conjunct, each lemma naming the   *)
(* conjuncts it needs, one step per action.  The store is then shown to    *)
(* implement TableLog.                                                     *)
(*                                                                         *)
(* Import, for every set of clients, files and requests: the composition   *)
(* is a behaviour of the store, so what is proved of the store holds under *)
(* concurrent imports; and only rows that passed the checks reach a table  *)
(* that is filled by strict imports.                                       *)
(***************************************************************************)
EXTENDS StoreImplementsLog, Import, TLAPS

(***************************************************************************)
(* The inductive invariant behind AckedDurable, VersionsOwnTheirParts and  *)
(* SavedVersionsGrow, when no metadata.json is skipped at start-up.        *)
(***************************************************************************)
\* flush() alone holds the mutex over several steps, and only over known tables.
LockInv ==
    \A c \in Clients :
        /\ pc[c] = "flushing" <=> mutex = c
        /\ todo[c] \subseteq registered

\* What the arguments of a call are known to be while it runs.
CallInv ==
    \A c \in Clients :
        /\ pc[c] # "idle" => call[c].table \in registered
        /\ pc[c] = "base" => call[c].op = "register"
        /\ pc[c] \in {"open", "write", "add"} => call[c].op = "append"
        /\ call[c].op = "append" => call[c].part \in Parts /\ call[c].rows \in Rows

\* The part of an append that is not recorded yet is below the counter, belongs
\* to no other such append and to no recorded version.
FreshInv ==
    /\ \A t \in Tables : \A i \in DOMAIN versions[t] : versions[t][i].part < next_part
    /\ \A c \in Clients : Unrecorded(c) =>
          /\ call[c].part < next_part
          /\ \A d \in Clients : Unrecorded(d) /\ d # c => call[d].part # call[c].part
          /\ \A t \in Tables : \A i \in DOMAIN versions[t] :
                versions[t][i].part # call[c].part

\* Memory never lags behind the disk.
MemoryAheadInv ==
    /\ onDisk \subseteq registered
    /\ \A t \in Tables :
          /\ IsPrefix(saved[t], versions[t])
          /\ t \notin registered => versions[t] = <<>>
          /\ t \notin onDisk => saved[t] = <<>>

\* How far the version of a running append has come.
AppendInv ==
    \A c \in Clients :
        LET v == [part |-> call[c].part, rows |-> call[c].rows] IN
        /\ pc[c] = "add" => files[call[c].table][call[c].part] = call[c].rows
        /\ pc[c] \in {"flush", "flushing"} /\ call[c].op = "append"
              => Contains(versions[call[c].table], v)
        /\ pc[c] = "flushing" /\ call[c].op = "append" /\ call[c].table \notin todo[c]
              => Contains(saved[call[c].table], v)

\* A running scan owes only what was acknowledged for its table.
ScanInv ==
    \A c \in Clients :
        /\ pc[c] \notin {"scan", "empty"} => scan[c] = NoScan
        /\ pc[c] = "empty" => scan[c].seen = {}
        /\ \A v \in scan[c].must :
              [table |-> call[c].table, part |-> v.part, rows |-> v.rows] \in acked

IInv ==
    /\ TypeOK /\ LockInv /\ CallInv /\ FreshInv /\ MemoryAheadInv /\ AppendInv /\ ScanInv
    /\ VersionsOwnTheirParts /\ AckedDurable /\ ScanCoversAcked

-----------------------------------------------------------------------------
(***************************************************************************)
(* Sequences of versions                                                   *)
(***************************************************************************)
USE BoundsAssumption, SentinelAssumption

\* The part number of a recorded version is one that was handed out.
LEMMA VersionAt ==
  ASSUME NEW s \in Seq(Version), NEW i \in DOMAIN s
  PROVE  s[i].part \in Nat /\ s[i].part \in Parts
<1>1. s[i] \in Version
  OBVIOUS
<1>2. QED
  BY <1>1 DEF Version, Parts

\* A prefix agrees with the longer list at each of its positions.
LEMMA PrefixElement ==
  ASSUME NEW s \in Seq(Version), NEW r \in Seq(Version), IsPrefix(s, r),
         NEW i \in DOMAIN s
  PROVE  i \in DOMAIN r /\ r[i] = s[i]
<1>1. i \in 1..Len(s) /\ i \in 1..Len(r) /\ Len(s) <= Len(r)
  BY DEF IsPrefix
<1>2. SubSeq(s, 1, Len(s))[i] = s[i] /\ SubSeq(r, 1, Len(s))[i] = r[i]
  BY <1>1
<1>3. QED
  BY <1>1, <1>2 DEF IsPrefix

\* What a prefix holds, the longer list holds.
LEMMA PrefixContains ==
  ASSUME NEW s \in Seq(Version), NEW r \in Seq(Version), IsPrefix(s, r),
         NEW v, Contains(s, v)
  PROVE  Contains(r, v)
  BY PrefixElement DEF Contains

\* A list is a prefix of itself, and the empty list of any list.
LEMMA PrefixReflexive ==
  ASSUME NEW s \in Seq(Version)
  PROVE  IsPrefix(s, s) /\ IsPrefix(<<>>, s)
  BY DEF IsPrefix

\* push_back at the end keeps what was a prefix a prefix.
LEMMA PrefixAppend ==
  ASSUME NEW s \in Seq(Version), NEW r \in Seq(Version), IsPrefix(s, r), NEW v \in Version
  PROVE  IsPrefix(s, Append(r, v))
<1>1. Append(r, v) \in Seq(Version) /\ Len(Append(r, v)) = Len(r) + 1
  OBVIOUS
<1>2. SubSeq(Append(r, v), 1, Len(s)) = SubSeq(r, 1, Len(s))
  BY <1>1 DEF IsPrefix
<1>3. QED
  BY <1>1, <1>2 DEF IsPrefix

\* push_back adds the version and loses none.
LEMMA AppendContains ==
  ASSUME NEW s \in Seq(Version), NEW v \in Version
  PROVE  /\ Contains(Append(s, v), v)
         /\ \A w : Contains(s, w) => Contains(Append(s, v), w)
<1>1. /\ Append(s, v) \in Seq(Version)
      /\ Append(s, v)[Len(s) + 1] = v /\ Len(s) + 1 \in DOMAIN Append(s, v)
  OBVIOUS
<1>2. \A i \in DOMAIN s : i \in DOMAIN Append(s, v) /\ Append(s, v)[i] = s[i]
  OBVIOUS
<1>3. QED
  BY <1>1, <1>2 DEF Contains

\* The initial state is well typed.
LEMMA TypeInit == Init => TypeOK /\ CallInv
  BY DEF Init, TypeOK, CallInv, NoCall, NoScan, Labels, Parts, Version, Ack

\* Every step preserves the types; a call carries a part and rows once it writes.
LEMMA TypeStep == TypeOK /\ CallInv /\ [Next]_vars => TypeOK'
<1> SUFFICES ASSUME TypeOK, CallInv, [Next]_vars PROVE TypeOK'
  OBVIOUS
<1> USE DEF TypeOK, CallInv, Go, Return, NoCall, NoScan, Labels, memVars, diskVars
<1>1. ASSUME NEW c \in Clients, NEW t \in Tables, CreateTable(c, t) PROVE TypeOK'
  <2>1. versions' \in [Tables -> Seq(Version)]
    BY <1>1 DEF CreateTable, CreateTableAnyway
  <2>2. call' \in [Clients -> [op : {"none", "register", "append", "scan"},
                               table : Tables \union {None}, part : Nat,
                               rows : Rows \union {None}]]
    BY <1>1 DEF CreateTable, CreateTableAnyway
  <2>3. QED
    BY <1>1, <2>1, <2>2 DEF CreateTable, CreateTableAnyway
<1>2. ASSUME NEW c \in Clients, MakeBaseDir(c) PROVE TypeOK'
  BY <1>2 DEF MakeBaseDir
<1>3. ASSUME NEW c \in Clients, MakeBaseDirFails(c) PROVE TypeOK'
  BY <1>3 DEF MakeBaseDirFails
<1>4. ASSUME NEW c \in Clients, NEW t \in Tables, NEW r \in Rows, AppendStart(c, t, r)
      PROVE TypeOK'
  BY <1>4 DEF AppendStart, Parts
<1>5. ASSUME NEW c \in Clients, OpenPart(c) PROVE TypeOK'
  BY <1>5 DEF OpenPart, PutFile
<1>6. ASSUME NEW c \in Clients, OpenPartFails(c) PROVE TypeOK'
  BY <1>6 DEF OpenPartFails
<1>7. ASSUME NEW c \in Clients, WritePart(c) PROVE TypeOK'
  BY <1>7 DEF WritePart, PutFile
<1>8. ASSUME NEW c \in Clients, WritePartFails(c) PROVE TypeOK'
  BY <1>8 DEF WritePartFails
<1>9. ASSUME NEW c \in Clients, AddVersion(c) PROVE TypeOK'
  <2> DEFINE v == [part |-> call[c].part, rows |-> call[c].rows]
  <2>1. v \in Version
    BY <1>9 DEF AddVersion, RecordVersion, Version
  <2>2. versions' \in [Tables -> Seq(Version)]
    BY <1>9, <2>1 DEF AddVersion, RecordVersion
  <2>3. QED
    BY <1>9, <2>2 DEF AddVersion, RecordVersion
<1>10. ASSUME NEW c \in Clients, FlushLock(c) PROVE TypeOK'
  BY <1>10 DEF FlushLock
<1>11. ASSUME NEW c \in Clients, NEW t \in Tables, FlushTable(c, t) PROVE TypeOK'
  BY <1>11 DEF FlushTable
<1>12. ASSUME NEW c \in Clients, FlushFails(c) PROVE TypeOK'
  BY <1>12 DEF FlushFails, FlushReturns
<1>13. ASSUME NEW c \in Clients, FlushDone(c) PROVE TypeOK'
  BY <1>13 DEF FlushDone, FlushReturns, Report, Ack
<1>14. ASSUME NEW c \in Clients, NEW t \in Tables, ScanStart(c, t) \/ ScanUnlisted(c, t)
      PROVE TypeOK'
  <2>1. CASE ScanStart(c, t)
    BY <2>1 DEF ScanStart, ScanGoes, AckedVersions, Listing, Version, Ack
  <2>2. CASE ScanUnlisted(c, t)
    BY <2>2 DEF ScanUnlisted, ScanGoes, AckedVersions, Version, Ack
  <2>3. QED
    BY <1>14, <2>1, <2>2
<1>15. ASSUME NEW c \in Clients, NEW p \in Parts, ScanRead(c, p) PROVE TypeOK'
  <2>1. [part |-> p, rows |-> files[call[c].table][p]] \in Version
    BY <1>15 DEF ScanRead, Version
  <2>2. scan' \in [Clients -> [todo : SUBSET Parts, seen : SUBSET Version,
                               must : SUBSET Version]]
    BY <1>15, <2>1 DEF ScanRead
  <2>3. QED
    BY <1>15, <2>2 DEF ScanRead
<1>16. ASSUME NEW c \in Clients, NEW p \in Parts, ScanFails(c, p) PROVE TypeOK'
  BY <1>16 DEF ScanFails, ScanEnds
<1>17. ASSUME NEW c \in Clients, ScanDone(c) \/ ScanReturnsEmpty(c) PROVE TypeOK'
  <2>1. CASE ScanDone(c)
    BY <2>1 DEF ScanDone, ScanEnds
  <2>2. CASE ScanReturnsEmpty(c)
    BY <2>2 DEF ScanReturnsEmpty, ScanEnds
  <2>3. QED
    BY <1>17, <2>1, <2>2
<1>18. ASSUME NEW loaded \in SUBSET Tables, Restart(loaded) PROVE TypeOK'
  BY <1>18 DEF Restart
<1>19. CASE UNCHANGED vars
  BY <1>19 DEF vars, procVars
<1>20. QED
  BY <1>1, <1>2, <1>3, <1>4, <1>5, <1>6, <1>7, <1>8, <1>9, <1>10, <1>11, <1>12, <1>13,
     <1>14, <1>15, <1>16, <1>17, <1>18, <1>19 DEF Next, Start, Progress

\* A call keeps its table registered and its arguments until it returns.
LEMMA CallStep == TypeOK /\ CallInv /\ [Next]_vars => CallInv'
<1> SUFFICES ASSUME TypeOK, CallInv, [Next]_vars PROVE CallInv'
  OBVIOUS
<1> USE DEF TypeOK, CallInv, Go, Return, NoCall, Labels, memVars, diskVars
<1>1. ASSUME NEW c \in Clients, NEW t \in Tables, CreateTable(c, t) PROVE CallInv'
  BY <1>1 DEF CreateTable, CreateTableAnyway
<1>2. ASSUME NEW c \in Clients, MakeBaseDir(c) PROVE CallInv'
  BY <1>2 DEF MakeBaseDir
<1>3. ASSUME NEW c \in Clients, MakeBaseDirFails(c) PROVE CallInv'
  BY <1>3 DEF MakeBaseDirFails
<1>4. ASSUME NEW c \in Clients, NEW t \in Tables, NEW r \in Rows, AppendStart(c, t, r)
      PROVE CallInv'
  BY <1>4 DEF AppendStart
<1>5. ASSUME NEW c \in Clients, OpenPart(c) PROVE CallInv'
  BY <1>5 DEF OpenPart
<1>6. ASSUME NEW c \in Clients, OpenPartFails(c) PROVE CallInv'
  BY <1>6 DEF OpenPartFails
<1>7. ASSUME NEW c \in Clients, WritePart(c) PROVE CallInv'
  BY <1>7 DEF WritePart
<1>8. ASSUME NEW c \in Clients, WritePartFails(c) PROVE CallInv'
  BY <1>8 DEF WritePartFails
<1>9. ASSUME NEW c \in Clients, AddVersion(c) PROVE CallInv'
  BY <1>9 DEF AddVersion, RecordVersion
<1>10. ASSUME NEW c \in Clients, FlushLock(c) PROVE CallInv'
  BY <1>10 DEF FlushLock
<1>11. ASSUME NEW c \in Clients, NEW t \in Tables, FlushTable(c, t) PROVE CallInv'
  BY <1>11 DEF FlushTable
<1>12. ASSUME NEW c \in Clients, FlushFails(c) PROVE CallInv'
  BY <1>12 DEF FlushFails, FlushReturns
<1>13. ASSUME NEW c \in Clients, FlushDone(c) PROVE CallInv'
  BY <1>13 DEF FlushDone, FlushReturns
<1>14. ASSUME NEW c \in Clients, NEW t \in Tables, ScanStart(c, t) \/ ScanUnlisted(c, t)
      PROVE CallInv'
  <2>1. CASE ScanStart(c, t)
    BY <2>1 DEF ScanStart, ScanGoes, AckedVersions, Listing
  <2>2. CASE ScanUnlisted(c, t)
    BY <2>2 DEF ScanUnlisted, ScanGoes, AckedVersions
  <2>3. QED
    BY <1>14, <2>1, <2>2
<1>15. ASSUME NEW c \in Clients, NEW p \in Parts, ScanRead(c, p) PROVE CallInv'
  BY <1>15 DEF ScanRead
<1>16. ASSUME NEW c \in Clients, NEW p \in Parts, ScanFails(c, p) PROVE CallInv'
  BY <1>16 DEF ScanFails, ScanEnds
<1>17. ASSUME NEW c \in Clients, ScanDone(c) \/ ScanReturnsEmpty(c) PROVE CallInv'
  <2>1. CASE ScanDone(c)
    BY <2>1 DEF ScanDone, ScanEnds
  <2>2. CASE ScanReturnsEmpty(c)
    BY <2>2 DEF ScanReturnsEmpty, ScanEnds
  <2>3. QED
    BY <1>17, <2>1, <2>2
<1>18. ASSUME NEW loaded \in SUBSET Tables, Restart(loaded) PROVE CallInv'
  BY <1>18 DEF Restart
<1>19. CASE UNCHANGED vars
  BY <1>19 DEF vars, procVars
<1>20. QED
  BY <1>1, <1>2, <1>3, <1>4, <1>5, <1>6, <1>7, <1>8, <1>9, <1>10, <1>11, <1>12, <1>13,
     <1>14, <1>15, <1>16, <1>17, <1>18, <1>19 DEF Next, Start, Progress

\* The mutex and the flush loop: who holds it, and what is left to write.
LEMMA LockStep == TypeOK /\ LockInv /\ [Next]_vars => LockInv'
<1> SUFFICES ASSUME TypeOK, LockInv, [Next]_vars PROVE LockInv'
  OBVIOUS
<1> USE DEF LockInv, TypeOK, Go, Return, NoCall, NoScan, Labels, memVars, diskVars
<1>1. ASSUME NEW c \in Clients, NEW t \in Tables, CreateTable(c, t) PROVE LockInv'
  BY <1>1 DEF CreateTable, CreateTableAnyway
<1>2. ASSUME NEW c \in Clients, MakeBaseDir(c) PROVE LockInv'
  BY <1>2 DEF MakeBaseDir
<1>3. ASSUME NEW c \in Clients, MakeBaseDirFails(c) PROVE LockInv'
  BY <1>3 DEF MakeBaseDirFails
<1>4. ASSUME NEW c \in Clients, NEW t \in Tables, NEW r \in Rows, AppendStart(c, t, r)
      PROVE LockInv'
  BY <1>4 DEF AppendStart
<1>5. ASSUME NEW c \in Clients, OpenPart(c) PROVE LockInv'
  BY <1>5 DEF OpenPart
<1>6. ASSUME NEW c \in Clients, OpenPartFails(c) PROVE LockInv'
  BY <1>6 DEF OpenPartFails
<1>7. ASSUME NEW c \in Clients, WritePart(c) PROVE LockInv'
  BY <1>7 DEF WritePart
<1>8. ASSUME NEW c \in Clients, WritePartFails(c) PROVE LockInv'
  BY <1>8 DEF WritePartFails
<1>9. ASSUME NEW c \in Clients, AddVersion(c) PROVE LockInv'
  BY <1>9 DEF AddVersion, RecordVersion
<1>10. ASSUME NEW c \in Clients, FlushLock(c) PROVE LockInv'
  BY <1>10 DEF FlushLock
<1>11. ASSUME NEW c \in Clients, NEW t \in Tables, FlushTable(c, t) PROVE LockInv'
  BY <1>11 DEF FlushTable
<1>12. ASSUME NEW c \in Clients, FlushFails(c) PROVE LockInv'
  BY <1>12 DEF FlushFails, FlushReturns
<1>13. ASSUME NEW c \in Clients, FlushDone(c) PROVE LockInv'
  BY <1>13 DEF FlushDone, FlushReturns
<1>14. ASSUME NEW c \in Clients, NEW t \in Tables, ScanStart(c, t) \/ ScanUnlisted(c, t)
      PROVE LockInv'
  BY <1>14 DEF ScanStart, ScanUnlisted, ScanGoes, AckedVersions, Listing
<1>15. ASSUME NEW c \in Clients, NEW p \in Parts, ScanRead(c, p) PROVE LockInv'
  BY <1>15 DEF ScanRead
<1>16. ASSUME NEW c \in Clients, NEW p \in Parts, ScanFails(c, p) PROVE LockInv'
  BY <1>16 DEF ScanFails, ScanEnds
<1>17. ASSUME NEW c \in Clients, ScanDone(c) \/ ScanReturnsEmpty(c) PROVE LockInv'
  BY <1>17 DEF ScanDone, ScanReturnsEmpty, ScanEnds
<1>18. ASSUME NEW loaded \in SUBSET Tables, Restart(loaded) PROVE LockInv'
  BY <1>18 DEF Restart
<1>19. CASE UNCHANGED vars
  BY <1>19 DEF vars, procVars
<1>20. QED
  BY <1>1, <1>2, <1>3, <1>4, <1>5, <1>6, <1>7, <1>8, <1>9, <1>10, <1>11, <1>12, <1>13,
     <1>14, <1>15, <1>16, <1>17, <1>18, <1>19 DEF Next, Start, Progress

\* Part numbers in flight stay below the counter, distinct and unrecorded;
\* after a restart the counter is above everything recorded.
LEMMA FreshStep ==
  TypeOK /\ CallInv /\ FreshInv /\ MemoryAheadInv /\ [Next]_vars
    => FreshInv'
<1> SUFFICES ASSUME TypeOK, CallInv, FreshInv, MemoryAheadInv, [Next]_vars PROVE FreshInv'
  OBVIOUS
<1> USE DEF FreshInv, CallInv, Unrecorded, MemoryAheadInv, TypeOK, Go, Return, NoCall,
           NoScan, Labels, memVars, diskVars
<1>1. ASSUME NEW c \in Clients, NEW t \in Tables, CreateTable(c, t) PROVE FreshInv'
  BY <1>1 DEF CreateTable, CreateTableAnyway
<1>2. ASSUME NEW c \in Clients, MakeBaseDir(c) PROVE FreshInv'
  BY <1>2 DEF MakeBaseDir
<1>3. ASSUME NEW c \in Clients, MakeBaseDirFails(c) PROVE FreshInv'
  BY <1>3 DEF MakeBaseDirFails
<1>4. ASSUME NEW c \in Clients, NEW t \in Tables, NEW r \in Rows, AppendStart(c, t, r)
      PROVE FreshInv'
  <2>1. next_part \in Nat /\ next_part' = next_part + 1 /\ versions' = versions
    BY <1>4 DEF AppendStart, Parts
  <2>2. \A d \in Clients : Unrecorded(d)' => (Unrecorded(d) /\ call'[d] = call[d])
                                           \/ (d = c /\ call'[d].part = next_part)
    BY <1>4 DEF AppendStart
  <2>3. \A u \in Tables : \A i \in DOMAIN versions[u] :
          versions[u][i].part \in Nat /\ versions[u][i].part < next_part
    BY VersionAt
  <2>4. \A d \in Clients : Unrecorded(d) => call[d].part \in Nat /\ call[d].part < next_part
    OBVIOUS
  <2> HIDE DEF FreshInv, CallInv, TypeOK, Unrecorded
  <2>5. \A d \in Clients : Unrecorded(d)' => call'[d].part < next_part'
    BY <2>1, <2>2, <2>4
  <2>6. \A d, e \in Clients : Unrecorded(d)' /\ Unrecorded(e)' /\ d # e
                                => call'[d].part # call'[e].part
    BY <2>1, <2>2, <2>4 DEF FreshInv
  <2>7. QED
    BY <2>1, <2>2, <2>3, <2>5, <2>6 DEF FreshInv
<1>5. ASSUME NEW c \in Clients, OpenPart(c) PROVE FreshInv'
  BY <1>5 DEF OpenPart
<1>6. ASSUME NEW c \in Clients, OpenPartFails(c) PROVE FreshInv'
  BY <1>6 DEF OpenPartFails
<1>7. ASSUME NEW c \in Clients, WritePart(c) PROVE FreshInv'
  BY <1>7 DEF WritePart
<1>8. ASSUME NEW c \in Clients, WritePartFails(c) PROVE FreshInv'
  BY <1>8 DEF WritePartFails
<1>9. ASSUME NEW c \in Clients, AddVersion(c) PROVE FreshInv'
  BY <1>9 DEF AddVersion, RecordVersion
<1>10. ASSUME NEW c \in Clients, FlushLock(c) PROVE FreshInv'
  BY <1>10 DEF FlushLock
<1>11. ASSUME NEW c \in Clients, NEW t \in Tables, FlushTable(c, t) PROVE FreshInv'
  BY <1>11 DEF FlushTable
<1>12. ASSUME NEW c \in Clients, FlushFails(c) PROVE FreshInv'
  BY <1>12 DEF FlushFails, FlushReturns
<1>13. ASSUME NEW c \in Clients, FlushDone(c) PROVE FreshInv'
  BY <1>13 DEF FlushDone, FlushReturns
<1>14. ASSUME NEW c \in Clients, NEW t \in Tables, ScanStart(c, t) \/ ScanUnlisted(c, t)
      PROVE FreshInv'
  <2>1. CASE ScanStart(c, t)
    BY <2>1 DEF ScanStart, ScanGoes, AckedVersions, Listing
  <2>2. CASE ScanUnlisted(c, t)
    BY <2>2 DEF ScanUnlisted, ScanGoes, AckedVersions
  <2>3. QED
    BY <1>14, <2>1, <2>2
<1>15. ASSUME NEW c \in Clients, NEW p \in Parts, ScanRead(c, p) PROVE FreshInv'
  BY <1>15 DEF ScanRead
<1>16. ASSUME NEW c \in Clients, NEW p \in Parts, ScanFails(c, p) PROVE FreshInv'
  BY <1>16 DEF ScanFails, ScanEnds
<1>17. ASSUME NEW c \in Clients, ScanDone(c) \/ ScanReturnsEmpty(c) PROVE FreshInv'
  <2>1. CASE ScanDone(c)
    BY <2>1 DEF ScanDone, ScanEnds
  <2>2. CASE ScanReturnsEmpty(c)
    BY <2>2 DEF ScanReturnsEmpty, ScanEnds
  <2>3. QED
    BY <1>17, <2>1, <2>2
<1>18. ASSUME NEW loaded \in SUBSET Tables, Restart(loaded) PROVE FreshInv'
  BY <1>18 DEF Restart, ReloadedNextPart, RecordedParts
<1>19. CASE UNCHANGED vars
  BY <1>19 DEF vars, procVars
<1>20. QED
  BY <1>1, <1>2, <1>3, <1>4, <1>5, <1>6, <1>7, <1>8, <1>9, <1>10, <1>11, <1>12, <1>13,
     <1>14, <1>15, <1>16, <1>17, <1>18, <1>19 DEF Next, Start, Progress

\* tables_ never lags behind metadata.json: every flush writes all of it and
\* start-up reads all of it.
LEMMA MemoryAheadStep ==
  ~ReloadMayFail /\ TypeOK /\ LockInv /\ CallInv /\ MemoryAheadInv /\ [Next]_vars
    => MemoryAheadInv'
<1> SUFFICES ASSUME ~ReloadMayFail, TypeOK, LockInv, CallInv, MemoryAheadInv, [Next]_vars
             PROVE MemoryAheadInv'
  OBVIOUS
<1> USE DEF MemoryAheadInv, LockInv, CallInv, TypeOK, Go, Return, NoCall, NoScan, Labels,
           memVars, diskVars
<1>1. ASSUME NEW c \in Clients, NEW t \in Tables, CreateTable(c, t) PROVE MemoryAheadInv'
  BY <1>1 DEF CreateTable, CreateTableAnyway, IsPrefix
<1>2. ASSUME NEW c \in Clients, MakeBaseDir(c) PROVE MemoryAheadInv'
  BY <1>2 DEF MakeBaseDir
<1>3. ASSUME NEW c \in Clients, MakeBaseDirFails(c) PROVE MemoryAheadInv'
  BY <1>3 DEF MakeBaseDirFails
<1>4. ASSUME NEW c \in Clients, NEW t \in Tables, NEW r \in Rows, AppendStart(c, t, r)
      PROVE MemoryAheadInv'
  BY <1>4 DEF AppendStart
<1>5. ASSUME NEW c \in Clients, OpenPart(c) PROVE MemoryAheadInv'
  BY <1>5 DEF OpenPart
<1>6. ASSUME NEW c \in Clients, OpenPartFails(c) PROVE MemoryAheadInv'
  BY <1>6 DEF OpenPartFails
<1>7. ASSUME NEW c \in Clients, WritePart(c) PROVE MemoryAheadInv'
  BY <1>7 DEF WritePart
<1>8. ASSUME NEW c \in Clients, WritePartFails(c) PROVE MemoryAheadInv'
  BY <1>8 DEF WritePartFails
<1>9. ASSUME NEW c \in Clients, AddVersion(c) PROVE MemoryAheadInv'
  <2> DEFINE u == call[c].table
             v == [part |-> call[c].part, rows |-> call[c].rows]
  <2>1. u \in registered /\ v \in Version
    BY <1>9 DEF AddVersion, RecordVersion, Version
  <2>2. IsPrefix(saved[u], Append(versions[u], v))
    BY <2>1, PrefixAppend
  <2>3. QED
    BY <1>9, <2>1, <2>2 DEF AddVersion, RecordVersion
<1>10. ASSUME NEW c \in Clients, FlushLock(c) PROVE MemoryAheadInv'
  BY <1>10 DEF FlushLock
<1>11. ASSUME NEW c \in Clients, NEW t \in Tables, FlushTable(c, t) PROVE MemoryAheadInv'
  <2>1. IsPrefix(versions[t], versions[t]) /\ t \in registered
    BY <1>11, PrefixReflexive DEF FlushTable
  <2>2. QED
    BY <1>11, <2>1 DEF FlushTable
<1>12. ASSUME NEW c \in Clients, FlushFails(c) PROVE MemoryAheadInv'
  BY <1>12 DEF FlushFails, FlushReturns
<1>13. ASSUME NEW c \in Clients, FlushDone(c) PROVE MemoryAheadInv'
  BY <1>13 DEF FlushDone, FlushReturns
<1>14. ASSUME NEW c \in Clients, NEW t \in Tables, ScanStart(c, t) \/ ScanUnlisted(c, t)
      PROVE MemoryAheadInv'
  BY <1>14 DEF ScanStart, ScanUnlisted, ScanGoes, AckedVersions, Listing
<1>15. ASSUME NEW c \in Clients, NEW p \in Parts, ScanRead(c, p) PROVE MemoryAheadInv'
  BY <1>15 DEF ScanRead
<1>16. ASSUME NEW c \in Clients, NEW p \in Parts, ScanFails(c, p) PROVE MemoryAheadInv'
  BY <1>16 DEF ScanFails, ScanEnds
<1>17. ASSUME NEW c \in Clients, ScanDone(c) \/ ScanReturnsEmpty(c) PROVE MemoryAheadInv'
  BY <1>17 DEF ScanDone, ScanReturnsEmpty, ScanEnds
<1>18. ASSUME NEW loaded \in SUBSET Tables, Restart(loaded) PROVE MemoryAheadInv'
  <2>1. loaded = onDisk
    BY <1>18 DEF Restart
  <2>2. \A t \in Tables : IsPrefix(saved[t], saved[t]) /\ IsPrefix(<<>>, saved[t])
    BY PrefixReflexive
  <2>3. QED
    BY <1>18, <2>1, <2>2 DEF Restart
<1>19. CASE UNCHANGED vars
  BY <1>19 DEF vars, procVars
<1>20. QED
  BY <1>1, <1>2, <1>3, <1>4, <1>5, <1>6, <1>7, <1>8, <1>9, <1>10, <1>11, <1>12, <1>13,
     <1>14, <1>15, <1>16, <1>17, <1>18, <1>19 DEF Next, Start, Progress

\* A part file is written only while its number is unrecorded.
LEMMA OwnStep ==
  TypeOK /\ CallInv /\ FreshInv /\ MemoryAheadInv /\ AppendInv /\
  VersionsOwnTheirParts /\ [Next]_vars
    => VersionsOwnTheirParts'
<1> SUFFICES ASSUME TypeOK, CallInv, FreshInv, MemoryAheadInv, AppendInv,
                    VersionsOwnTheirParts, [Next]_vars
             PROVE VersionsOwnTheirParts'
  OBVIOUS
<1> USE DEF VersionsOwnTheirParts, CallInv, FreshInv, Unrecorded, TypeOK, Go, Return,
           NoCall, NoScan, Labels, memVars, diskVars
<1>1. ASSUME NEW c \in Clients, NEW t \in Tables, CreateTable(c, t)
      PROVE VersionsOwnTheirParts'
  BY <1>1 DEF CreateTable, CreateTableAnyway
<1>2. ASSUME NEW c \in Clients, MakeBaseDir(c) PROVE VersionsOwnTheirParts'
  BY <1>2 DEF MakeBaseDir
<1>3. ASSUME NEW c \in Clients, MakeBaseDirFails(c) PROVE VersionsOwnTheirParts'
  BY <1>3 DEF MakeBaseDirFails
<1>4. ASSUME NEW c \in Clients, NEW t \in Tables, NEW r \in Rows, AppendStart(c, t, r)
      PROVE VersionsOwnTheirParts'
  BY <1>4 DEF AppendStart
<1>5. ASSUME NEW c \in Clients, OpenPart(c) PROVE VersionsOwnTheirParts'
  BY <1>5 DEF OpenPart, PutFile
<1>6. ASSUME NEW c \in Clients, OpenPartFails(c) PROVE VersionsOwnTheirParts'
  BY <1>6 DEF OpenPartFails
<1>7. ASSUME NEW c \in Clients, WritePart(c) PROVE VersionsOwnTheirParts'
  BY <1>7 DEF WritePart, PutFile
<1>8. ASSUME NEW c \in Clients, WritePartFails(c) PROVE VersionsOwnTheirParts'
  BY <1>8 DEF WritePartFails
<1>9. ASSUME NEW c \in Clients, AddVersion(c) PROVE VersionsOwnTheirParts'
  BY <1>9, SMTT(120) DEF AddVersion, RecordVersion, AppendInv
<1>10. ASSUME NEW c \in Clients, FlushLock(c) PROVE VersionsOwnTheirParts'
  BY <1>10 DEF FlushLock
<1>11. ASSUME NEW c \in Clients, NEW t \in Tables, FlushTable(c, t)
      PROVE VersionsOwnTheirParts'
  BY <1>11 DEF FlushTable
<1>12. ASSUME NEW c \in Clients, FlushFails(c) PROVE VersionsOwnTheirParts'
  BY <1>12 DEF FlushFails, FlushReturns
<1>13. ASSUME NEW c \in Clients, FlushDone(c) PROVE VersionsOwnTheirParts'
  BY <1>13 DEF FlushDone, FlushReturns
<1>14. ASSUME NEW c \in Clients, NEW t \in Tables, ScanStart(c, t) \/ ScanUnlisted(c, t)
      PROVE VersionsOwnTheirParts'
  BY <1>14 DEF ScanStart, ScanUnlisted, ScanGoes, AckedVersions, Listing
<1>15. ASSUME NEW c \in Clients, NEW p \in Parts, ScanRead(c, p)
      PROVE VersionsOwnTheirParts'
  BY <1>15 DEF ScanRead
<1>16. ASSUME NEW c \in Clients, NEW p \in Parts, ScanFails(c, p)
      PROVE VersionsOwnTheirParts'
  BY <1>16 DEF ScanFails, ScanEnds
<1>17. ASSUME NEW c \in Clients, ScanDone(c) \/ ScanReturnsEmpty(c) PROVE VersionsOwnTheirParts'
  BY <1>17 DEF ScanDone, ScanReturnsEmpty, ScanEnds
<1>18. ASSUME NEW loaded \in SUBSET Tables, Restart(loaded) PROVE VersionsOwnTheirParts'
  <2>1. \A t \in Tables : \A i \in DOMAIN versions'[t] :
          i \in DOMAIN versions[t] /\ versions'[t][i] = versions[t][i]
    BY <1>18, PrefixElement DEF Restart, MemoryAheadInv
  <2>2. files' = files
    BY <1>18 DEF Restart
  <2>3. QED
    BY <2>1, <2>2
<1>19. CASE UNCHANGED vars
  BY <1>19 DEF vars, procVars
<1>20. QED
  BY <1>1, <1>2, <1>3, <1>4, <1>5, <1>6, <1>7, <1>8, <1>9, <1>10, <1>11, <1>12, <1>13,
     <1>14, <1>15, <1>16, <1>17, <1>18, <1>19 DEF Next, Start, Progress

\* From the part file to tables_ to metadata.json, in this order.
LEMMA AppendStep ==
  TypeOK /\ LockInv /\ CallInv /\ FreshInv /\ AppendInv /\ [Next]_vars
    => AppendInv'
<1> SUFFICES ASSUME TypeOK, LockInv, CallInv, FreshInv, AppendInv, [Next]_vars
             PROVE AppendInv'
  OBVIOUS
<1> USE DEF AppendInv, LockInv, CallInv, FreshInv, Unrecorded, TypeOK, Go, Return, NoCall,
           NoScan, Labels, memVars, diskVars
<1>1. ASSUME NEW c \in Clients, NEW t \in Tables, CreateTable(c, t) PROVE AppendInv'
  BY <1>1 DEF CreateTable, CreateTableAnyway
<1>2. ASSUME NEW c \in Clients, MakeBaseDir(c) PROVE AppendInv'
  BY <1>2 DEF MakeBaseDir
<1>3. ASSUME NEW c \in Clients, MakeBaseDirFails(c) PROVE AppendInv'
  BY <1>3 DEF MakeBaseDirFails
<1>4. ASSUME NEW c \in Clients, NEW t \in Tables, NEW r \in Rows, AppendStart(c, t, r)
      PROVE AppendInv'
  BY <1>4 DEF AppendStart
<1>5. ASSUME NEW c \in Clients, OpenPart(c) PROVE AppendInv'
  BY <1>5 DEF OpenPart, PutFile
<1>6. ASSUME NEW c \in Clients, OpenPartFails(c) PROVE AppendInv'
  BY <1>6 DEF OpenPartFails
<1>7. ASSUME NEW c \in Clients, WritePart(c) PROVE AppendInv'
  BY <1>7 DEF WritePart, PutFile
<1>8. ASSUME NEW c \in Clients, WritePartFails(c) PROVE AppendInv'
  BY <1>8 DEF WritePartFails
<1>9. ASSUME NEW c \in Clients, AddVersion(c) PROVE AppendInv'
  <2> DEFINE t == call[c].table
             v == [part |-> call[c].part, rows |-> call[c].rows]
  <2>1. /\ versions' = [versions EXCEPT ![t] = Append(versions[t], v)]
        /\ pc' = [pc EXCEPT ![c] = "flush"] /\ pc[c] = "add"
        /\ call' = call /\ saved' = saved /\ files' = files /\ todo' = todo
    BY <1>9 DEF AddVersion, RecordVersion
  <2>2. t \in Tables /\ v \in Version
    BY <2>1 DEF Version
  <2>3. Contains(versions'[t], v)
    BY <2>1, <2>2, AppendContains
  <2>4. \A u \in Tables : \A w : Contains(versions[u], w) => Contains(versions'[u], w)
    BY <2>1, <2>2, AppendContains
  <2>5. QED
    BY <2>1, <2>2, <2>3, <2>4, ZenonT(60)
<1>10. ASSUME NEW c \in Clients, FlushLock(c) PROVE AppendInv'
  BY <1>10 DEF FlushLock
<1>11. ASSUME NEW c \in Clients, NEW t \in Tables, FlushTable(c, t) PROVE AppendInv'
  BY <1>11 DEF FlushTable
<1>12. ASSUME NEW c \in Clients, FlushFails(c) PROVE AppendInv'
  BY <1>12 DEF FlushFails, FlushReturns
<1>13. ASSUME NEW c \in Clients, FlushDone(c) PROVE AppendInv'
  BY <1>13 DEF FlushDone, FlushReturns
<1>14. ASSUME NEW c \in Clients, NEW t \in Tables, ScanStart(c, t) \/ ScanUnlisted(c, t)
      PROVE AppendInv'
  <2>1. CASE ScanStart(c, t)
    BY <2>1 DEF ScanStart, ScanGoes, AckedVersions, Listing
  <2>2. CASE ScanUnlisted(c, t)
    BY <2>2 DEF ScanUnlisted, ScanGoes, AckedVersions
  <2>3. QED
    BY <1>14, <2>1, <2>2
<1>15. ASSUME NEW c \in Clients, NEW p \in Parts, ScanRead(c, p) PROVE AppendInv'
  BY <1>15 DEF ScanRead
<1>16. ASSUME NEW c \in Clients, NEW p \in Parts, ScanFails(c, p) PROVE AppendInv'
  BY <1>16 DEF ScanFails, ScanEnds
<1>17. ASSUME NEW c \in Clients, ScanDone(c) \/ ScanReturnsEmpty(c) PROVE AppendInv'
  <2>1. CASE ScanDone(c)
    BY <2>1 DEF ScanDone, ScanEnds
  <2>2. CASE ScanReturnsEmpty(c)
    BY <2>2 DEF ScanReturnsEmpty, ScanEnds
  <2>3. QED
    BY <1>17, <2>1, <2>2
<1>18. ASSUME NEW loaded \in SUBSET Tables, Restart(loaded) PROVE AppendInv'
  BY <1>18 DEF Restart
<1>19. CASE UNCHANGED vars
  BY <1>19 DEF vars, procVars
<1>20. QED
  BY <1>1, <1>2, <1>3, <1>4, <1>5, <1>6, <1>7, <1>8, <1>9, <1>10, <1>11, <1>12, <1>13,
     <1>14, <1>15, <1>16, <1>17, <1>18, <1>19 DEF Next, Start, Progress

\* An acknowledged append stays recorded and its file untouched.
LEMMA AckedStep ==
  TypeOK /\ CallInv /\ FreshInv /\ MemoryAheadInv /\ AppendInv /\
  VersionsOwnTheirParts /\ AckedDurable /\ [Next]_vars
    => AckedDurable'
<1> SUFFICES ASSUME TypeOK, CallInv, FreshInv, MemoryAheadInv, AppendInv,
                    VersionsOwnTheirParts, AckedDurable, [Next]_vars
             PROVE AckedDurable'
  OBVIOUS
<1> USE DEF AckedDurable, TypeOK, Go, Return, NoCall, NoScan, Labels, memVars, diskVars
<1>1. ASSUME NEW c \in Clients, NEW t \in Tables, CreateTable(c, t) PROVE AckedDurable'
  BY <1>1 DEF CreateTable, CreateTableAnyway
<1>2. ASSUME NEW c \in Clients, MakeBaseDir(c) PROVE AckedDurable'
  BY <1>2 DEF MakeBaseDir
<1>3. ASSUME NEW c \in Clients, MakeBaseDirFails(c) PROVE AckedDurable'
  BY <1>3 DEF MakeBaseDirFails
<1>4. ASSUME NEW c \in Clients, NEW t \in Tables, NEW r \in Rows, AppendStart(c, t, r)
      PROVE AckedDurable'
  BY <1>4 DEF AppendStart
<1>5. ASSUME NEW c \in Clients, OpenPart(c) PROVE AckedDurable'
  <2>1. \A a \in acked : a.table \in Tables /\ a.part \in Parts /\ a.part # call[c].part
    <3> SUFFICES ASSUME NEW a \in acked
                 PROVE  a.table \in Tables /\ a.part \in Parts /\ a.part # call[c].part
      OBVIOUS
    <3>1. a.table \in Tables /\ a.part \in Parts
      BY DEF Ack
    <3>2. Contains(versions[a.table], [part |-> a.part, rows |-> a.rows])
      BY <3>1, PrefixContains DEF MemoryAheadInv
    <3>3. PICK i \in DOMAIN versions[a.table] :
            versions[a.table][i] = [part |-> a.part, rows |-> a.rows]
      BY <3>1, <3>2 DEF Contains
    <3>4. QED
      BY <1>5, <3>1, <3>3 DEF OpenPart, FreshInv, Unrecorded
  <2>2. \A a \in acked : files'[a.table][a.part] = files[a.table][a.part]
    BY <1>5, <2>1 DEF OpenPart, PutFile
  <2>3. acked' = acked /\ saved' = saved
    BY <1>5 DEF OpenPart
  <2>4. QED
    BY <2>2, <2>3 DEF AckedDurable
<1>6. ASSUME NEW c \in Clients, OpenPartFails(c) PROVE AckedDurable'
  BY <1>6 DEF OpenPartFails
<1>7. ASSUME NEW c \in Clients, WritePart(c) PROVE AckedDurable'
  <2>1. \A a \in acked : a.table \in Tables /\ a.part \in Parts /\ a.part # call[c].part
    <3> SUFFICES ASSUME NEW a \in acked
                 PROVE  a.table \in Tables /\ a.part \in Parts /\ a.part # call[c].part
      OBVIOUS
    <3>1. a.table \in Tables /\ a.part \in Parts
      BY DEF Ack
    <3>2. Contains(versions[a.table], [part |-> a.part, rows |-> a.rows])
      BY <3>1, PrefixContains DEF MemoryAheadInv
    <3>3. PICK i \in DOMAIN versions[a.table] :
            versions[a.table][i] = [part |-> a.part, rows |-> a.rows]
      BY <3>1, <3>2 DEF Contains
    <3>4. QED
      BY <1>7, <3>1, <3>3 DEF WritePart, FreshInv, Unrecorded
  <2>2. \A a \in acked : files'[a.table][a.part] = files[a.table][a.part]
    BY <1>7, <2>1 DEF WritePart, PutFile
  <2>3. acked' = acked /\ saved' = saved
    BY <1>7 DEF WritePart
  <2>4. QED
    BY <2>2, <2>3 DEF AckedDurable
<1>8. ASSUME NEW c \in Clients, WritePartFails(c) PROVE AckedDurable'
  BY <1>8 DEF WritePartFails
<1>9. ASSUME NEW c \in Clients, AddVersion(c) PROVE AckedDurable'
  BY <1>9 DEF AddVersion, RecordVersion
<1>10. ASSUME NEW c \in Clients, FlushLock(c) PROVE AckedDurable'
  BY <1>10 DEF FlushLock
<1>11. ASSUME NEW c \in Clients, NEW t \in Tables, FlushTable(c, t) PROVE AckedDurable'
  <2>1. \A u \in Tables : \A v : Contains(saved[u], v) => Contains(saved'[u], v)
    BY <1>11, PrefixContains DEF FlushTable, MemoryAheadInv
  <2>2. \A a \in acked : a.table \in Tables
    BY DEF Ack
  <2>3. acked' = acked /\ files' = files
    BY <1>11 DEF FlushTable
  <2>4. QED
    BY <2>1, <2>2, <2>3, ZenonT(60)
<1>12. ASSUME NEW c \in Clients, FlushFails(c) PROVE AckedDurable'
  BY <1>12 DEF FlushFails, FlushReturns
<1>13. ASSUME NEW c \in Clients, FlushDone(c) PROVE AckedDurable'
  <2> DEFINE k == call[c]
             v == [part |-> k.part, rows |-> k.rows]
  <2>1. saved' = saved /\ files' = files
    BY <1>13 DEF FlushDone, FlushReturns
  <2>2. CASE k.op = "append"
    <3>1. k.table \in Tables /\ Contains(saved[k.table], v)
      BY <1>13, <2>2 DEF FlushDone, FlushReturns, AppendInv, CallInv
    <3>2. Contains(versions[k.table], v)
      BY <3>1, PrefixContains DEF MemoryAheadInv
    <3>3. files[k.table][k.part] = k.rows
      BY <3>1, <3>2 DEF VersionsOwnTheirParts, Contains
    <3>4. acked' = acked \union {[table |-> k.table, part |-> k.part, rows |-> k.rows]}
      BY <1>13, <2>2 DEF FlushDone, FlushReturns, Report
    <3>5. \A a \in acked' : a \in acked \/ (a.table = k.table /\ a.part = k.part
                                              /\ a.rows = k.rows)
      BY <3>4
    <3>6. QED
      BY <2>1, <3>1, <3>3, <3>5
  <2>3. CASE k.op # "append"
    BY <1>13, <2>1, <2>3 DEF FlushDone, FlushReturns, Report
  <2>4. QED
    BY <2>2, <2>3
<1>14. ASSUME NEW c \in Clients, NEW t \in Tables, ScanStart(c, t) \/ ScanUnlisted(c, t)
      PROVE AckedDurable'
  BY <1>14 DEF ScanStart, ScanUnlisted, ScanGoes, AckedVersions, Listing
<1>15. ASSUME NEW c \in Clients, NEW p \in Parts, ScanRead(c, p) PROVE AckedDurable'
  BY <1>15 DEF ScanRead
<1>16. ASSUME NEW c \in Clients, NEW p \in Parts, ScanFails(c, p) PROVE AckedDurable'
  BY <1>16 DEF ScanFails, ScanEnds
<1>17. ASSUME NEW c \in Clients, ScanDone(c) \/ ScanReturnsEmpty(c) PROVE AckedDurable'
  BY <1>17 DEF ScanDone, ScanReturnsEmpty, ScanEnds
<1>18. ASSUME NEW loaded \in SUBSET Tables, Restart(loaded) PROVE AckedDurable'
  BY <1>18 DEF Restart
<1>19. CASE UNCHANGED vars
  BY <1>19 DEF vars, procVars
<1>20. QED
  BY <1>1, <1>2, <1>3, <1>4, <1>5, <1>6, <1>7, <1>8, <1>9, <1>10, <1>11, <1>12, <1>13,
     <1>14, <1>15, <1>16, <1>17, <1>18, <1>19 DEF Next, Start, Progress

\* A scan owes only what was acknowledged when it began.
LEMMA ScanStep == TypeOK /\ ScanInv /\ [Next]_vars => ScanInv'
<1> SUFFICES ASSUME TypeOK, ScanInv, [Next]_vars PROVE ScanInv'
  OBVIOUS
<1> USE DEF ScanInv, TypeOK, Go, Return, NoCall, NoScan, Labels, memVars, diskVars
<1>1. ASSUME NEW c \in Clients, NEW t \in Tables, CreateTable(c, t) PROVE ScanInv'
  BY <1>1 DEF CreateTable, CreateTableAnyway
<1>2. ASSUME NEW c \in Clients, MakeBaseDir(c) PROVE ScanInv'
  BY <1>2 DEF MakeBaseDir
<1>3. ASSUME NEW c \in Clients, MakeBaseDirFails(c) PROVE ScanInv'
  BY <1>3 DEF MakeBaseDirFails
<1>4. ASSUME NEW c \in Clients, NEW t \in Tables, NEW r \in Rows, AppendStart(c, t, r)
      PROVE ScanInv'
  BY <1>4 DEF AppendStart
<1>5. ASSUME NEW c \in Clients, OpenPart(c) PROVE ScanInv'
  BY <1>5 DEF OpenPart
<1>6. ASSUME NEW c \in Clients, OpenPartFails(c) PROVE ScanInv'
  BY <1>6 DEF OpenPartFails
<1>7. ASSUME NEW c \in Clients, WritePart(c) PROVE ScanInv'
  BY <1>7 DEF WritePart
<1>8. ASSUME NEW c \in Clients, WritePartFails(c) PROVE ScanInv'
  BY <1>8 DEF WritePartFails
<1>9. ASSUME NEW c \in Clients, AddVersion(c) PROVE ScanInv'
  BY <1>9 DEF AddVersion, RecordVersion
<1>10. ASSUME NEW c \in Clients, FlushLock(c) PROVE ScanInv'
  BY <1>10 DEF FlushLock
<1>11. ASSUME NEW c \in Clients, NEW t \in Tables, FlushTable(c, t) PROVE ScanInv'
  BY <1>11 DEF FlushTable
<1>12. ASSUME NEW c \in Clients, FlushFails(c) PROVE ScanInv'
  BY <1>12 DEF FlushFails, FlushReturns
<1>13. ASSUME NEW c \in Clients, FlushDone(c) PROVE ScanInv'
  BY <1>13 DEF FlushDone, FlushReturns
<1>14. ASSUME NEW c \in Clients, NEW t \in Tables, ScanStart(c, t) \/ ScanUnlisted(c, t)
      PROVE ScanInv'
  <2>1. CASE ScanStart(c, t)
    BY <2>1 DEF ScanStart, ScanGoes, AckedVersions, Listing
  <2>2. CASE ScanUnlisted(c, t)
    BY <2>2 DEF ScanUnlisted, ScanGoes, AckedVersions
  <2>3. QED
    BY <1>14, <2>1, <2>2
<1>15. ASSUME NEW c \in Clients, NEW p \in Parts, ScanRead(c, p) PROVE ScanInv'
  BY <1>15 DEF ScanRead
<1>16. ASSUME NEW c \in Clients, NEW p \in Parts, ScanFails(c, p) PROVE ScanInv'
  BY <1>16 DEF ScanFails, ScanEnds
<1>17. ASSUME NEW c \in Clients, ScanDone(c) \/ ScanReturnsEmpty(c) PROVE ScanInv'
  <2>1. CASE ScanDone(c)
    BY <2>1 DEF ScanDone, ScanEnds
  <2>2. CASE ScanReturnsEmpty(c)
    BY <2>2 DEF ScanReturnsEmpty, ScanEnds
  <2>3. QED
    BY <1>17, <2>1, <2>2
<1>18. ASSUME NEW loaded \in SUBSET Tables, Restart(loaded) PROVE ScanInv'
  BY <1>18 DEF Restart
<1>19. CASE UNCHANGED vars
  BY <1>19 DEF vars, procVars
<1>20. QED
  BY <1>1, <1>2, <1>3, <1>4, <1>5, <1>6, <1>7, <1>8, <1>9, <1>10, <1>11, <1>12, <1>13,
     <1>14, <1>15, <1>16, <1>17, <1>18, <1>19 DEF Next, Start, Progress

\* A scan reads each acknowledged part with the rows that were appended.
LEMMA CoverStep ==
  TypeOK /\ ScanInv /\ AckedDurable /\ ScanCoversAcked /\ [Next]_vars
    => ScanCoversAcked'
<1> SUFFICES ASSUME TypeOK, ScanInv, AckedDurable, ScanCoversAcked, [Next]_vars
             PROVE ScanCoversAcked'
  OBVIOUS
<1> USE DEF ScanCoversAcked, ScanInv, TypeOK, Go, Return, NoCall, NoScan, Labels, memVars,
           diskVars
<1>1. ASSUME NEW c \in Clients, NEW t \in Tables, CreateTable(c, t) PROVE ScanCoversAcked'
  BY <1>1 DEF CreateTable, CreateTableAnyway
<1>2. ASSUME NEW c \in Clients, MakeBaseDir(c) PROVE ScanCoversAcked'
  BY <1>2 DEF MakeBaseDir
<1>3. ASSUME NEW c \in Clients, MakeBaseDirFails(c) PROVE ScanCoversAcked'
  BY <1>3 DEF MakeBaseDirFails
<1>4. ASSUME NEW c \in Clients, NEW t \in Tables, NEW r \in Rows, AppendStart(c, t, r)
      PROVE ScanCoversAcked'
  BY <1>4 DEF AppendStart
<1>5. ASSUME NEW c \in Clients, OpenPart(c) PROVE ScanCoversAcked'
  BY <1>5 DEF OpenPart
<1>6. ASSUME NEW c \in Clients, OpenPartFails(c) PROVE ScanCoversAcked'
  BY <1>6 DEF OpenPartFails
<1>7. ASSUME NEW c \in Clients, WritePart(c) PROVE ScanCoversAcked'
  BY <1>7 DEF WritePart
<1>8. ASSUME NEW c \in Clients, WritePartFails(c) PROVE ScanCoversAcked'
  BY <1>8 DEF WritePartFails
<1>9. ASSUME NEW c \in Clients, AddVersion(c) PROVE ScanCoversAcked'
  BY <1>9 DEF AddVersion, RecordVersion
<1>10. ASSUME NEW c \in Clients, FlushLock(c) PROVE ScanCoversAcked'
  BY <1>10 DEF FlushLock
<1>11. ASSUME NEW c \in Clients, NEW t \in Tables, FlushTable(c, t) PROVE ScanCoversAcked'
  BY <1>11 DEF FlushTable
<1>12. ASSUME NEW c \in Clients, FlushFails(c) PROVE ScanCoversAcked'
  BY <1>12 DEF FlushFails, FlushReturns
<1>13. ASSUME NEW c \in Clients, FlushDone(c) PROVE ScanCoversAcked'
  BY <1>13 DEF FlushDone, FlushReturns
<1>14. ASSUME NEW c \in Clients, NEW t \in Tables, ScanStart(c, t) \/ ScanUnlisted(c, t)
      PROVE ScanCoversAcked'
  <2>1. CASE ScanUnlisted(c, t)
    <3>1. pc'[c] = "empty" /\ scan'[c].seen = {}
      BY <2>1 DEF ScanUnlisted, ScanGoes
    <3>2. \A d \in Clients : d # c => scan'[d] = scan[d] /\ pc'[d] = pc[d]
      BY <2>1 DEF ScanUnlisted, ScanGoes
    <3>3. QED
      BY <3>1, <3>2
  <2>2. CASE ScanStart(c, t)
    <3>1. \A v \in scan'[c].must : v \in Version /\ files[t][v.part] = v.rows
      BY <2>2 DEF ScanStart, ScanGoes, AckedVersions, AckedDurable
    <3>2. \A v \in scan'[c].must : v.part \in scan'[c].todo
      BY <2>2, <3>1 DEF ScanStart, ScanGoes, Listing, Version
    <3>3. \A d \in Clients : d # c => scan'[d] = scan[d] /\ pc'[d] = pc[d]
      BY <2>2 DEF ScanStart, ScanGoes
    <3>4. QED
      BY <3>2, <3>3
  <2>3. QED
    BY <1>14, <2>1, <2>2
<1>15. ASSUME NEW c \in Clients, NEW p \in Parts, ScanRead(c, p) PROVE ScanCoversAcked'
  <2> DEFINE content == files[call[c].table][p]
  <2>1. /\ scan'[c].must = scan[c].must
        /\ scan'[c].todo = scan[c].todo \ {p}
        /\ scan'[c].seen = scan[c].seen \union {[part |-> p, rows |-> content]}
        /\ pc[c] = "scan" /\ pc' = pc
    BY <1>15 DEF ScanRead
  <2>2. \A v \in scan[c].must : v \in Version /\ files[call[c].table][v.part] = v.rows
    <3> SUFFICES ASSUME NEW v \in scan[c].must
                 PROVE  v \in Version /\ files[call[c].table][v.part] = v.rows
      OBVIOUS
    <3>1. [table |-> call[c].table, part |-> v.part, rows |-> v.rows] \in acked
      OBVIOUS
    <3>2. QED
      BY <3>1 DEF AckedDurable
  <2>3. \A v \in scan[c].must : v.part = p => v = [part |-> p, rows |-> content]
    BY <2>2 DEF Version
  <2>4. \A d \in Clients : d # c => scan'[d] = scan[d]
    BY <1>15 DEF ScanRead
  <2>5. \A v \in scan'[c].must : v \in scan'[c].seen \/ v.part \in scan'[c].todo
    BY <2>1, <2>3
  <2>6. QED
    BY <2>1, <2>4, <2>5
<1>16. ASSUME NEW c \in Clients, NEW p \in Parts, ScanFails(c, p) PROVE ScanCoversAcked'
  BY <1>16 DEF ScanFails, ScanEnds
<1>17. ASSUME NEW c \in Clients, ScanDone(c) \/ ScanReturnsEmpty(c) PROVE ScanCoversAcked'
  <2>1. CASE ScanDone(c)
    BY <2>1 DEF ScanDone, ScanEnds
  <2>2. CASE ScanReturnsEmpty(c)
    BY <2>2 DEF ScanReturnsEmpty, ScanEnds
  <2>3. QED
    BY <1>17, <2>1, <2>2
<1>18. ASSUME NEW loaded \in SUBSET Tables, Restart(loaded) PROVE ScanCoversAcked'
  BY <1>18 DEF Restart
<1>19. CASE UNCHANGED vars
  BY <1>19 DEF vars, procVars
<1>20. QED
  BY <1>1, <1>2, <1>3, <1>4, <1>5, <1>6, <1>7, <1>8, <1>9, <1>10, <1>11, <1>12, <1>13,
     <1>14, <1>15, <1>16, <1>17, <1>18, <1>19 DEF Next, Start, Progress

\* The initial state satisfies the inductive invariant.
LEMMA InvInit == Init => IInv
<1> SUFFICES ASSUME Init PROVE IInv
  OBVIOUS
<1>1. TypeOK /\ CallInv
  BY TypeInit
<1>2. LockInv /\ FreshInv /\ AppendInv /\ ScanInv
  BY DEF Init, LockInv, FreshInv, AppendInv, ScanInv, Unrecorded, NoScan, NoCall
<1>3. MemoryAheadInv
  <2>1. <<>> \in Seq(Version)
    OBVIOUS
  <2>2. IsPrefix(<<>>, <<>>)
    BY <2>1, PrefixReflexive
  <2>3. QED
    BY <2>2 DEF Init, MemoryAheadInv
<1>4. VersionsOwnTheirParts /\ AckedDurable /\ ScanCoversAcked
  BY DEF Init, VersionsOwnTheirParts, AckedDurable, ScanCoversAcked, NoScan
<1>5. QED
  BY <1>1, <1>2, <1>3, <1>4 DEF IInv

\* Every step preserves it, when start-up skips no metadata.json.
LEMMA InvStep == ~ReloadMayFail /\ IInv /\ [Next]_vars => IInv'
  BY TypeStep, CallStep, LockStep, FreshStep, MemoryAheadStep, OwnStep, AppendStep,
     AckedStep, ScanStep, CoverStep DEF IInv

-----------------------------------------------------------------------------
\* Every reachable state is well typed, start-up failures included.
THEOREM TypeCorrect == Spec => []TypeOK
<1>1. Init => TypeOK /\ CallInv
  BY TypeInit
<1>2. TypeOK /\ CallInv /\ [Next]_vars => (TypeOK /\ CallInv)'
  BY TypeStep, CallStep
<1>3. QED
  BY <1>1, <1>2, PTL DEF Spec

\* The inductive invariant holds in every reachable state.
LEMMA Invariance == ASSUME ~ReloadMayFail PROVE Spec => []IInv
<1>1. IInv /\ [Next]_vars => IInv'
  BY InvStep
<1>2. QED
  BY InvInit, <1>1, PTL DEF Spec

\* Whatever crashes and failures follow, an append that returned ok stays
\* recorded and its part file stays whole, as long as start-up reads every
\* metadata.json.
THEOREM AppendsAreDurable == ASSUME ~ReloadMayFail PROVE Spec => []AckedDurable
<1>1. IInv => AckedDurable
  BY DEF IInv
<1>2. QED
  BY Invariance, <1>1, PTL

\* Part numbers are never handed out twice among recorded versions, and a
\* recorded version's file holds its rows.
THEOREM PartsAreOwned == ASSUME ~ReloadMayFail PROVE Spec => []VersionsOwnTheirParts
<1>1. IInv => VersionsOwnTheirParts
  BY DEF IInv
<1>2. QED
  BY Invariance, <1>1, PTL

\* A scan that could list its base directory and does not fail returns every append
\* acknowledged before it; one that could not returns nothing.
THEOREM ScansAreComplete == ASSUME ~ReloadMayFail PROVE Spec => []ScanCoversAcked
<1>1. IInv => ScanCoversAcked
  BY DEF IInv
<1>2. QED
  BY Invariance, <1>1, PTL

\* The list of versions in a metadata.json only ever grows at its end: only
\* flush() writes it, and memory is never behind the disk.
THEOREM SavedVersionsOnlyGrow == ASSUME ~ReloadMayFail PROVE Spec => SavedVersionsGrow
<1> DEFINE Grow == \A t \in Tables : IsPrefix(saved[t], saved'[t])
<1>1. IInv /\ [Next]_vars => Grow
  <2> SUFFICES ASSUME IInv, [Next]_vars PROVE Grow
    OBVIOUS
  <2>1. \A t \in Tables : IsPrefix(saved[t], saved[t]) /\ IsPrefix(saved[t], versions[t])
    BY PrefixReflexive DEF IInv, MemoryAheadInv, TypeOK
  <2>2. ASSUME NEW c \in Clients, NEW u \in Tables, FlushTable(c, u) PROVE Grow
    BY <2>1, <2>2 DEF FlushTable, IInv, TypeOK
  <2>3. CASE saved' = saved
    BY <2>1, <2>3
  <2>4. ASSUME NEW c \in Clients, Start(c) PROVE saved' = saved
    BY <2>4 DEF Start, CreateTable, CreateTableAnyway, AppendStart, ScanStart, ScanUnlisted,
                ScanGoes, diskVars
  <2>5. ASSUME NEW c \in Clients, Progress(c), \A u \in Tables : ~FlushTable(c, u)
        PROVE  saved' = saved
    BY <2>5 DEF Progress, MakeBaseDir, MakeBaseDirFails, OpenPart, OpenPartFails, WritePart,
                WritePartFails, AddVersion, RecordVersion, FlushLock, FlushFails, FlushDone,
                FlushReturns, ScanRead, ScanFails, ScanDone, ScanReturnsEmpty, ScanEnds, diskVars
  <2>6. ASSUME NEW loaded \in SUBSET Tables, Restart(loaded) PROVE saved' = saved
    BY <2>6 DEF Restart, diskVars
  <2>7. QED
    BY <2>2, <2>3, <2>4, <2>5, <2>6 DEF Next, vars, diskVars
<1>2. QED
  BY Invariance, <1>1, PTL DEF SavedVersionsGrow, Spec
-----------------------------------------------------------------------------
(***************************************************************************)
(* The refinement: every behaviour of ObjectStore, with any number of      *)
(* threads, tables and crashes, is one of TableLog, when no metadata.json  *)
(* is skipped at start-up.  The inductive invariant is IInv.               *)
(***************************************************************************)
\* A fresh store is an empty log.
LEMMA LogInit == Init => Log!Init
  BY DEF Init, Log!Init, Pending, InFlight, Unsaved, Unrecorded, Ack

\* What a step that leaves calls, tables_ and metadata.json alone is in the log.
LEMMA Quiet ==
  ASSUME UNCHANGED <<saved, versions, acked>>,
         \A c \in Clients : Unrecorded(c)' <=> Unrecorded(c),
         \A c \in Clients : Unrecorded(c) => call'[c] = call[c]
  PROVE  UNCHANGED Log!vars
<1>1. Pending' = Pending
  BY DEF Pending, InFlight, Unsaved
<1>2. QED
  BY <1>1 DEF Log!vars

\* A call that gives up, or a process that dies, loses pending appends at most.
LEMMA Losing ==
  ASSUME UNCHANGED <<saved, versions, acked>>,
         \A c \in Clients : Unrecorded(c)' => Unrecorded(c) /\ call'[c] = call[c]
  PROVE  Log!Lose
<1>1. Pending' \subseteq Pending
  BY DEF Pending, InFlight, Unsaved
<1>2. QED
  BY <1>1 DEF Log!Lose

\* next_part_number hands out a number that is neither pending nor in a log.
LEMMA Beginning ==
  ASSUME IInv, NEW c \in Clients, NEW t \in Tables, NEW r \in Rows, AppendStart(c, t, r)
  PROVE  \E a \in Log!Appends : Log!Begin(a)
<1> DEFINE a == [table |-> t, part |-> next_part, rows |-> r]
<1> USE DEF IInv, TypeOK
<1>1. a \in Ack /\ a \in Log!Appends
  BY DEF AppendStart, Ack, Log!Appends
<1>2. /\ UNCHANGED <<saved, versions, acked>>
      /\ call' = [call EXCEPT ![c] = [op |-> "append", table |-> t,
                                      part |-> next_part, rows |-> r]]
      /\ pc' = [pc EXCEPT ![c] = "open"] /\ pc[c] = "idle"
  BY DEF AppendStart, diskVars, Go
<1>3. \A b \in Pending : b.part # next_part
  <2> SUFFICES ASSUME NEW b \in Pending PROVE b.part # next_part
    OBVIOUS
  <2>1. CASE InFlight(b)
    BY <2>1 DEF InFlight, FreshInv
  <2>2. CASE Unsaved(b)
    <3>1. b.table \in Tables
      BY DEF Pending, Ack
    <3>2. QED
      BY <2>2, <3>1 DEF Unsaved, FreshInv
  <2>3. QED
    BY <2>1, <2>2 DEF Pending
<1>4. \A u \in Tables : \A i \in DOMAIN saved[u] : saved[u][i].part # next_part
  <2> SUFFICES ASSUME NEW u \in Tables, NEW i \in DOMAIN saved[u]
               PROVE  saved[u][i].part # next_part
    OBVIOUS
  <2>1. i \in DOMAIN versions[u] /\ versions[u][i] = saved[u][i]
    BY PrefixElement DEF MemoryAheadInv
  <2>2. QED
    BY <2>1 DEF FreshInv
<1>5. Pending' = Pending \union {a}
  <2>1. \A b \in Ack : InFlight(b)' <=> InFlight(b) \/ b = a
    <3> SUFFICES ASSUME NEW b \in Ack PROVE InFlight(b)' <=> InFlight(b) \/ b = a
      OBVIOUS
    <3>1. InFlight(b) => InFlight(b)'
      BY <1>2 DEF InFlight, Unrecorded
    <3>2. b = a => InFlight(b)'
      BY <1>2 DEF InFlight, Unrecorded
    <3>3. InFlight(b)' => InFlight(b) \/ b = a
      BY <1>2 DEF InFlight, Unrecorded, Ack
    <3>4. QED
      BY <3>1, <3>2, <3>3
  <2>2. \A b \in Ack : Unsaved(b)' <=> Unsaved(b)
    BY <1>2 DEF Unsaved
  <2>3. QED
    BY <1>1, <2>1, <2>2 DEF Pending
<1>6. Log!Begin(a)
  BY <1>2, <1>3, <1>4, <1>5 DEF Log!Begin
<1>7. QED
  BY <1>1, <1>6

\* add_version moves a pending append from its thread to tables_.
LEMMA Recording ==
  ASSUME IInv, NEW c \in Clients, AddVersion(c)
  PROVE  UNCHANGED Log!vars
<1> DEFINE t == call[c].table
           v == [part |-> call[c].part, rows |-> call[c].rows]
<1> USE DEF IInv, TypeOK
<1>1. /\ UNCHANGED <<saved, acked, call>>
      /\ pc' = [pc EXCEPT ![c] = "flush"] /\ pc[c] = "add"
      /\ versions' = [versions EXCEPT ![t] = Append(versions[t], v)]
  BY DEF AddVersion, RecordVersion, diskVars, Go
<1>2. t \in Tables /\ v \in Version /\ versions[t] \in Seq(Version)
  BY <1>1 DEF CallInv, Version
<1>3. /\ Len(saved[t]) \in Nat /\ Len(saved[t]) <= Len(versions[t])
      /\ Len(versions[t]) \in Nat
  BY <1>2 DEF MemoryAheadInv, IsPrefix
<1>4. /\ DOMAIN versions'[t] = DOMAIN versions[t] \union {Len(versions[t]) + 1}
      /\ versions'[t][Len(versions[t]) + 1] = v
      /\ \A i \in DOMAIN versions[t] : versions'[t][i] = versions[t][i]
  BY <1>1, <1>2
<1>5. \A a \in Ack : InFlight(a) \/ Unsaved(a) <=> InFlight(a)' \/ Unsaved(a)'
  <2> SUFFICES ASSUME NEW a \in Ack
               PROVE  InFlight(a) \/ Unsaved(a) <=> InFlight(a)' \/ Unsaved(a)'
    OBVIOUS
  <2> DEFINE Mine == a.table = t /\ a.part = call[c].part /\ a.rows = call[c].rows
  <2>1. InFlight(a) <=> InFlight(a)' \/ Mine
    BY <1>1 DEF InFlight, Unrecorded
  <2>2. Unsaved(a)' <=> Unsaved(a) \/ Mine
    <3>1. CASE a.table # t
      BY <1>1, <3>1 DEF Unsaved, Ack
    <3>2. CASE a.table = t
      <4>1. Mine <=> [part |-> a.part, rows |-> a.rows] = v
        BY <3>2
      <4>2. Len(versions[t]) + 1 > Len(saved[t])
        BY <1>3
      <4> HIDE DEF v, t, IInv, TypeOK, Mine
      <4>3. QED
        BY <1>1, <1>4, <3>2, <4>1, <4>2 DEF Unsaved
    <3>3. QED
      BY <3>1, <3>2
  <2>3. QED
    BY <2>1, <2>2
<1>6. QED
  BY <1>1, <1>5 DEF Pending, Log!vars

\* A metadata.json that is replaced gains the pending versions of its table.
LEMMA Persisting ==
  ASSUME IInv, NEW c \in Clients, NEW t \in Tables, FlushTable(c, t)
  PROVE  Log!Persist(t)
<1> USE DEF IInv, TypeOK
<1>1. /\ UNCHANGED <<versions, acked, pc, call>>
      /\ saved' = [saved EXCEPT ![t] = versions[t]]
      /\ versions[t] \in Seq(Version) /\ saved[t] \in Seq(Version)
  BY DEF FlushTable, memVars
<1>2. IsPrefix(saved[t], saved'[t])
  BY <1>1 DEF MemoryAheadInv
<1>3. \A u \in Tables : u # t => saved'[u] = saved[u]
  BY <1>1
<1>4. \A i \in DOMAIN saved'[t] : i > Len(saved[t]) =>
        \E a \in Pending : a.table = t /\ saved'[t][i] = Log!VersionOf(a)
  <2> SUFFICES ASSUME NEW i \in DOMAIN versions[t], i > Len(saved[t])
               PROVE  \E a \in Pending : a.table = t /\ versions[t][i] = Log!VersionOf(a)
    BY <1>1
  <2> DEFINE a == [table |-> t, part |-> versions[t][i].part, rows |-> versions[t][i].rows]
  <2>1. versions[t][i] \in Version
    BY <1>1
  <2>2. /\ versions[t][i] = [part |-> a.part, rows |-> a.rows]
        /\ a \in Ack /\ a.table = t
    BY <2>1 DEF Version, Ack
  <2>3. a \in Pending
    BY <2>2 DEF Pending, Unsaved
  <2>4. QED
    BY <2>2, <2>3 DEF Log!VersionOf
<1>5. \A i, j \in DOMAIN saved'[t] : saved'[t][i] = saved'[t][j] => i = j
  BY <1>1 DEF VersionsOwnTheirParts
<1>6. \A a \in Ack : InFlight(a)' <=> InFlight(a)
  BY <1>1 DEF InFlight, Unrecorded
<1>7. \A a \in Ack : a.table # t => (Unsaved(a)' <=> Unsaved(a))
  BY <1>1 DEF Unsaved, Ack
<1>8. \A a \in Ack : a.table = t =>
        /\ ~Unsaved(a)'
        /\ Unsaved(a) <=> \E i \in DOMAIN saved'[t] :
                             i > Len(saved[t]) /\ saved'[t][i] = Log!VersionOf(a)
  <2>1. \A i \in DOMAIN versions[t] : ~(i > Len(versions[t]))
    BY <1>1
  <2>2. QED
    BY <1>1, <2>1 DEF Unsaved, Log!VersionOf
<1>9. \A a \in Ack : a.table = t /\ InFlight(a) =>
        \A i \in DOMAIN saved'[t] : saved'[t][i] # Log!VersionOf(a)
  BY <1>1 DEF InFlight, FreshInv, Log!VersionOf
<1>10. Pending' = {a \in Pending : a.table = t =>
                     \A i \in {j \in DOMAIN saved'[t] : j > Len(saved[t])} :
                        saved'[t][i] # Log!VersionOf(a)}
  <2> HIDE DEF IInv, TypeOK
  <2>1. QED
    BY <1>6, <1>7, <1>8, <1>9 DEF Pending
<1>11. UNCHANGED acked
  BY <1>1
<1> HIDE DEF IInv, TypeOK
<1>12. QED
  BY <1>2, <1>3, <1>4, <1>5, <1>10, <1>11 DEF Log!Persist, Log!IsPrefix, IsPrefix

\* An append is reported ok when it is in the log.
LEMMA Acknowledging ==
  ASSUME IInv, NEW c \in Clients, FlushDone(c)
  PROVE  (\E a \in Log!Appends : Log!Acknowledge(a)) \/ UNCHANGED Log!vars
<1> DEFINE k == call[c]
           a == [table |-> k.table, part |-> k.part, rows |-> k.rows]
<1> USE DEF IInv, TypeOK
<1>1. /\ UNCHANGED <<saved, versions>> /\ todo[c] = {}
      /\ pc[c] = "flushing" /\ pc' = [pc EXCEPT ![c] = "idle"]
      /\ call' = [call EXCEPT ![c] = NoCall]
      /\ acked' = acked \union Report(c)
  BY DEF FlushDone, FlushReturns, diskVars, Return, Go
<1>2. Pending' = Pending
  BY <1>1 DEF Pending, InFlight, Unsaved, Unrecorded
<1>3. CASE k.op = "append"
  <2>1. a \in Log!Appends
    BY <1>1, <1>3 DEF CallInv, Log!Appends
  <2>2. Contains(saved[k.table], [part |-> k.part, rows |-> k.rows])
    BY <1>1, <1>3 DEF AppendInv
  <2>3. Contains(saved[a.table], Log!VersionOf(a))
    BY <2>2, Zenon DEF Log!VersionOf
  <2>4. acked' = acked \union {a}
    BY <1>1, <1>3 DEF Report
  <2>5. Log!Acknowledge(a)
    BY <1>1, <1>2, <2>3, <2>4 DEF Log!Acknowledge, Log!Contains, Contains
  <2>6. QED
    BY <2>1, <2>5
<1>4. CASE k.op # "append"
  BY <1>1, <1>2, <1>4 DEF Report, Log!vars
<1>5. QED
  BY <1>3, <1>4

\* The process dies: pending appends are lost, the log is on disk.
LEMMA Dying ==
  ASSUME ~ReloadMayFail, IInv, NEW loaded \in SUBSET Tables, Restart(loaded)
  PROVE  Log!Lose
<1>1. /\ UNCHANGED <<saved, acked>>
      /\ \A c \in Clients : ~Unrecorded(c)'
  BY DEF Restart, diskVars, Unrecorded
<1>2. \A t \in Tables : versions'[t] = saved[t]
  BY DEF Restart, IInv, MemoryAheadInv
<1>3. \A t \in Tables : \A i \in DOMAIN saved[t] : ~(i > Len(saved[t]))
  BY DEF IInv, TypeOK
<1>4. \A a \in Ack : a.table \in Tables
  BY DEF Ack
<1>5. Pending' = {}
  BY <1>1, <1>2, <1>3, <1>4 DEF Pending, InFlight, Unsaved
<1>6. QED
  BY <1>1, <1>5 DEF Log!Lose

\* Every step of the store is a step of the log, or none.
LEMMA LogStep ==
  ASSUME ~ReloadMayFail, IInv, [Next]_vars
  PROVE  [Log!Next]_(Log!vars)
<1> USE DEF Go, Return, Unrecorded, memVars, diskVars
<1> DEFINE Held == [Log!Next]_(Log!vars)
<1>0. pc \in [Clients -> Labels] /\ DOMAIN call = Clients
  BY DEF IInv, TypeOK
<1>1. ASSUME NEW c \in Clients, NEW t \in Tables, CreateTable(c, t) PROVE Held
  <2>1. versions[t] = <<>>
    BY <1>1 DEF CreateTable, IInv, MemoryAheadInv
  <2>2. versions' = versions
    BY <1>1, <2>1 DEF CreateTable, CreateTableAnyway, IInv, TypeOK
  <2>3. QED
    BY <1>0, <1>1, <2>2, Quiet DEF CreateTable, CreateTableAnyway
<1>2. ASSUME NEW c \in Clients, MakeBaseDir(c) PROVE Held
  BY <1>0, <1>2, Quiet DEF MakeBaseDir
<1>3. ASSUME NEW c \in Clients, MakeBaseDirFails(c) PROVE Held
  BY <1>0, <1>3, Quiet DEF MakeBaseDirFails
<1>4. ASSUME NEW c \in Clients, NEW t \in Tables, NEW r \in Rows, AppendStart(c, t, r)
      PROVE Held
  BY <1>4, Beginning DEF Log!Next
<1>5. ASSUME NEW c \in Clients, OpenPart(c) PROVE Held
  BY <1>0, <1>5, Quiet DEF OpenPart
<1>6. ASSUME NEW c \in Clients, OpenPartFails(c) PROVE Held
  BY <1>0, <1>6, Losing DEF OpenPartFails, Log!Next
<1>7. ASSUME NEW c \in Clients, WritePart(c) PROVE Held
  BY <1>0, <1>7, Quiet DEF WritePart
<1>8. ASSUME NEW c \in Clients, WritePartFails(c) PROVE Held
  BY <1>0, <1>8, Losing DEF WritePartFails, Log!Next
<1>9. ASSUME NEW c \in Clients, AddVersion(c) PROVE Held
  BY <1>9, Recording
<1>10. ASSUME NEW c \in Clients, FlushLock(c) PROVE Held
  BY <1>0, <1>10, Quiet DEF FlushLock
<1>11. ASSUME NEW c \in Clients, NEW t \in Tables, FlushTable(c, t) PROVE Held
  BY <1>11, Persisting DEF Log!Next
<1>12. ASSUME NEW c \in Clients, FlushFails(c) PROVE Held
  BY <1>0, <1>12, Quiet DEF FlushFails, FlushReturns
<1>13. ASSUME NEW c \in Clients, FlushDone(c) PROVE Held
  BY <1>13, Acknowledging DEF Log!Next
<1>14. ASSUME NEW c \in Clients, NEW t \in Tables, ScanStart(c, t) \/ ScanUnlisted(c, t)
      PROVE Held
  BY <1>0, <1>14, Quiet DEF ScanStart, ScanUnlisted, ScanGoes
<1>15. ASSUME NEW c \in Clients, NEW p \in Parts, ScanRead(c, p) PROVE Held
  BY <1>0, <1>15, Quiet DEF ScanRead
<1>16. ASSUME NEW c \in Clients, NEW p \in Parts, ScanFails(c, p) PROVE Held
  BY <1>0, <1>16, Quiet DEF ScanFails, ScanEnds
<1>17. ASSUME NEW c \in Clients, ScanDone(c) \/ ScanReturnsEmpty(c) PROVE Held
  BY <1>0, <1>17, Quiet DEF ScanDone, ScanReturnsEmpty, ScanEnds
<1>18. ASSUME NEW loaded \in SUBSET Tables, Restart(loaded) PROVE Held
  BY <1>18, Dying DEF Log!Next
<1>19. CASE UNCHANGED vars
  BY <1>19, Quiet DEF vars, procVars
<1>20. QED
  BY <1>1, <1>2, <1>3, <1>4, <1>5, <1>6, <1>7, <1>8, <1>9, <1>10, <1>11, <1>12, <1>13,
     <1>14, <1>15, <1>16, <1>17, <1>18, <1>19 DEF Next, Start, Progress

\* The table store is a log of appends, for any number of threads, tables and
\* crashes, as long as start-up reads every metadata.json: no append is
\* reported ok before it is durable, none reaches the disk twice, and nothing
\* that reached it is lost.
THEOREM StoreIsALog == ASSUME ~ReloadMayFail PROVE Spec => ImplementsTableLog
<1>1. IInv /\ [Next]_vars => [Log!Next]_(Log!vars)
  BY LogStep
<1>2. QED
  BY LogInit, Invariance, <1>1, PTL DEF Spec, ImplementsTableLog, Log!Spec

-----------------------------------------------------------------------------
(***************************************************************************)
(* The importers.                                                          *)
(***************************************************************************)
\* Which part of the store's call an import waits for, and with what arguments.
JobInv ==
    \A c \in Clients :
        /\ job[c].step = "none" => pc[c] \in {"idle", "scan", "empty"}
        /\ job[c].step = "registering" =>
              pc[c] \in {"base", "flush", "flushing"}
        /\ job[c].step = "appending" =>
              /\ pc[c] \in {"open", "write", "add", "flush", "flushing"}
              /\ call[c].table = job[c].table /\ call[c].rows = job[c].file
        /\ pc[c] \in {"open", "write", "add"} => job[c].step = "appending"

\* What the checks have established when an import gets to append.
CheckInv ==
    \A c \in Clients : job[c].step # "none" =>
        /\ Importable(job[c].table, job[c].file)
        /\ job[c].mode = "kLenient" => job[c].table \in lenient
        /\ job[c].mode = "kStrict" /\ job[c].step \in {"append", "appending"} =>
              RowsValid(job[c].table, job[c].file)

\* Every complete part of a table without lenient imports passed those checks.
PartsInv ==
    \A t \in Tables \ lenient, p \in Parts :
        files[t][p] \in Rows => Importable(t, files[t][p]) /\ RowsValid(t, files[t][p])

ImportInv == TypeOK /\ CallInv /\ ImportTypeOK /\ JobInv /\ CheckInv /\ PartsInv

\* The jobs an import may be.
Jobs == [step : Steps, table : Tables, file : Rows, mode : {"kStrict", "kLenient"}]

-----------------------------------------------------------------------------
\* An import under way has a table and a file.
LEMMA JobTyped ==
  ASSUME ImportTypeOK, NEW c \in Clients, job[c].step # "none"
  PROVE  /\ job[c] \in Jobs
         /\ job[c].table \in Tables /\ job[c].file \in Rows
         /\ job[c].mode \in {"kStrict", "kLenient"}
  BY DEF ImportTypeOK, Jobs, NoJob

\* Every step of the composition is a step of the store or leaves it alone.
LEMMA StoreStep == TypeOK /\ ImportTypeOK /\ [ImportNext]_allVars => [Next]_vars
<1> SUFFICES ASSUME TypeOK, ImportTypeOK, [ImportNext]_allVars PROVE [Next]_vars
  OBVIOUS
<1>1. ASSUME NEW c \in Clients, NEW t \in Tables, NEW r \in Requests, import(c, t, r.file, r.mode)
      PROVE  UNCHANGED vars
  BY <1>1 DEF import
<1>2. ASSUME NEW c \in Clients, NEW t \in Tables, NEW pred \in Predicates, ScanBegins(c, t, pred)
      PROVE  Next
  BY <1>2 DEF ScanBegins, Next, Start
<1>3. ASSUME NEW c \in Clients, StoreWorks(c) PROVE Next
  BY <1>3 DEF StoreWorks, Next
<1>4. ASSUME NEW c \in Clients, ImportStep(c) PROVE Next \/ UNCHANGED vars
  <2>1. ASSUME ImportLooksUp(c) \/ ImportFindsTable(c) \/ ImportValidates(c) \/ ImportRefuses(c)
        PROVE  UNCHANGED vars
    BY <2>1 DEF ImportLooksUp, ImportFindsTable, ImportValidates, ImportRefuses
  <2>2. ASSUME ImportRegisters(c) PROVE Next
    BY <2>2, JobTyped DEF ImportRegisters, At, Next, Start
  <2>3. ASSUME ImportAppends(c) PROVE Next
    BY <2>3, JobTyped DEF ImportAppends, At, Next, Start
  <2>4. ASSUME RegisterReturns(c) \/ AppendReturns(c) \/ StoreFails(c) PROVE Next
    BY <2>4 DEF RegisterReturns, AppendReturns, StoreFails, Next, Progress
  <2>5. QED
    BY <1>4, <2>1, <2>2, <2>3, <2>4 DEF ImportStep
<1>5. ASSUME NEW c \in Clients, ScanReturns(c) PROVE Next
  BY <1>5 DEF ScanReturns, Next, Progress
<1>6. ASSUME ImportRestart PROVE Next
  BY <1>6 DEF ImportRestart, Next, TypeOK
<1>7. CASE UNCHANGED allVars
  BY <1>7 DEF allVars
<1>8. QED
  BY <1>1, <1>2, <1>3, <1>4, <1>5, <1>6, <1>7 DEF ImportNext, Continue

\* The steps that carry a store's call on leave no client but c elsewhere.
LEMMA ProgressMoves ==
  ASSUME TypeOK, NEW c \in Clients, Progress(c)
  PROVE  /\ pc' = [pc EXCEPT ![c] = pc'[c]] /\ pc[c] # "idle"
         /\ \A d \in Clients \ {c} : call'[d] = call[d]
         /\ pc'[c] # "idle" => call' = call
         /\ pc[c] \in {"scan", "empty"} => pc'[c] \in {"scan", "idle"}
         /\ pc'[c] # "idle" /\ pc[c] \in {"base", "flush", "flushing"} =>
               pc'[c] \in {"flush", "flushing"}
         /\ pc'[c] # "idle" /\ pc[c] \in {"open", "write", "add"} =>
               pc'[c] \in {"write", "add", "flush"}
         /\ pc'[c] \in {"open", "write", "add"} => pc[c] \in {"open", "write", "add"}
<1>1. CASE MakeBaseDir(c) \/ MakeBaseDirFails(c)
  BY <1>1 DEF TypeOK, MakeBaseDir, MakeBaseDirFails, Go, Return
<1>2. CASE OpenPart(c) \/ OpenPartFails(c)
  BY <1>2 DEF TypeOK, OpenPart, OpenPartFails, Go, Return
<1>3. CASE WritePart(c) \/ WritePartFails(c)
  BY <1>3 DEF TypeOK, WritePart, WritePartFails, Go, Return
<1>4. CASE AddVersion(c)
  BY <1>4 DEF TypeOK, AddVersion, RecordVersion, Go
<1>5. CASE FlushLock(c)
  BY <1>5 DEF TypeOK, FlushLock, Go
<1>6. CASE FlushFails(c) \/ FlushDone(c)
  BY <1>6 DEF TypeOK, FlushFails, FlushDone, FlushReturns, Go, Return
<1>7. ASSUME NEW t \in Tables, FlushTable(c, t) PROVE pc' = pc /\ call' = call /\ pc[c] = "flushing"
  BY <1>7 DEF FlushTable
<1>8. ASSUME NEW p \in Parts, ScanRead(c, p) PROVE pc' = pc /\ call' = call /\ pc[c] = "scan"
  BY <1>8 DEF ScanRead
<1>9. CASE ScanDone(c) \/ ScanReturnsEmpty(c) \/ \E p \in Parts : ScanFails(c, p)
  BY <1>9 DEF TypeOK, ScanDone, ScanReturnsEmpty, ScanFails, ScanEnds, Go, Return
<1>10. CASE pc' = pc /\ call' = call /\ pc[c] \in {"flushing", "scan"}
  BY <1>10 DEF TypeOK
<1>11. QED
  BY <1>1, <1>2, <1>3, <1>4, <1>5, <1>6, <1>7, <1>8, <1>9, <1>10 DEF Progress

-----------------------------------------------------------------------------
(***************************************************************************)
(* The jobs: their type, and how they go along with the store's calls.     *)
(***************************************************************************)
USE RequestAssumption

\* Both parts of the statement about jobs, for the induction.
JobsOK == ImportTypeOK /\ JobInv

\* An import that moves on keeps its arguments.
LEMMA JobMoves ==
  ASSUME ImportTypeOK, NEW c \in Clients, NEW s \in Steps, job[c].step # "none",
         job' = [job EXCEPT ![c].step = s]
  PROVE  /\ job' \in [Clients -> {NoJob} \union Jobs]
         /\ job'[c].step = s
         /\ job'[c].table = job[c].table /\ job'[c].file = job[c].file
         /\ job'[c].mode = job[c].mode
         /\ \A d \in Clients \ {c} : job'[d] = job[d]
<1>1. job[c] \in Jobs /\ job \in [Clients -> {NoJob} \union Jobs]
  BY JobTyped DEF ImportTypeOK, Jobs
<1>2. job'[c] = [job[c] EXCEPT !.step = s] /\ job'[c] \in Jobs
  BY <1>1 DEF Jobs
<1>3. job'[c].step = s
  BY <1>1, <1>2 DEF Jobs
<1>4. QED
  BY <1>1, <1>2, <1>3 DEF Jobs

LEMMA JobStep == TypeOK /\ CallInv /\ JobsOK /\ [ImportNext]_allVars => JobsOK'
<1> SUFFICES ASSUME TypeOK, CallInv, JobsOK, [ImportNext]_allVars PROVE JobsOK'
  OBVIOUS
<1> USE DEF JobsOK
<1>1. ASSUME NEW c \in Clients, NEW t \in Tables, NEW r \in Requests, import(c, t, r.file, r.mode)
      PROVE  JobsOK'
  <2>1. r.file \in Rows /\ r.mode \in {"kStrict", "kLenient"}
    OBVIOUS
  <2>2. UNCHANGED <<pc, call, query>> /\ pc[c] = "idle" /\ lenient' \subseteq Tables
    BY <1>1 DEF import, vars, procVars, Idle, ImportTypeOK
  <2>3. job' = [job EXCEPT ![c] = [step |-> "lookup", table |-> t, file |-> r.file, mode |-> r.mode]]
    BY <1>1 DEF import
  <2>4. QED
    BY <2>1, <2>2, <2>3 DEF ImportTypeOK, JobInv, Steps, NoJob
<1>2. ASSUME NEW c \in Clients, NEW t \in Tables, NEW pred \in Predicates, ScanBegins(c, t, pred)
      PROVE  JobsOK'
  <2>1. /\ pc' = [pc EXCEPT ![c] = pc'[c]] /\ pc'[c] \in {"scan", "empty"}
        /\ pc[c] = "idle" /\ job[c] = NoJob
        /\ \A d \in Clients \ {c} : call'[d] = call[d]
        /\ UNCHANGED <<job, lenient>> /\ query' = [query EXCEPT ![c] = pred]
    BY <1>2 DEF ScanBegins, ScanStart, ScanUnlisted, ScanGoes, Go, Idle, TypeOK
  <2>2. QED
    BY <2>1 DEF TypeOK, ImportTypeOK, JobInv, NoJob
<1>3. ASSUME NEW c \in Clients, StoreWorks(c) PROVE JobsOK'
  <2>1. Progress(c) /\ pc'[c] # "idle" /\ UNCHANGED <<job, query, lenient>>
    BY <1>3 DEF StoreWorks, importVars
  <2>2. \A d \in Clients \ {c} : pc'[d] = pc[d] /\ call'[d] = call[d]
    BY <2>1, ProgressMoves DEF TypeOK
  <2>3. call'[c] = call[c] /\ pc[c] \in Labels /\ pc[c] # "idle"
    BY <2>1, ProgressMoves DEF TypeOK
  <2>4. ImportTypeOK'
    BY <2>1, <2>2, <2>3 DEF ImportTypeOK
  <2>5. JobInv'
    <3>1. /\ pc[c] \in {"scan", "empty"} => pc'[c] = "scan"
          /\ pc[c] \in {"base", "flush", "flushing"} => pc'[c] \in {"flush", "flushing"}
          /\ pc[c] \in {"open", "write", "add"} => pc'[c] \in {"write", "add", "flush"}
          /\ pc'[c] \in {"open", "write", "add"} => pc[c] \in {"open", "write", "add"}
      BY <2>1, ProgressMoves
    <3>2. QED
      BY <2>1, <2>2, <2>3, <3>1 DEF JobInv
  <2>6. QED
    BY <2>4, <2>5
<1>4. ASSUME NEW c \in Clients, ImportStep(c) PROVE JobsOK'
  <2> USE DEF At
  <2>1. CASE ImportLooksUp(c) \/ ImportFindsTable(c) \/ ImportValidates(c)
    <3>1. PICK s \in {"validate", "register", "append"} :
             job' = [job EXCEPT ![c].step = s]
      BY <2>1 DEF ImportLooksUp, ImportFindsTable, ImportValidates, Move
    <3>2. /\ job[c].step \in {"lookup", "register", "validate"}
          /\ UNCHANGED <<pc, call, query, lenient>>
      BY <2>1 DEF ImportLooksUp, ImportFindsTable, ImportValidates, vars, procVars
    <3>3. job[c] \in Jobs
      BY <3>2, JobTyped
    <3>4. QED
      BY <3>1, <3>2, <3>3 DEF ImportTypeOK, JobInv, Jobs, Steps, NoJob
  <2>2. CASE ImportRefuses(c)
    <3>1. /\ job' = [job EXCEPT ![c] = NoJob] /\ job[c].step = "validate"
          /\ UNCHANGED <<pc, call, query, lenient>>
      BY <2>2 DEF ImportRefuses, Finish, vars, procVars
    <3>2. QED
      BY <3>1 DEF ImportTypeOK, JobInv, NoJob
  <2>3. CASE ImportRegisters(c)
    <3>1. /\ job' = [job EXCEPT ![c].step = "registering"] /\ job[c].step = "register"
          /\ pc' = [pc EXCEPT ![c] = "base"]
          /\ \A d \in Clients \ {c} : call'[d] = call[d]
          /\ UNCHANGED <<query, lenient>>
      BY <2>3 DEF ImportRegisters, Move, CreateTable, CreateTableAnyway, Go, TypeOK
    <3>2. /\ job' \in [Clients -> {NoJob} \union Jobs]
          /\ job'[c].step = "registering"
          /\ job'[c].table = job[c].table /\ job'[c].file = job[c].file
          /\ \A d \in Clients \ {c} : job'[d] = job[d] /\ pc'[d] = pc[d]
      BY <3>1, JobMoves, ZenonT(60) DEF Steps, TypeOK
    <3>3. pc'[c] = "base"
      BY <3>1 DEF TypeOK
    <3>4. ImportTypeOK'
      BY <3>1, <3>2, <3>3 DEF ImportTypeOK, Jobs
    <3>5. JobInv'
      BY <3>1, <3>2, <3>3 DEF JobInv
    <3>6. QED
      BY <3>4, <3>5
  <2>4. CASE ImportAppends(c)
    <3>1. /\ job' = [job EXCEPT ![c].step = "appending"] /\ job[c].step = "append"
          /\ pc' = [pc EXCEPT ![c] = "open"]
          /\ \A d \in Clients \ {c} : call'[d] = call[d]
          /\ call'[c].table = job[c].table /\ call'[c].rows = job[c].file
          /\ UNCHANGED <<query, lenient>>
      BY <2>4 DEF ImportAppends, Move, AppendStart, Go, TypeOK
    <3>2. /\ job' \in [Clients -> {NoJob} \union Jobs]
          /\ job'[c].step = "appending"
          /\ job'[c].table = job[c].table /\ job'[c].file = job[c].file
          /\ \A d \in Clients \ {c} : job'[d] = job[d] /\ pc'[d] = pc[d]
      BY <3>1, JobMoves, ZenonT(60) DEF Steps, TypeOK
    <3>3. pc'[c] = "open"
      BY <3>1 DEF TypeOK
    <3>4. ImportTypeOK'
      BY <3>1, <3>2, <3>3 DEF ImportTypeOK, Jobs
    <3>5. JobInv'
      BY <3>1, <3>2, <3>3 DEF JobInv
    <3>6. QED
      BY <3>4, <3>5
  <2>5. CASE RegisterReturns(c)
    <3>1. /\ job' = [job EXCEPT ![c].step = "validate"] /\ job[c].step = "registering"
          /\ pc' = [pc EXCEPT ![c] = "idle"]
          /\ \A d \in Clients \ {c} : call'[d] = call[d]
          /\ UNCHANGED <<query, lenient>>
      BY <2>5 DEF RegisterReturns, Move, FlushDone, FlushReturns, Return, Go, TypeOK
    <3>2. /\ job' \in [Clients -> {NoJob} \union Jobs]
          /\ job'[c].step = "validate"
          /\ job'[c].table = job[c].table /\ job'[c].file = job[c].file
          /\ \A d \in Clients \ {c} : job'[d] = job[d] /\ pc'[d] = pc[d]
      BY <3>1, JobMoves, ZenonT(60) DEF Steps, TypeOK
    <3>3. pc'[c] = "idle"
      BY <3>1 DEF TypeOK
    <3>4. ImportTypeOK'
      BY <3>1, <3>2, <3>3 DEF ImportTypeOK, Jobs
    <3>5. JobInv'
      BY <3>1, <3>2, <3>3 DEF JobInv
    <3>6. QED
      BY <3>4, <3>5
  <2>6. CASE AppendReturns(c) \/ StoreFails(c)
    <3>1. /\ job' = [job EXCEPT ![c] = NoJob] /\ UNCHANGED <<query, lenient>>
          /\ FlushDone(c) \/ MakeBaseDirFails(c) \/ OpenPartFails(c) \/ WritePartFails(c) \/ FlushFails(c)
      BY <2>6 DEF AppendReturns, StoreFails, Finish
    <3>2. /\ pc' = [pc EXCEPT ![c] = "idle"]
          /\ \A d \in Clients \ {c} : call'[d] = call[d]
      BY <3>1 DEF FlushDone, MakeBaseDirFails, OpenPartFails, WritePartFails, FlushFails,
                  FlushReturns, Return, Go, TypeOK
    <3>3. QED
      BY <3>1, <3>2 DEF TypeOK, ImportTypeOK, JobInv, NoJob
  <2>7. QED
    BY <1>4, <2>1, <2>2, <2>3, <2>4, <2>5, <2>6 DEF ImportStep
<1>5. ASSUME NEW c \in Clients, ScanReturns(c) PROVE JobsOK'
  <2>1. /\ pc' = [pc EXCEPT ![c] = "idle"] /\ pc[c] \in {"scan", "empty"}
        /\ \A d \in Clients \ {c} : call'[d] = call[d]
        /\ UNCHANGED <<job, lenient>> /\ query' = [query EXCEPT ![c] = None]
    BY <1>5 DEF ScanReturns, ScanDone, ScanReturnsEmpty, ScanFails, ScanEnds, Return, Go, TypeOK
  <2>2. QED
    BY <2>1 DEF TypeOK, ImportTypeOK, JobInv, NoJob, Steps
<1>6. ASSUME ImportRestart PROVE JobsOK'
  BY <1>6 DEF ImportRestart, Restart, ImportTypeOK, JobInv, NoJob
<1>7. CASE UNCHANGED allVars
  BY <1>7 DEF allVars, vars, procVars, importVars, ImportTypeOK, JobInv
<1>8. QED
  BY <1>1, <1>2, <1>3, <1>4, <1>5, <1>6, <1>7 DEF ImportNext, Continue

-----------------------------------------------------------------------------
(***************************************************************************)
(* The checks come before the append, and nothing else writes a part.      *)
(***************************************************************************)
LEMMA CheckStep == JobsOK /\ CheckInv /\ [ImportNext]_allVars => CheckInv'
<1> SUFFICES ASSUME JobsOK, CheckInv, [ImportNext]_allVars PROVE CheckInv'
  OBVIOUS
<1>0. ImportTypeOK /\ job \in [Clients -> {NoJob} \union Jobs]
  BY DEF JobsOK, ImportTypeOK, Jobs
<1>1. ASSUME NEW c \in Clients, NEW t \in Tables, NEW r \in Requests, import(c, t, r.file, r.mode)
      PROVE  CheckInv'
  <2>1. /\ job' = [job EXCEPT ![c] = [step |-> "lookup", table |-> t, file |-> r.file, mode |-> r.mode]]
        /\ Importable(t, r.file) /\ lenient \subseteq lenient'
        /\ r.mode = "kLenient" => t \in lenient'
    BY <1>1 DEF import
  <2>2. QED
    BY <1>0, <2>1 DEF CheckInv
<1>2. ASSUME NEW c \in Clients, NEW s \in Steps, job[c].step # "none",
             job' = [job EXCEPT ![c].step = s], lenient' = lenient,
             s = "append" /\ job[c].mode = "kStrict" => RowsValid(job[c].table, job[c].file),
             s = "appending" => job[c].step = "append"
      PROVE  CheckInv'
  <2>1. /\ job'[c].step = s /\ job'[c].table = job[c].table /\ job'[c].file = job[c].file
        /\ job'[c].mode = job[c].mode
        /\ \A d \in Clients \ {c} : job'[d] = job[d]
    BY <1>0, <1>2, JobMoves
  <2>2. QED
    BY <1>2, <2>1 DEF CheckInv
<1>3. ASSUME NEW c \in Clients, ImportStep(c) PROVE CheckInv'
  <2> USE DEF At, Move, Steps
  <2>1. CASE ImportLooksUp(c) \/ ImportFindsTable(c)
    BY <1>2, <2>1 DEF ImportLooksUp, ImportFindsTable
  <2>2. CASE ImportValidates(c)
    BY <1>2, <2>2 DEF ImportValidates
  <2>3. CASE ImportRegisters(c)
    BY <1>2, <2>3 DEF ImportRegisters
  <2>4. CASE ImportAppends(c)
    BY <1>2, <2>4 DEF ImportAppends
  <2>5. CASE RegisterReturns(c)
    BY <1>2, <2>5 DEF RegisterReturns
  <2>6. CASE ImportRefuses(c) \/ AppendReturns(c) \/ StoreFails(c)
    <3>1. job' = [job EXCEPT ![c] = NoJob] /\ lenient' = lenient
      BY <2>6 DEF ImportRefuses, AppendReturns, StoreFails, Finish
    <3>2. QED
      BY <1>0, <3>1 DEF CheckInv, NoJob
  <2>7. QED
    BY <1>3, <2>1, <2>2, <2>3, <2>4, <2>5, <2>6 DEF ImportStep
<1>4. CASE UNCHANGED <<job, lenient>>
  BY <1>4 DEF CheckInv
<1>5. CASE ImportRestart
  BY <1>5 DEF ImportRestart, CheckInv, NoJob
<1>6. QED
  BY <1>1, <1>3, <1>4, <1>5
     DEF ImportNext, Continue, ScanBegins, StoreWorks, ScanReturns, importVars, allVars

\* Opening a part and writing it are the only steps that change a part file.
LEMMA PartsWritten ==
  ASSUME [Next]_vars
  PROVE  \/ files' = files
         \/ \E c \in Clients : OpenPart(c) \/ WritePart(c)
<1>1. ASSUME NEW c \in Clients, Progress(c), ~OpenPart(c), ~WritePart(c) PROVE files' = files
  BY <1>1 DEF Progress, MakeBaseDir, MakeBaseDirFails, OpenPartFails, WritePartFails, AddVersion,
       RecordVersion, FlushLock, FlushFails, FlushDone, FlushReturns, FlushTable, ScanRead,
       ScanFails, ScanDone, ScanReturnsEmpty, ScanEnds, diskVars
<1>2. ASSUME NEW c \in Clients, Start(c) PROVE files' = files
  BY <1>2 DEF Start, CreateTable, CreateTableAnyway, ScanStart, ScanUnlisted, ScanGoes,
       AppendStart, diskVars
<1>3. ASSUME NEW loaded \in SUBSET Tables, Restart(loaded) PROVE files' = files
  BY <1>3 DEF Restart, diskVars
<1>4. QED
  BY <1>1, <1>2, <1>3 DEF Next, vars, diskVars

LEMMA PartsStep ==
  TypeOK /\ CallInv /\ JobsOK /\ CheckInv /\ PartsInv /\ [ImportNext]_allVars => PartsInv'
<1> SUFFICES ASSUME TypeOK, CallInv, JobsOK, CheckInv, PartsInv, [ImportNext]_allVars
             PROVE  PartsInv'
  OBVIOUS
<1>1. lenient \subseteq lenient'
  BY DEF ImportNext, Continue, import, ScanBegins, StoreWorks, ImportStep, ImportLooksUp,
         ImportRegisters, ImportFindsTable, ImportValidates, ImportRefuses, ImportAppends,
         RegisterReturns, AppendReturns, StoreFails, ScanReturns, ImportRestart, importVars, allVars
<1>2. [Next]_vars
  BY StoreStep DEF JobsOK
<1>3. CASE files' = files
  BY <1>1, <1>3 DEF PartsInv
<1>4. ASSUME NEW c \in Clients, OpenPart(c) PROVE PartsInv'
  <2>1. \A t \in Tables, p \in Parts : files'[t][p] \in {files[t][p], Torn}
    BY <1>4 DEF OpenPart, PutFile, TypeOK
  <2>2. QED
    BY <1>1, <2>1, SentinelAssumption DEF PartsInv
<1>5. ASSUME NEW c \in Clients, WritePart(c) PROVE PartsInv'
  <2>1. /\ job[c].step = "appending" /\ call[c].table = job[c].table
        /\ call[c].rows = job[c].file
    BY <1>5 DEF WritePart, Go, JobsOK, JobInv
  <2>2. job[c].mode \in {"kStrict", "kLenient"}
    BY <2>1, JobTyped DEF JobsOK
  <2>3. \/ job[c].table \in lenient
        \/ Importable(job[c].table, job[c].file) /\ RowsValid(job[c].table, job[c].file)
    BY <2>1, <2>2 DEF CheckInv
  <2>4. \A t \in Tables, p \in Parts :
           files'[t][p] = files[t][p] \/ (t = job[c].table /\ files'[t][p] = job[c].file)
    BY <1>5, <2>1 DEF WritePart, PutFile, TypeOK
  <2>5. QED
    BY <1>1, <2>3, <2>4 DEF PartsInv
<1>6. QED
  BY <1>2, <1>3, <1>4, <1>5, PartsWritten

-----------------------------------------------------------------------------
LEMMA ImportInvInit == ImportInit => ImportInv
<1> SUFFICES ASSUME ImportInit PROVE ImportInv
  OBVIOUS
<1>1. TypeOK /\ CallInv
  BY TypeInit DEF ImportInit
<1>2. ImportTypeOK /\ JobInv /\ CheckInv
  BY DEF ImportInit, Init, ImportTypeOK, JobInv, CheckInv, NoJob
<1>3. PartsInv
  BY SentinelAssumption DEF ImportInit, Init, PartsInv
<1>4. QED
  BY <1>1, <1>2, <1>3 DEF ImportInv

LEMMA ImportInvStep == ImportInv /\ [ImportNext]_allVars => ImportInv'
  BY StoreStep, TypeStep, CallStep, JobStep, CheckStep, PartsStep DEF ImportInv, JobsOK

\* Any number of threads that import and scan, whatever fails and however often
\* the process dies, use the store as ObjectStore specifies it: every theorem
\* about the store holds of a store filled by data_importer.cpp.
THEOREM ImportsUseTheStore == ImportSpec => Spec
<1>1. ImportInit => Init
  BY DEF ImportInit
<1>2. ImportInv /\ [ImportNext]_allVars => [Next]_vars
  BY StoreStep DEF ImportInv
<1>3. QED
  BY <1>1, <1>2, ImportInvInit, ImportInvStep, PTL DEF ImportSpec, Spec

\* The variables of an import keep their types, and an import waits in the store
\* exactly while it registers or appends.
THEOREM ImportTypeCorrect == ImportSpec => []ImportTypeOK
<1>1. ImportInv => ImportTypeOK
  BY DEF ImportInv
<1>2. QED
  BY <1>1, ImportInvInit, ImportInvStep, PTL DEF ImportSpec

\* An acknowledged import is durable (append and reload under data_importer.cpp).
THEOREM ImportsAreDurable == ASSUME ~ReloadMayFail PROVE ImportSpec => []AckedDurable
  BY ImportsUseTheStore, AppendsAreDurable, PTL

\* What passed the checks of a strict import conforms to the declared columns.
LEMMA ChecksImplyConformity ==
  ASSUME NEW t \in Tables, NEW f \in Rows, Importable(t, f), RowsValid(t, f),
         NEW col \in ColumnsOf(t)
  PROVE  /\ HasField(f, col.name)
         /\ col.not_null => Null \notin Cells(f, col.name)
         /\ ArrowType(f, col.name) = "DOUBLE" =>
               \A v \in Cells(f, col.name) \ {Null, NaN} :
                   /\ col.min # None => v >= col.min
                   /\ col.max # None => v <= col.max
<1>1. HasField(f, col.name)
  BY DEF Importable, Missing
<1>2. ~NullViolated(f, col) /\ ~RangeViolated(f, col)
  BY DEF RowsValid
<1>3. /\ {col.min, col.max} \subseteq Int \union {None}
      /\ Cells(f, col.name) \subseteq Int \union {Null, NaN}
  BY <1>1, CellAssumption
<1>4. ASSUME ArrowType(f, col.name) = "DOUBLE",
             NEW v \in Cells(f, col.name) \ {Null, NaN}
      PROVE  /\ col.min # None => v >= col.min
             /\ col.max # None => v <= col.max
  <2>1. v \in Int
    BY <1>3
  <2>2. ~(Ranged(f, col) /\ Outside(v, col))
    BY <1>2 DEF RangeViolated
  <2>3. ASSUME col.min # None PROVE v >= col.min
    <3>1. col.min \in Int /\ col.min # NaN
      BY <1>3, <2>3, NotNumbersAssumption
    <3>2. ~(v < col.min)
      BY <1>4, <2>2, <2>3, <3>1 DEF Ranged, Outside, Less
    <3>3. QED
      BY <2>1, <3>1, <3>2
  <2>4. ASSUME col.max # None PROVE v <= col.max
    <3>1. col.max \in Int /\ col.max # NaN
      BY <1>3, <2>4, NotNumbersAssumption
    <3>2. ~(col.max < v)
      BY <1>4, <2>2, <2>4, <3>1 DEF Ranged, Outside, Less
    <3>3. QED
      BY <2>1, <3>1, <3>2
  <2>5. QED
    BY <2>3, <2>4
<1>5. QED
  BY <1>1, <1>2, <1>4 DEF NullViolated

\* While only strict imports fill a table, every complete part file of it conforms
\* to the declared columns, for any files, requests, failures and crashes.
THEOREM StrictImportsConform == ImportSpec => []StrictPartsConform
<1>1. ImportInv => StrictPartsConform
  BY ChecksImplyConformity DEF ImportInv, PartsInv, StrictPartsConform
<1>2. QED
  BY <1>1, ImportInvInit, ImportInvStep, PTL DEF ImportSpec

\* Rows the report looks at are rows of the file, and all of them in one chunk.
LEMMA ReportsWhatIsThere ==
  ASSUME NEW f, NEW col
  PROVE  /\ ReportsRange(f, col) => RangeViolated(f, col)
         /\ OneChunk(f, col.name) /\ RangeViolated(f, col) => ReportsRange(f, col)
<1>1. FirstChunk(f, col.name) \subseteq Cells(f, col.name)
  BY DEF FirstChunk, Cells, Range
<1>2. OneChunk(f, col.name) => Cells(f, col.name) \subseteq FirstChunk(f, col.name)
  BY DEF OneChunk, FirstChunk, Cells, Range
<1>3. QED
  BY <1>1, <1>2 DEF ReportsRange, RangeViolated, Outside

\* Whatever the files, the types and the cut into chunks, a report raises no false
\* alarm about an import, and misses a range a strict import refuses the file for
\* only beyond the rows it looked at.
THEOREM ReportsForetell == ImportSpec => []ReportForetells
<1>1. ASSUME ImportInv PROVE ReportForetells
  <2> SUFFICES ASSUME NEW c \in Clients, NEW rowsRead \in BOOLEAN, job[c] # NoJob
               PROVE  LET t      == job[c].table
                          f      == job[c].file
                          report == check_compatibility(t, f, rowsRead)
                      IN
                      /\ job[c].mode = "kStrict" /\ job[c].step \in {"append", "appending"} =>
                            report.range_violations = {}
                      /\ \A col \in ColumnsOf(t) :
                            rowsRead /\ OneChunk(f, col.name) /\ RangeViolated(f, col) =>
                                col.name \in report.range_violations
    BY DEF ReportForetells
  <2> DEFINE t      == job[c].table
             f      == job[c].file
             report == check_compatibility(t, f, rowsRead)
  <2>1. job[c].step # "none"
    BY <1>1 DEF ImportInv, ImportTypeOK, Steps
  <2>2. /\ Importable(t, f)
        /\ job[c].mode = "kStrict" /\ job[c].step \in {"append", "appending"} => RowsValid(t, f)
    BY <1>1, <2>1 DEF ImportInv, CheckInv
  <2>3. ASSUME RowsValid(t, f) PROVE report.range_violations = {}
    BY <2>3, ReportsWhatIsThere DEF check_compatibility, RowsValid
  <2>4. ASSUME NEW col \in ColumnsOf(t), rowsRead, OneChunk(f, col.name), RangeViolated(f, col)
        PROVE  col.name \in report.range_violations
    <3>1. HasField(f, col.name)
      BY <2>2 DEF Importable, Missing
    <3>2. ReportsRange(f, col)
      BY <2>4, ReportsWhatIsThere
    <3>3. QED
      BY <2>4, <3>1, <3>2 DEF check_compatibility
  <2>5. QED
    BY <2>2, <2>3, <2>4
<1>2. QED
  BY <1>1, ImportInvInit, ImportInvStep, PTL DEF ImportSpec

\* A filter over the declared range of a DOUBLE column keeps every number of a
\* file that passed the strict checks.
LEMMA DeclaredRangeKeeps ==
  ASSUME NEW t \in Tables, NEW f \in Rows, Importable(t, f), RowsValid(t, f),
         NEW col \in ColumnsOf(t), NEW pred \in Predicates \ {None},
         pred = [column |-> col.name, min |-> col.min, max |-> col.max],
         ArrowType(f, col.name) = "DOUBLE",
         NEW i \in DOMAIN f.rows, f.rows[i][FieldIndex(f, col.name)] \notin {Null, NaN}
  PROVE  i \in apply_predicate(f, pred)
<1> DEFINE v == f.rows[i][FieldIndex(f, col.name)]
<1>1. /\ pred.min = col.min /\ pred.max = col.max /\ pred.column = col.name
      /\ col.min \in Int /\ col.max \in Int
  BY RequestAssumption
<1>2. v \in Cells(f, col.name)
  BY DEF Cells, Range
<1>3. HasField(f, col.name)
  BY ChecksImplyConformity
<1>4. v \in Int
  BY <1>2, <1>3, CellAssumption
<1>5. v >= col.min /\ v <= col.max
  BY <1>1, <1>2, ChecksImplyConformity, NotNumbersAssumption
<1>6. Within(v, pred)
  BY <1>1, <1>4, <1>5 DEF Within, Less
<1>7. QED
  BY <1>1, <1>6 DEF apply_predicate, Compared

\* The bounds of the strict checks and of the scan filter agree, for any schema:
\* no acknowledged row of a strictly filled table is lost by a scan over the range
\* its column declares, or by one without a predicate.
THEOREM ScansKeepImports == ASSUME ~ReloadMayFail PROVE ImportSpec => []ScansReturnImports
<1>1. ASSUME ImportInv, IInv PROVE ScansReturnImports
  <2> SUFFICES ASSUME NEW c \in Clients, Answers(c), NEW v \in scan[c].must,
                      NEW i \in DOMAIN v.rows.rows,
                      query[c] # None =>
                         /\ call[c].table \notin lenient
                         /\ ArrowType(v.rows, query[c].column) = "DOUBLE"
                         /\ v.rows.rows[i][FieldIndex(v.rows, query[c].column)] \notin {Null, NaN}
                         /\ \E col \in ColumnsOf(call[c].table) :
                               query[c] = [column |-> col.name, min |-> col.min, max |-> col.max]
               PROVE  <<v.part, i>> \in ScanRows(c)
    BY DEF ScansReturnImports
  <2>1. v \in scan[c].seen
    BY <1>1 DEF Answers, IInv, ScanCoversAcked
  <2>2. SUFFICES i \in apply_predicate(v.rows, query[c])
    BY <2>1 DEF ScanRows
  <2>3. CASE query[c] = None
    BY <2>3 DEF apply_predicate
  <2>4. CASE query[c] # None
    <3>1. PICK col \in ColumnsOf(call[c].table) :
             query[c] = [column |-> col.name, min |-> col.min, max |-> col.max]
      BY <2>4
    <3>2. [table |-> call[c].table, part |-> v.part, rows |-> v.rows] \in acked
      BY <1>1 DEF IInv, ScanInv
    <3>3. /\ call[c].table \in Tables /\ v.part \in Parts /\ v.rows \in Rows
      BY <1>1, <3>2 DEF IInv, TypeOK, Ack
    <3>4. files[call[c].table][v.part] = v.rows
      BY <1>1, <3>2 DEF IInv, AckedDurable
    <3>5. Importable(call[c].table, v.rows) /\ RowsValid(call[c].table, v.rows)
      BY <1>1, <2>4, <3>3, <3>4 DEF ImportInv, PartsInv
    <3>6. query[c] \in Predicates \ {None}
      BY <1>1, <2>4 DEF ImportInv, ImportTypeOK
    <3>7. query[c].column = col.name
      BY <3>1
    <3>8. QED
      BY <2>4, <3>1, <3>3, <3>5, <3>6, <3>7, DeclaredRangeKeeps
  <2>5. QED
    BY <2>3, <2>4
<1>2. ImportSpec => []IInv
  BY ImportsUseTheStore, Invariance, PTL
<1>3. QED
  BY <1>1, <1>2, ImportInvInit, ImportInvStep, PTL DEF ImportSpec
=============================================================================
