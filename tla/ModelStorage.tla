---------------------------- MODULE ModelStorage ----------------------------
(***************************************************************************)
(* ModelStorageLayer (storage/model/model_storage_layer.cpp): checkpoint   *)
(* files with an LRU cache in front of them, used by several threads.      *)
(* cache_mutex_ covers one look-up or one update of the cache and never    *)
(* the file I/O, so each of these is a step of its own.                    *)
(*                                                                         *)
(* A file name leads to an inode and an open file is an inode: rename and  *)
(* remove change names, a thread that has the file open keeps its inode.   *)
(* A key stands for (model_name, version_id).  The process may die; what   *)
(* was written stays written.                                              *)
(***************************************************************************)
EXTENDS Naturals, SequencesExt

CONSTANTS
    Threads,        \* callers
    Keys,           \* pairs of a model name and a version id
    Data,           \* complete model blobs
    Inodes,         \* enough of them for every name and every open file
    kMaxCacheSize,
    Writers,        \* which of "save" and "atomic" the callers use
    None,
    Torn            \* content that is empty, cut short or mixed

ASSUME BoundsAssumption ==
    /\ kMaxCacheSize \in Nat \ {0}
    /\ Writers \subseteq {"save", "atomic"}

ASSUME SentinelAssumption ==
    /\ None \notin Threads \union Keys \union Data \union Inodes
    /\ Torn \notin Data \union {None}

VARIABLES
    final, pending, \* the inodes of <key>.parquet and <key>.pending
    content,        \* of each inode
    cache,          \* lru_list_, most recently used first; lru_map_ is its index
    pc, call,       \* per thread: where its call is; its key, data and open inode
    issued,         \* history: the keys and data writers were called with
    used,           \* history: per key, its only writer or that it was written again
    deleted,        \* history: keys whose checkpoint was removed from outside
    acked           \* history: writes that returned ok

diskVars == <<final, pending, content>>
procVars == <<pc, call>>
histVars == <<issued, used, deleted, acked>>
vars     == <<diskVars, cache, procVars, histVars>>

Blob   == [key : Keys, data : Data]
Entry  == [key : Keys, data : Data \union {Torn}]
Call   == [op : {"none", "save", "atomic", "load", "recover"}, key : Keys \union {None},
           data : Data \union {Torn, None}, fd : Inodes \union {None}]
NoCall == [op |-> "none", key |-> None, data |-> None, fd |-> None]
Labels == {"idle", "open", "write", "rename", "exists", "read", "cache", "recover"}

TypeOK ==
    /\ final \in [Keys -> Inodes \union {None}]
    /\ pending \in [Keys -> Inodes \union {None}]
    /\ content \in [Inodes -> Data \union {Torn}]
    /\ cache \in Seq(Entry)
    /\ pc \in [Threads -> Labels]
    /\ call \in [Threads -> Call]
    /\ issued \subseteq Blob
    /\ used \in [Keys -> {"unused", "save", "atomic", "again"}]
    /\ deleted \subseteq Keys
    /\ acked \subseteq Blob

Init ==
    /\ final = [k \in Keys |-> None]
    /\ pending = [k \in Keys |-> None]
    /\ content = [i \in Inodes |-> Torn]
    /\ cache = <<>>
    /\ pc = [t \in Threads |-> "idle"]
    /\ call = [t \in Threads |-> NoCall]
    /\ issued = {}
    /\ used = [k \in Keys |-> "unused"]
    /\ deleted = {}
    /\ acked = {}

-----------------------------------------------------------------------------
Go(t, from, to) == pc[t] = from /\ pc' = [pc EXCEPT ![t] = to]

Return(t, from) == Go(t, from, "idle") /\ call' = [call EXCEPT ![t] = NoCall]

\* An inode that no name leads to and no thread has open.
Free(i) ==
    /\ \A k \in Keys : final[k] # i /\ pending[k] # i
    /\ \A t \in Threads : call[t].fd # i

\* The inode ofstream(trunc) opens: the one the name leads to, or a new one.
Opens(name, k, i) == IF name[k] = None THEN Free(i) ELSE name[k] = i

Cached(k) == {i \in DOMAIN cache : cache[i].key = k}

EvictedLate(c) == IF Len(c) > kMaxCacheSize THEN Front(c) ELSE c   \* variant

Evicted(c) == IF Len(c) >= kMaxCacheSize THEN Front(c) ELSE c

UpdateCacheByModel(k, d) ==   \* variant: cache_key forgets the version id
    \E version \in Keys : cache' = <<[key |-> version, data |-> d]>>

\* lru_list_ without the element at lru_map_[k].
Erased(k) == RemoveAt(cache, CHOOSE i \in Cached(k) : TRUE)

update_cache(k, d) ==
    cache' = <<[key |-> k, data |-> d]>>
               \o (IF Cached(k) # {} THEN Erased(k) ELSE Evicted(cache))

(***************************************************************************)
(* save_checkpoint writes <key>.parquet in place; atomic_write writes      *)
(* <key>.pending and renames it.  Both put the data into the cache last.   *)
(***************************************************************************)
WriteStart(t, op, k, d) ==
    /\ op \in Writers
    /\ Go(t, "idle", "open")
    /\ call' = [call EXCEPT ![t] = [op |-> op, key |-> k, data |-> d, fd |-> None]]
    /\ issued' = issued \union {[key |-> k, data |-> d]}
    /\ used' = [used EXCEPT ![k] = IF @ = "unused" THEN op ELSE "again"]
    /\ UNCHANGED <<diskVars, cache, deleted, acked>>

OpenPending(t, i) ==
    LET k == call[t].key IN
    /\ call[t].op = "atomic"
    /\ Opens(pending, k, i)
    /\ Go(t, "open", "write")
    /\ pending' = [pending EXCEPT ![k] = i]
    /\ content' = [content EXCEPT ![i] = Torn]
    /\ call' = [call EXCEPT ![t].fd = i]
    /\ UNCHANGED <<final, cache, histVars>>

OpenFinal(t, i) ==
    LET k == call[t].key IN
    /\ call[t].op = "save"
    /\ Opens(final, k, i)
    /\ Go(t, "open", "write")
    /\ final' = [final EXCEPT ![k] = i]
    /\ content' = [content EXCEPT ![i] = Torn]
    /\ call' = [call EXCEPT ![t].fd = i]
    /\ UNCHANGED <<pending, cache, histVars>>

OpenFails(t) ==
    /\ Return(t, "open")
    /\ UNCHANGED <<diskVars, cache, histVars>>

\* Over what another writer of the same inode left, the result may be a mixture.
Write(t) ==
    LET i == call[t].fd IN
    /\ Go(t, "write", IF call[t].op = "save" THEN "cache" ELSE "rename")
    /\ \E c \in {call[t].data} \union (IF content[i] = Torn THEN {} ELSE {Torn}) :
          content' = [content EXCEPT ![i] = c]
    /\ call' = [call EXCEPT ![t].fd = None]
    /\ UNCHANGED <<final, pending, cache, histVars>>

WriteFailureIgnored(t) ==   \* variant: out.fail() is not looked at
    /\ Go(t, "write", IF call[t].op = "save" THEN "cache" ELSE "rename")
    /\ call' = [call EXCEPT ![t].fd = None]
    /\ UNCHANGED <<diskVars, cache, histVars>>

WriteFails(t) ==
    /\ Return(t, "write")
    /\ \E c \in {Torn, content[call[t].fd]} : content' = [content EXCEPT ![call[t].fd] = c]
    /\ UNCHANGED <<final, pending, cache, histVars>>

\* Whatever <key>.pending leads to by now takes the place of <key>.parquet.
Rename(t) ==
    LET k == call[t].key IN
    /\ Go(t, "rename", "cache")
    /\ pending[k] # None
    /\ final' = [final EXCEPT ![k] = pending[k]]
    /\ pending' = [pending EXCEPT ![k] = None]
    /\ UNCHANGED <<content, cache, call, histVars>>

RenameFailureIgnored(t) ==   \* variant: ec is not looked at
    /\ Go(t, "rename", "cache")
    /\ UNCHANGED <<diskVars, cache, call, histVars>>

RenameFails(t) ==
    /\ Return(t, "rename")
    /\ UNCHANGED <<diskVars, cache, histVars>>

\* The last step of a writer and of a load that read the file.
UpdateCache(t) ==
    /\ Return(t, "cache")
    /\ update_cache(call[t].key, call[t].data)
    /\ acked' = acked \union
                (IF call[t].op = "load" THEN {}
                 ELSE {[key |-> call[t].key, data |-> call[t].data]})
    /\ UNCHANGED <<diskVars, issued, used, deleted>>

(***************************************************************************)
(* load_model.  The look-up, the test that the file exists and the return  *)
(* of a hit are under the mutex; the test and the read of a miss are not.  *)
(***************************************************************************)
LoadHit(t, k) ==
    /\ pc[t] = "idle"
    /\ final[k] # None
    /\ \E i \in Cached(k) : cache' = <<cache[i]>> \o Erased(k)
    /\ UNCHANGED <<diskVars, procVars, histVars>>

LoadMiss(t, k) ==
    /\ Cached(k) = {} \/ final[k] = None
    /\ Go(t, "idle", "exists")
    /\ cache' = IF Cached(k) = {} THEN cache ELSE Erased(k)
    /\ call' = [call EXCEPT ![t] = [NoCall EXCEPT !.op = "load", !.key = k]]
    /\ UNCHANGED <<diskVars, histVars>>

\* tellg fixes how much will be read, here as the content at that moment.
LoadOpen(t) ==
    LET i == final[call[t].key] IN
    /\ Go(t, "exists", "read")
    /\ i # None
    /\ call' = [call EXCEPT ![t] = [@ EXCEPT !.fd = i, !.data = content[i]]]
    /\ UNCHANGED <<diskVars, cache, histVars>>

LoadNotFound(t) ==
    /\ Return(t, "exists")
    /\ final[call[t].key] = None
    /\ UNCHANGED <<diskVars, cache, histVars>>

LoadRead(t) ==
    LET now == content[call[t].fd] IN
    /\ Go(t, "read", "cache")
    /\ \E d \in {now} \union (IF now = call[t].data THEN {} ELSE {Torn}) :
          call' = [call EXCEPT ![t] = [@ EXCEPT !.fd = None, !.data = d]]
    /\ UNCHANGED <<diskVars, cache, histVars>>

ReadFailureCached(t) ==   \* variant: in.fail() is not looked at
    /\ Go(t, "read", "cache")
    /\ call' = [call EXCEPT ![t] = [@ EXCEPT !.fd = None, !.data = Torn]]
    /\ UNCHANGED <<diskVars, cache, histVars>>

LoadFails(t) ==
    /\ Return(t, "read")
    /\ UNCHANGED <<diskVars, cache, histVars>>

(***************************************************************************)
(* recover_interrupted removes the .pending files it meets, one by one: of *)
(* those made while it runs, directory_iterator may show any or none.      *)
(***************************************************************************)
RecoverStart(t) ==
    /\ Go(t, "idle", "recover")
    /\ call' = [call EXCEPT ![t] = [NoCall EXCEPT !.op = "recover"]]
    /\ UNCHANGED <<diskVars, cache, histVars>>

RecoverRemove(t, k) ==
    /\ pc[t] = "recover"
    /\ pending[k] # None
    /\ pending' = [pending EXCEPT ![k] = None]
    /\ UNCHANGED <<final, content, cache, procVars, histVars>>

\* It is through, could not list a directory, or could not remove a file and
\* returns an error.
RecoverReturn(t) ==
    /\ Return(t, "recover")
    /\ UNCHANGED <<diskVars, cache, histVars>>

\* Another program removes a checkpoint file.
ExternalDelete(k) ==
    /\ final[k] # None
    /\ final' = [final EXCEPT ![k] = None]
    /\ deleted' = deleted \union {k}
    /\ UNCHANGED <<pending, content, cache, procVars, issued, used, acked>>

Crash ==
    /\ cache' = <<>>
    /\ pc' = [t \in Threads |-> "idle"]
    /\ call' = [t \in Threads |-> NoCall]
    /\ UNCHANGED <<diskVars, histVars>>

-----------------------------------------------------------------------------
Step(t) ==
    \/ \E op \in Writers, k \in Keys, d \in Data : WriteStart(t, op, k, d)
    \/ \E i \in Inodes : OpenPending(t, i) \/ OpenFinal(t, i)
    \/ OpenFails(t) \/ Write(t) \/ WriteFails(t) \/ Rename(t) \/ RenameFails(t)
    \/ UpdateCache(t)
    \/ \E k \in Keys : LoadHit(t, k) \/ LoadMiss(t, k)
    \/ LoadOpen(t) \/ LoadNotFound(t) \/ LoadRead(t) \/ LoadFails(t)
    \/ RecoverStart(t) \/ RecoverReturn(t)
    \/ \E k \in Keys : RecoverRemove(t, k)

Next ==
    \/ \E t \in Threads : Step(t)
    \/ \E k \in Keys : ExternalDelete(k)
    \/ Crash

Spec == Init /\ [][Next]_vars

-----------------------------------------------------------------------------
\* The keys that nobody but at most one atomic_write has touched: version ids are
\* made unique by generate_version_id, so callers write an id once.
Once(k) == used[k] \in {"unused", "atomic"}

\* A checkpoint file written by one atomic_write is never seen half written:
\* whatever <key>.parquet leads to, after any crash or failed write and beside any
\* other call, is a complete blob.
CheckpointsAreComplete ==
    \A k \in Keys : Once(k) /\ final[k] # None => content[final[k]] \in Data

\* An atomic_write that returned ok is on disk under its name until the file is
\* removed from outside, through crashes and other calls, recover_interrupted
\* included.
AckedDurable ==
    \A a \in acked : Once(a.key) /\ a.key \notin deleted =>
        final[a.key] # None /\ content[final[a.key]] = a.data

\* A hit returns what the file holds: no cache entry of k differs from the file.
Coherent(k) ==
    \A i \in Cached(k) : final[k] # None => content[final[k]] = cache[i].data

\* The cache agrees with every file that one atomic_write made, in whatever order
\* loads and writes reach update_cache.
CacheCoherent == \A k \in Keys : Once(k) => Coherent(k)

\* The list never outgrows kMaxCacheSize and holds a key once, so that lru_map_
\* has one iterator for each of its elements.
CacheWellFormed ==
    /\ Len(cache) <= kMaxCacheSize
    /\ \A i, j \in DOMAIN cache : cache[i].key = cache[j].key => i = j

\* A blob is never found under a key it was not written for, in the cache or on
\* disk, even where writers of one key overlap and leave torn files.
BlobsKeepTheirKeys ==
    /\ \A i \in DOMAIN cache : cache[i].data # Torn => cache[i] \in issued
    /\ \A k \in Keys : final[k] # None /\ content[final[k]] # Torn =>
          [key |-> k, data |-> content[final[k]]] \in issued
=============================================================================
