------------------------------ MODULE VendorDB ------------------------------
(***************************************************************************)
(* The signing ledger of src/db/db.go: a leveldb store of SavedItems keyed *)
(* by the canonical (unlocking-script-free) transaction hash, a persisted  *)
(* running total, and the in-memory VendorCache, a FIFO list of at most    *)
(* CACHE_SIZE SavedItems with a running counter totalCache.                *)
(*                                                                         *)
(* Every exported method of VendorDB holds v.lock (a sync.RWMutex) for its *)
(* whole body, so each is one atomic action here.  Items are abstracted to *)
(* their key, their TimeReceived (a natural number, larger is later) and   *)
(* their Done flag.  The cache holds pointers to its own SavedItem copies, *)
(* the store holds serialized bytes: the two Done flags are independent.   *)
(*                                                                         *)
(* A persistence failure is a disjunct enabled when its fault is in Faults. *)
(***************************************************************************)
EXTENDS Naturals, Sequences, SequencesExt, FiniteSets, TLC

CONSTANTS
    Keys,        \* canonical transaction hashes
    CACHE_SIZE,  \* db.go CACHE_SIZE (100 in the code)
    Faults       \* which persistence failures the store may produce

\* "GetErr":     db.Get fails with an error other than ErrNotFound: returns nil (db.go:71-72)
\* "PutErr":     db.Put of the item fails (db.go:79-80)
\* "TotalErr":   db.Put(totalnum_prefix) fails after the item was stored (db.go:86)
\* "DoneGetErr": db.Get/Deserialize fails in SetTxDone after the cache flip (db.go:119-126)
\* "DonePutErr": db.Put fails in SetTxDone after the cache flip (db.go:129)
FaultNames == {"GetErr", "PutErr", "TotalErr", "DoneGetErr", "DonePutErr"}

ASSUME CACHE_SIZE \in Nat \ {0} /\ Faults \subseteq FaultNames

VARIABLES
    store,      \* leveldb "tx" prefix: a function from the stored keys to records
    totalDisk,  \* leveldb "total" key (0 when absent or unreadable)
    cache,      \* VendorCache.l, front (index 1) = oldest, back = newest
    totalCache, \* VendorCache.totalCache
    batch       \* the slice returned by the last ReadFirstBatch, newest first

dbVars == <<store, totalDisk, cache, totalCache, batch>>

Record == [time : Nat, done : BOOLEAN]
Entry  == [key : Keys, time : Nat, done : BOOLEAN]

TypeOK ==
    /\ DOMAIN store \subseteq Keys
    /\ \A k \in DOMAIN store : store[k] \in Record
    /\ totalDisk \in Nat
    /\ cache \in Seq(Entry) /\ Len(cache) <= CACHE_SIZE
    /\ totalCache \in Nat
    /\ batch \in Seq(Entry)

CachedKeys == {cache[i].key : i \in 1..Len(cache)}

\* An item as stored, with its key, as the iterator of ReadFirstBatch yields it.
StoredEntry(k) == [key |-> k, time |-> store[k].time, done |-> store[k].done]

-----------------------------------------------------------------------------
(* VendorCache                                                             *)

\* Mutant of CachePut: the front is never removed.
CachePutNoEvict(c, e) == Append(c, e)

\* VendorCache.Put: PushBack, then drop the front when over size.
CachePut(c, e) ==
    LET c1 == Append(c, e)
    IN  IF Len(c1) > CACHE_SIZE THEN Tail(c1) ELSE c1

\* VendorCache.Get walks from the back: the newest entry with the key.
CacheIndex(c, k) ==
    CHOOSE i \in 1..Len(c) : c[i].key = k /\ \A j \in i+1..Len(c) : c[j].key # k

\* Mutant of GetAll: the list walked from the front.
GetAllFrontFirst(c) == c

\* VendorCache.GetAll: back to front.
GetAll(c) == Reverse(c)

-----------------------------------------------------------------------------
(* Queries                                                                 *)

\* GetSignedTx for a stored or cached key: the cached copy wins.
GetSignedTx(k) ==
    IF k \in CachedKeys THEN LET e == cache[CacheIndex(cache, k)]
                             IN  [time |-> e.time, done |-> e.done]
                        ELSE store[k]

\* GetTotalTxNum: the in-memory counter unless it is zero.
GetTotalTxNum == IF totalCache > 0 THEN totalCache ELSE totalDisk

\* SavedItemArr.Less: received strictly earlier.
Less(a, b) == a.time < b.time

\* The store scanned and sorted by sort.Reverse(arr): Less with its
\* arguments swapped, newest first.
ScanSorted == SetToSortSeq({StoredEntry(k) : k \in DOMAIN store},
                           LAMBDA a, b : Less(b, a))

LeastOf(a, b) == IF a < b THEN a ELSE b

-----------------------------------------------------------------------------
(* Operations                                                              *)

\* NewVendorDB on a store that already exists: an empty cache whose counter
\* is seeded by GetTotalTxNum, which reads the persisted total.
NewVendorDB ==
    /\ cache' = <<>>
    /\ totalCache' = totalDisk
    /\ batch' = <<>>
    /\ UNCHANGED <<store, totalDisk>>

\* Mutant of PutSignedTx: the total is written before VendorCache.Put counts the item.
PutSignedTxTotalFirst(k, t) ==
    \/ /\ \/ k \in CachedKeys
          \/ k \in DOMAIN store
          \/ Faults \cap {"GetErr", "PutErr"} # {}
       /\ UNCHANGED dbVars
    \/ /\ k \notin CachedKeys
       /\ k \notin DOMAIN store
       /\ store' = store @@ (k :> [time |-> t, done |-> FALSE])
       /\ cache' = CachePut(cache, [key |-> k, time |-> t, done |-> FALSE])
       /\ totalCache' = totalCache + 1
       /\ totalDisk' = totalCache
       /\ UNCHANGED batch

\* PutSignedTx(key, item) with item.TimeReceived = t and item.Done = FALSE.
\* Returns early on a cache hit, a stored key, a read error or a failed
\* db.Put of the item; otherwise stores, caches, counts, persists the count.
PutSignedTx(k, t) ==
    \/ /\ \/ k \in CachedKeys
          \/ k \in DOMAIN store
          \/ Faults \cap {"GetErr", "PutErr"} # {}
       /\ UNCHANGED dbVars
    \/ /\ k \notin CachedKeys
       /\ k \notin DOMAIN store
       /\ store' = store @@ (k :> [time |-> t, done |-> FALSE])
       /\ cache' = CachePut(cache, [key |-> k, time |-> t, done |-> FALSE])
       /\ totalCache' = totalCache + 1
       /\ \/ totalDisk' = totalCache + 1
          \/ /\ "TotalErr" \in Faults
             /\ UNCHANGED totalDisk
       /\ UNCHANGED batch

\* Mutant of SetTxDone: the cached copy is left as it was.
SetTxDoneStoreOnly(k) ==
    /\ k \in DOMAIN store
    /\ store' = [store EXCEPT ![k].done = TRUE]
    /\ UNCHANGED <<cache, totalDisk, totalCache, batch>>

\* Mutant of SetTxDone: a key missing from the store is written as a new Done item.
SetTxDoneUpsert(k) ==
    /\ cache' = IF k \in CachedKeys
                THEN [cache EXCEPT ![CacheIndex(cache, k)].done = TRUE]
                ELSE cache
    /\ store' = IF k \in DOMAIN store THEN [store EXCEPT ![k].done = TRUE]
                ELSE store @@ (k :> [time |-> Cardinality(DOMAIN store) + 1, done |-> TRUE])
    /\ UNCHANGED <<totalDisk, totalCache, batch>>

\* SetTxDone(key): flips Done on the cached copy, then independently
\* reads, flips and rewrites the stored copy; either store step may fail.
SetTxDone(k) ==
    /\ cache' = IF k \in CachedKeys
                THEN [cache EXCEPT ![CacheIndex(cache, k)].done = TRUE]
                ELSE cache
    /\ \/ /\ k \in DOMAIN store
          /\ store' = [store EXCEPT ![k].done = TRUE]
       \/ /\ k \notin DOMAIN store \/ Faults \cap {"DoneGetErr", "DonePutErr"} # {}
          /\ UNCHANGED store
    /\ UNCHANGED <<totalDisk, totalCache, batch>>

\* Mutant of ReadFirstBatch: the warming loop starts at i := 0.
ReadFirstBatchWarmAll ==
    /\ IF Len(cache) = CACHE_SIZE \/ Len(cache) = totalCache
       THEN /\ batch' = GetAll(cache)
            /\ UNCHANGED cache
       ELSE LET arr == ScanSorted
                n   == LeastOf(CACHE_SIZE, Len(arr))
            IN  /\ cache' = Reverse(SubSeq(arr, 1, n - Len(cache))) \o cache
                /\ batch' = SubSeq(arr, 1, n)
    /\ UNCHANGED <<store, totalDisk, totalCache>>

\* ReadFirstBatch: the cache when it is full or holds totalCache items;
\* otherwise a full scan sorted newest first, the cache warmed at its front
\* with the scanned items from position Len(cache) on, and the first
\* CACHE_SIZE scanned items returned.
ReadFirstBatch ==
    /\ IF Len(cache) = CACHE_SIZE \/ Len(cache) = totalCache
       THEN /\ batch' = GetAll(cache)
            /\ UNCHANGED cache
       ELSE LET arr == ScanSorted
                n   == LeastOf(CACHE_SIZE, Len(arr))
            IN  /\ cache' = Reverse(SubSeq(arr, Len(cache) + 1, n)) \o cache
                /\ batch' = SubSeq(arr, 1, n)
    /\ UNCHANGED <<store, totalDisk, totalCache>>

-----------------------------------------------------------------------------
(* The ledger on its own: the Signer's PutSignedTx with a TimeReceived     *)
(* later than every stored one (time.Now() at signer.go:103), the          *)
(* Observer's SetTxDone, the web view's ReadFirstBatch, and a process      *)
(* restart that reopens the same leveldb directory.                        *)

\* time.Now() of the n-th stored item, as an order: strictly increasing.
NextTime == Cardinality(DOMAIN store) + 1

Init ==
    /\ store = <<>>
    /\ totalDisk = 0
    /\ cache = <<>>
    /\ totalCache = 0
    /\ batch = <<>>

Next ==
    \/ \E k \in Keys : PutSignedTx(k, NextTime)
    \/ \E k \in Keys : SetTxDone(k)
    \/ ReadFirstBatch
    \/ NewVendorDB

Spec == Init /\ [][Next]_dbVars

-----------------------------------------------------------------------------
(* Properties                                                              *)

KeySeq(s) == [i \in 1..Len(s) |-> s[i].key]

\* The write-through cache, across puts, evictions, restarts and the cache
\* warming of ReadFirstBatch, always holds exactly the Len(cache) most
\* recently received stored items, each once, oldest at the front, with the
\* stored TimeReceived.  VendorCache.Get and GetAll rely on this.
CacheIsNewest ==
    /\ IsSorted(cache, LAMBDA a, b : a.time < b.time)
    /\ \A i \in 1..Len(cache) :
          /\ cache[i].key \in DOMAIN store
          /\ cache[i].time = store[cache[i].key].time
    /\ \A i \in 1..Len(cache) : \A k \in DOMAIN store \ CachedKeys :
          store[k].time < cache[i].time

\* Once SetTxDone has made the stored record Done, GetSignedTx (which
\* prefers the cached copy) never reports that transaction as not done.
StoreDoneSeenByGet ==
    \A k \in DOMAIN store : store[k].done => GetSignedTx(k).done

\* GetTotalTxNum counts the stored records: a repeated PutSignedTx of the
\* same key adds nothing, and a restart reseeds the same count.
TotalCountsStore == GetTotalTxNum = Cardinality(DOMAIN store)

\* ReadFirstBatch returns the min(CACHE_SIZE, stored) most recently
\* received records, newest first, whichever of its two paths it takes.
BatchIsNewest ==
    [][ReadFirstBatch =>
         KeySeq(batch') = KeySeq(SubSeq(ScanSorted, 1,
                                        LeastOf(CACHE_SIZE, Len(ScanSorted))))]_dbVars

=============================================================================
