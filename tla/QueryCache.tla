------------------------------ MODULE QueryCache -----------------------------
(***************************************************************************)
(* ShmQueryCache (vil_server_core/src/shm_query_cache.rs), the cache       *)
(* behind vil_cache's ShmCacheBackend: a DashMap from queries to places in *)
(* a region of the exchange heap, whose paged bump allocator frees nothing *)
(* but the whole region.  A put that finds the region full resets it,      *)
(* clears the map and allocates again: four calls on two structures, each  *)
(* with locks of its own, while other clients get and put.                 *)
(*                                                                         *)
(* Every heap call holds the heap's mutex from begin to end and is one     *)
(* step.  The map is taken at its finest: each key is in a shard of its    *)
(* own, so clear and retain visit the keys one by one, in any order, and   *)
(* only a lookup that holds an entry (get_mut's guard) keeps others from   *)
(* that key.  A unit of memory stands for the 8 bytes of alignment; what   *)
(* a unit holds is the id of the put that wrote it.                        *)
(***************************************************************************)
EXTENDS Naturals, FiniteSets

CONSTANTS Key,         \* queries
          Client,      \* tasks that use the cache
          Putter,      \* those that also put
          PageSize,    \* PAGE_SIZE, in units
          NumPages,    \* pages of the region
          MaxSize,     \* bound: the largest value put
          MaxEntries,  \* max_entries
          MaxPuts      \* bound: puts ever begun

ASSUME QueryCacheAssumption ==
  /\ Key # {} /\ Putter \subseteq Client
  /\ PageSize \in Nat \ {0} /\ NumPages \in Nat \ {0}
  /\ MaxSize \in Nat /\ MaxEntries \in Nat /\ MaxPuts \in Nat

PutId == 1 .. MaxPuts
Nobody == 0                       \* what memory holds before the first write
Unit == 0 .. NumPages * PageSize - 1

VARIABLES
  entries,    \* the map: key -> where the value is, who put it, whether the TTL is over
  mem,        \* the region's buffer
  page, used, \* PagedAllocator: active_page_idx and that page's cursor
  pc,         \* per client: where it is in its call
  key, len,   \* per client: its argument
  mine, at,   \* per putter: its put's id and the offset it was given
  left,       \* per putter: keys that clear or retain has still to visit
  seen,       \* per client: the bytes read_bytes returned
  due,        \* history, per client: the put whose bytes this hit should return
  latest,     \* history: the put that last inserted a key
  puts        \* history: how many puts were begun

mapVars == <<entries, latest>>
heapVars == <<mem, page, used>>
callVars == <<pc, key, len, mine, at, left, seen, due, puts>>
vars == <<mapVars, heapVars, callVars>>

Init ==
  /\ entries = [k \in {} |-> Nobody]
  /\ mem = [u \in Unit |-> Nobody]
  /\ page = 0 /\ used = 0
  /\ pc = [c \in Client |-> "idle"]
  /\ key = [c \in Client |-> CHOOSE k \in Key : TRUE]
  /\ len = [c \in Client |-> 1]
  /\ mine = [c \in Client |-> Nobody]
  /\ at = [c \in Client |-> 0]
  /\ left = [c \in Client |-> {}]
  /\ seen = [c \in Client |-> {}]
  /\ due = [c \in Client |-> Nobody]
  /\ latest = [k \in Key |-> Nobody]
  /\ puts = 0

Goto(c, label) == pc' = [pc EXCEPT ![c] = label]
At(c, label) == pc[c] = label

\* The map without k, and no lookup holds the entry of k
Without(k) == [j \in DOMAIN entries \ {k} |-> entries[j]]
Unguarded(k) == \A c \in Client : ~(At(c, "hit") /\ key[c] = k)

Extent(start, n) == start .. start + n - 1

-----------------------------------------------------------------------------
(* PagedAllocator::try_alloc: the active page, or the one after it; what   *)
(* is left of a page that was too small is not used again.                 *)
FitsHere(n) == used + n <= PageSize
FitsNext(n) == n <= PageSize /\ page + 1 < NumPages
Fits(n) == FitsHere(n) \/ FitsNext(n)

\* A variant: the page is taken for as long as something of it is left.
AllocateSpilling(c) ==
  /\ at' = [at EXCEPT ![c] = page * PageSize + used]
  /\ used' = used + len[c]
  /\ UNCHANGED page

Allocate(c) ==
  IF FitsHere(len[c])
    THEN /\ at' = [at EXCEPT ![c] = page * PageSize + used]
         /\ used' = used + len[c]
         /\ UNCHANGED page
    ELSE /\ at' = [at EXCEPT ![c] = (page + 1) * PageSize]
         /\ page' = page + 1
         /\ used' = len[c]

-----------------------------------------------------------------------------
(* get.  A miss without an entry changes nothing and is not an action.     *)

\* get_mut, is_expired
LookUp(c, k) ==
  /\ At(c, "idle") /\ k \in DOMAIN entries /\ Unguarded(k)
  /\ key' = [key EXCEPT ![c] = k]
  /\ due' = [due EXCEPT ![c] = latest[k]]
  /\ Goto(c, IF entries[k].expired THEN "stale" ELSE "hit")
  /\ UNCHANGED <<mapVars, heapVars, len, mine, at, left, seen, puts>>

\* The guard was dropped: entries.remove(key), whatever is there by now
RemoveStale(c) ==
  /\ At(c, "stale") /\ Unguarded(key[c])
  /\ entries' = Without(key[c])
  /\ Goto(c, "idle")
  /\ UNCHANGED <<latest, heapVars, key, len, mine, at, left, seen, due, puts>>

\* heap.read_bytes, under the guard
ReadHit(c) ==
  /\ At(c, "hit")
  /\ LET e == entries[key[c]] IN
       seen' = [seen EXCEPT ![c] = {mem[u] : u \in Extent(e.at, e.len)}]
  /\ Goto(c, "done")
  /\ UNCHANGED <<mapVars, heapVars, key, len, mine, at, left, due, puts>>

\* get returns the bytes to its caller
Return(c) ==
  /\ At(c, "done")
  /\ seen' = [seen EXCEPT ![c] = {}]
  /\ due' = [due EXCEPT ![c] = Nobody]
  /\ Goto(c, "idle")
  /\ UNCHANGED <<mapVars, heapVars, key, len, mine, at, left, puts>>

-----------------------------------------------------------------------------
(* put_with_ttl                                                            *)

\* entries.len() >= max_entries
CallPut(c, k, n) ==
  /\ At(c, "idle") /\ puts < MaxPuts
  /\ puts' = puts + 1
  /\ mine' = [mine EXCEPT ![c] = puts + 1]
  /\ key' = [key EXCEPT ![c] = k]
  /\ len' = [len EXCEPT ![c] = n]
  /\ IF Cardinality(DOMAIN entries) >= MaxEntries
       THEN left' = [left EXCEPT ![c] = Key] /\ Goto(c, "evict")
       ELSE UNCHANGED left /\ Goto(c, "alloc")
  /\ UNCHANGED <<mapVars, heapVars, at, seen, due>>

\* One shard of evict_expired's retain, or of clear
Goes(c, k) == k \in DOMAIN entries /\ (At(c, "clear") \/ entries[k].expired)

Visit(c, k) ==
  /\ pc[c] \in {"evict", "clear"} /\ k \in left[c] /\ Unguarded(k)
  /\ entries' = IF Goes(c, k) THEN Without(k) ELSE entries
  /\ left' = [left EXCEPT ![c] = @ \ {k}]
  /\ Goto(c, IF left[c] # {k} THEN pc[c] ELSE IF At(c, "evict") THEN "alloc" ELSE "retry")
  /\ UNCHANGED <<latest, heapVars, key, len, mine, at, seen, due, puts>>

\* heap.alloc_bytes
Alloc(c) ==
  /\ At(c, "alloc")
  /\ IF Fits(len[c])
       THEN Allocate(c) /\ Goto(c, "write")
       ELSE UNCHANGED <<at, page, used>> /\ Goto(c, "reset")
  /\ UNCHANGED <<mapVars, mem, key, len, mine, left, seen, due, puts>>

\* A variant: the region is reset and its entries stay.
ResetOnly(c) ==
  /\ At(c, "reset")
  /\ page' = 0 /\ used' = 0
  /\ Goto(c, "retry")
  /\ UNCHANGED <<mapVars, mem, key, len, mine, at, left, seen, due, puts>>

\* heap.reset_region; the bytes stay as they are
Reset(c) ==
  /\ At(c, "reset")
  /\ page' = 0 /\ used' = 0
  /\ left' = [left EXCEPT ![c] = Key]
  /\ Goto(c, "clear")
  /\ UNCHANGED <<mapVars, mem, key, len, mine, at, seen, due, puts>>

\* The second alloc_bytes; without room, a value larger than a page, put is false
Retry(c) ==
  /\ At(c, "retry")
  /\ IF Fits(len[c])
       THEN Allocate(c) /\ Goto(c, "write")
       ELSE UNCHANGED <<at, page, used>> /\ Goto(c, "idle")
  /\ UNCHANGED <<mapVars, mem, key, len, mine, left, seen, due, puts>>

\* heap.write_bytes
Write(c) ==
  /\ At(c, "write")
  /\ mem' = [u \in Unit |-> IF u \in Extent(at[c], len[c]) THEN mine[c] ELSE mem[u]]
  /\ Goto(c, "insert")
  /\ UNCHANGED <<mapVars, page, used, key, len, mine, at, left, seen, due, puts>>

\* entries.insert
Insert(c) ==
  /\ At(c, "insert") /\ Unguarded(key[c])
  /\ entries' = [k \in DOMAIN entries \cup {key[c]} |->
                   IF k = key[c] THEN [at |-> at[c], len |-> len[c], expired |-> FALSE]
                                 ELSE entries[k]]
  /\ latest' = [latest EXCEPT ![key[c]] = mine[c]]
  /\ Goto(c, "idle")
  /\ UNCHANGED <<heapVars, key, len, mine, at, left, seen, due, puts>>

-----------------------------------------------------------------------------
\* invalidate, and one key of invalidate_prefix's retain
Invalidate(k) ==
  /\ k \in DOMAIN entries /\ Unguarded(k)
  /\ entries' = Without(k)
  /\ UNCHANGED <<latest, heapVars, callVars>>

\* The TTL of an entry runs out
Expire(k) ==
  /\ k \in DOMAIN entries /\ ~entries[k].expired
  /\ entries' = [entries EXCEPT ![k].expired = TRUE]
  /\ UNCHANGED <<latest, heapVars, callVars>>

Get(c) == \/ \E k \in Key : LookUp(c, k)
          \/ RemoveStale(c)
          \/ ReadHit(c)
          \/ Return(c)

Put(c) == \/ \E k \in Key, n \in 1 .. MaxSize : CallPut(c, k, n)
          \/ \E k \in Key : Visit(c, k)
          \/ Alloc(c)
          \/ Reset(c)
          \/ Retry(c)
          \/ Write(c)
          \/ Insert(c)

Next ==
  \/ \E c \in Client : Get(c)
  \/ \E c \in Putter : Put(c)
  \/ \E k \in Key : Invalidate(k) \/ Expire(k)

Spec == Init /\ [][Next]_vars

-----------------------------------------------------------------------------
(* Properties.                                                             *)

Label == {"idle", "stale", "hit", "done", "evict", "clear", "alloc", "reset",
          "retry", "write", "insert"}
Entry == [at : Unit, len : 1 .. MaxSize, expired : BOOLEAN]

(* The variables keep their types; in particular no entry and no putter     *)
(* names a place outside the region, and no page is filled beyond its end. *)
TypeOK ==
  /\ DOMAIN entries \subseteq Key
  /\ \A k \in DOMAIN entries :
       entries[k] \in Entry /\ Extent(entries[k].at, entries[k].len) \subseteq Unit
  /\ mem \in [Unit -> PutId \cup {Nobody}]
  /\ page \in 0 .. NumPages - 1 /\ used \in 0 .. PageSize
  /\ pc \in [Client -> Label]
  /\ key \in [Client -> Key] /\ len \in [Client -> Nat]
  /\ mine \in [Client -> PutId \cup {Nobody}] /\ at \in [Client -> Nat]
  /\ left \in [Client -> SUBSET Key]
  /\ seen \in [Client -> SUBSET (PutId \cup {Nobody})]
  /\ due \in [Client -> PutId \cup {Nobody}]
  /\ latest \in [Key -> PutId \cup {Nobody}]
  /\ puts \in 0 .. MaxPuts

(* A hit returns the bytes that the last put of that query wrote, all of    *)
(* them and nothing else, although the region may be reset, handed out     *)
(* again and overwritten between any two steps of get.                     *)
HitIsLastPut == \A c \in Client : At(c, "done") => seen[c] = {due[c]}
=============================================================================
