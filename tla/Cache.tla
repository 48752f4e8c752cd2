------------------------------- MODULE Cache -------------------------------
(***************************************************************************)
(* The cache of src/async/cache.ts: a Map in insertion order, whose front  *)
(* is evicted first.  A hit moves its entry to the end; a set on a key     *)
(* that is there replaces the value where it stands.                       *)
(*                                                                         *)
(* getOrElse looks the key up, awaits its task and then stores, whatever   *)
(* was done to the key in between.  Values are left out: no property tells *)
(* them apart.                                                             *)
(***************************************************************************)
EXTENDS Naturals, Sequences, SequencesExt, Filter

CONSTANTS Key,
          Fetch,   \* the getOrElse calls
          Ttl,     \* options.ttl
          Ttls,    \* the times to live given to setWithTTL
          MaxSize, \* options.maxSize; undefined is any number from Cardinality(Key) up
          NoKey,   \* a getOrElse call that awaits no task
          MaxClock \* bound on the clock

ASSUME CacheAssumption ==
  /\ IsFiniteSet(Key) /\ IsFiniteSet(Fetch) /\ NoKey \notin Key
  /\ {Ttl, MaxSize, MaxClock} \subseteq Nat /\ Ttls \subseteq Nat

VARIABLES clock,     \* Date.now(), which never steps back
          store,     \* store: its entries in insertion order
          fetching   \* per getOrElse call, the key whose task it awaits

cacheVars == <<store, fetching>>

ClockTicks == clock < MaxClock /\ clock' = clock + 1

CacheInit ==
  /\ store = <<>>
  /\ fetching = [f \in Fetch |-> NoKey]

Expired(entry) == clock > entry.expiresAt
Keys == {store[i].key : i \in DOMAIN store}
Holds(k) == \E i \in DOMAIN store : store[i].key = k /\ ~Expired(store[i])
Entry(k) == CHOOSE e \in Range(store) : e.key = k

Without(k) == Remaining(store, {e \in Range(store) : e.key = k})
Stale(entries) == {e \in Range(entries) : Expired(e)}

\* Seeded fault: maxSize is enforced before the expired entries are removed.
EvictFullFirst(entries) ==
  LET extra == IF Len(entries) > MaxSize THEN Len(entries) - MaxSize ELSE 0
  IN  Remaining(SubSeq(entries, extra + 1, Len(entries)), Stale(entries))

\* evict: the expired entries go, then the first ones until maxSize are left.
Evict(entries) ==
  LET fresh == Remaining(entries, Stale(entries))
      extra == IF Len(fresh) > MaxSize THEN Len(fresh) - MaxSize ELSE 0
  IN  SubSeq(fresh, extra + 1, Len(fresh))

\* Seeded fault: nothing is evicted.
PutOnly(k, ttl) ==
  LET entry == [key |-> k, expiresAt |-> clock + ttl]
  IN  store' = IF k \in Keys THEN [i \in DOMAIN store |-> IF store[i].key = k THEN entry ELSE store[i]]
                             ELSE Append(store, entry)

\* Map.set, which leaves a key that is there in its place, and evict.
Put(k, ttl) ==
  LET entry == [key |-> k, expiresAt |-> clock + ttl]
  IN  store' = Evict(IF k \in Keys THEN [i \in DOMAIN store |-> IF store[i].key = k THEN entry ELSE store[i]]
                                   ELSE Append(store, entry))

\* A hit: the entry moves to the end.
Hit(k) == Holds(k) /\ store' = Append(Without(k), Entry(k))

\* A miss: an expired entry goes.
Miss(k) == ~Holds(k) /\ store' = Without(k)

Get(k) == (Hit(k) \/ Miss(k)) /\ UNCHANGED <<fetching, clock>>

\* has(k) changes something only when k's entry has expired.
Has(k) == Miss(k) /\ UNCHANGED <<fetching, clock>>

Set(k)             == Put(k, Ttl) /\ UNCHANGED <<fetching, clock>>
SetWithTTL(k, ttl) == Put(k, ttl) /\ UNCHANGED <<fetching, clock>>

Delete(k) == store' = Without(k) /\ UNCHANGED <<fetching, clock>>
Clear     == store' = <<>>       /\ UNCHANGED <<fetching, clock>>
Size      == store' = Evict(store) /\ UNCHANGED <<fetching, clock>>

\* getOrElse, up to its await: a hit ends it.
GetOrElse(f, k) ==
  /\ fetching[f] = NoKey
  /\ \/ Hit(k) /\ UNCHANGED fetching
     \/ Miss(k) /\ fetching' = [fetching EXCEPT ![f] = k]
  /\ UNCHANGED clock

\* getOrElse, after its await: an Ok is stored, an Err or a rejection is not.
Fetched(f) ==
  /\ fetching[f] # NoKey
  /\ fetching' = [fetching EXCEPT ![f] = NoKey]
  /\ \/ Put(fetching[f], Ttl)
     \/ UNCHANGED store
  /\ UNCHANGED clock

CacheNext ==
  \/ \E k \in Key : \/ Get(k) \/ Has(k) \/ Set(k) \/ Delete(k)
                    \/ \E ttl \in Ttls : SetWithTTL(k, ttl)
                    \/ \E f \in Fetch : GetOrElse(f, k)
  \/ \E f \in Fetch : Fetched(f)
  \/ Clear
  \/ Size
  \/ ClockTicks /\ UNCHANGED cacheVars

CacheSpec == clock = 0 /\ CacheInit /\ [][CacheNext]_<<cacheVars, clock>>

-----------------------------------------------------------------------------
(* Properties. *)

\* No key has two entries, and there are never more entries than maxSize, also
\* when getOrElse stores late.
CacheTypeOK ==
  /\ store \in Seq([key : Key, expiresAt : Nat])
  /\ IsInjective([i \in DOMAIN store |-> store[i].key])
  /\ Len(store) <= MaxSize
  /\ fetching \in [Fetch -> Key \cup {NoKey}]

\* An entry that has not expired is lost only to delete, to clear, or to make room in a
\* cache filled to maxSize with entries that have not expired either, and then together
\* with every entry that stood before it in the Map (evict).  The order is the Map's: a
\* set on a key that is there does not count as an access.
EvictsOnlyWhenFull ==
  [][\A k \in Key :
       Holds(k) /\ (\A n \in DOMAIN store' : store'[n].key # k) =>
         \/ Delete(k) \/ Clear
         \/ /\ Len(store') = MaxSize
            /\ \A n \in DOMAIN store' : clock <= store'[n].expiresAt
            /\ \A i, j \in DOMAIN store :
                 i < j /\ store[j].key = k => \A n \in DOMAIN store' : store'[n].key # store[i].key]_store
=============================================================================
