---------------------------- MODULE ExploreCache ----------------------------
(***************************************************************************)
(* CacheNamespace of core/cache.py for one key: a version counter, one     *)
(* entry per version, and get_or_set under a Redis lock that expires by    *)
(* itself.  What fetch_func reads is a parameter: Explore supplies it.     *)
(***************************************************************************)
EXTENDS Naturals, FiniteSets

CONSTANTS
  Readers,      \* calls of get_or_set
  NoReader,
  Values,       \* what fetch_func can return, never None
  Encodable,    \* the values among them that json.dumps accepts
  NoEntry,
  MaxVersion    \* bound: invalidations

VARIABLES
  version,    \* cache:<namespace>:version
  entry,      \* the entry of that version; those of earlier versions are unreachable
  lock,       \* lock:<namespace>:<key>
  reader,     \* progress of each call
  queries,    \* history: calls of fetch_func since the last invalidation
  late,       \* history: a lock or an entry expired, a wait for the lock timed out, or
              \* an operation of Redis failed
  refused     \* history: a value could not be encoded

cacheVars == <<version, entry, lock, reader, queries, late, refused>>

Versions == 0..MaxVersion
\* under: the version when the value was fetched
Entry == [value : Values, under : Versions]

InLock == {"locked", "fetching", "storing", "writing", "releasing"}
Call == [pc : {"idle", "waiting", "refetching", "done"} \cup InLock,
         key : Versions, fetched : Entry \cup {NoEntry}]
NoCall == [pc |-> "idle", key |-> 0, fetched |-> NoEntry]

CacheTypeOK ==
  /\ version \in Versions
  /\ entry \in Entry \cup {NoEntry}
  /\ lock \in Readers \cup {NoReader}
  /\ reader \in [Readers -> Call]
  /\ queries \in 0..(2 * Cardinality(Readers))
  /\ late \in BOOLEAN
  /\ refused \in BOOLEAN

CacheInit ==
  /\ version = 0
  /\ entry = NoEntry
  /\ lock = NoReader
  /\ reader = [r \in Readers |-> NoCall]
  /\ queries = 0
  /\ late = FALSE
  /\ refused = FALSE

At(r, pc) == reader[r].pc = pc
\* What was read before is not needed again, except the value between fetch and store.
Move(r, to) == reader' = [reader EXCEPT ![r] = [NoCall EXCEPT !.pc = to]]
Finish(r) == Move(r, "done")

-----------------------------------------------------------------------------
(* get: the version is read, then the entry of that version; one step here, since an
   invalidation in between only lets this call see an entry that was current when it asked *)

Hit(r, from, to) ==
  /\ At(r, from)
  /\ entry # NoEntry
  /\ Move(r, to)
  /\ UNCHANGED <<version, entry, lock, queries, late, refused>>

\* No entry, or a failure of Redis to return it, which get treats in the same way.
Miss(r, from, to) ==
  /\ At(r, from)
  /\ Move(r, to)
  /\ late' = (late \/ entry # NoEntry)
  /\ UNCHANGED <<version, entry, lock, queries, refused>>

-----------------------------------------------------------------------------
(* get_or_set *)

Look(r) == Hit(r, "idle", "done") \/ Miss(r, "idle", "waiting")

Acquire(r) ==
  /\ At(r, "waiting")
  /\ lock = NoReader
  /\ lock' = r
  /\ Move(r, "locked")
  /\ UNCHANGED <<version, entry, queries, late, refused>>

\* blocking_timeout: LockError, and the caller fetches for itself.
AcquireTimeout(r) ==
  /\ At(r, "waiting")
  /\ lock # NoReader
  /\ Move(r, "refetching")
  /\ late' = TRUE
  /\ UNCHANGED <<version, entry, lock, queries, refused>>

\* Mutant: the entry is not looked up again under the lock.
CheckedOnce(r) ==
  /\ At(r, "locked")
  /\ Move(r, "fetching")
  /\ UNCHANGED <<version, entry, lock, queries, late, refused>>

\* The double check: somebody may have filled the entry while this call waited.
DoubleCheck(r) == Hit(r, "locked", "releasing") \/ Miss(r, "locked", "fetching")

Fetch(r, value) ==
  /\ At(r, "fetching")
  /\ reader' = [reader EXCEPT ![r] =
       [NoCall EXCEPT !.pc = "storing", !.fetched = [value |-> value, under |-> version]]]
  /\ queries' = queries + 1
  /\ UNCHANGED <<version, entry, lock, late, refused>>

\* set reads the version again.
ReadVersion(r) ==
  /\ At(r, "storing")
  /\ reader' = [reader EXCEPT ![r] = [@ EXCEPT !.pc = "writing", !.key = version]]
  /\ UNCHANGED <<version, entry, lock, queries, late, refused>>

\* The value is stored, unreachable if the version has gone on.  A value that cannot be
\* encoded and a failure of Redis end in the same except: logged, and nothing is stored.
Store(r) ==
  /\ At(r, "writing")
  /\ IF reader[r].fetched.value \notin Encodable
       THEN refused' = TRUE /\ UNCHANGED <<entry, late>>
       ELSE /\ UNCHANGED refused
            /\ \/ /\ entry' = IF reader[r].key = version THEN reader[r].fetched ELSE entry
                  /\ UNCHANGED late
               \/ late' = TRUE /\ UNCHANGED entry
  /\ Move(r, "releasing")
  /\ UNCHANGED <<version, lock, queries>>

\* Leaving the lock's block; if the lock has expired the release raises LockError, and the
\* value is fetched a second time although the call already has it.
Release(r) ==
  /\ At(r, "releasing")
  /\ IF lock = r
       THEN lock' = NoReader /\ Finish(r)
       ELSE Move(r, "refetching") /\ UNCHANGED lock
  /\ UNCHANGED <<version, entry, queries, late, refused>>

\* fetch_func outside the lock; nothing is stored.
FetchUncached(r) ==
  /\ At(r, "refetching")
  /\ queries' = queries + 1
  /\ Finish(r)
  /\ UNCHANGED <<version, entry, lock, late, refused>>

\* Mutant: a call that cannot store its value fetches it again.
RedisRetried(r) ==
  /\ \/ /\ reader[r].pc \in {"idle", "waiting", "releasing"}
        /\ Finish(r)
     \/ /\ reader[r].pc = "locked"
        /\ Move(r, "releasing")
     \/ /\ reader[r].pc = "storing"
        /\ Move(r, "fetching")
  /\ late' = TRUE
  /\ UNCHANGED <<version, entry, lock, queries, refused>>

\* A failure of Redis where nothing catches it, reading the version or at the lock, ends the
\* call with an error; from within the lock's block by way of the release.
RedisFails(r) ==
  /\ \/ /\ reader[r].pc \in {"idle", "waiting", "releasing"}
        /\ Finish(r)
     \/ /\ reader[r].pc \in {"locked", "storing"}
        /\ Move(r, "releasing")
  /\ late' = TRUE
  /\ UNCHANGED <<version, entry, lock, queries, refused>>

\* The lock's timeout of 5 seconds, whatever its holder is doing.
LockExpires ==
  /\ lock # NoReader
  /\ lock' = NoReader
  /\ late' = TRUE
  /\ UNCHANGED <<version, entry, reader, queries, refused>>

\* The entry's ttl.
EntryExpires ==
  /\ entry # NoEntry
  /\ entry' = NoEntry
  /\ late' = TRUE
  /\ UNCHANGED <<version, lock, reader, queries, refused>>

\* One INCR: the entries of the old version can no longer be found.
Invalidate ==
  /\ version < MaxVersion
  /\ version' = version + 1
  /\ entry' = NoEntry
  /\ queries' = 0
  /\ UNCHANGED <<lock, reader, late, refused>>

ReaderStep(r, value) ==
  \/ Look(r) \/ Acquire(r) \/ AcquireTimeout(r) \/ DoubleCheck(r) \/ Fetch(r, value)
  \/ ReadVersion(r) \/ Store(r) \/ Release(r) \/ FetchUncached(r)
  \/ RedisFails(r)

-----------------------------------------------------------------------------
(* Properties *)

\* "Return cached value if it exists, otherwise call fetcher(), cache and return the result":
\* as long as nothing expires and Redis answers, the database is asked at most once per
\* version, however many calls arrive together.
CachedOnce == ~late => queries <= 1

\* The stampede protection, which is the part of it that holds: the same, provided that every
\* value can be encoded.
OneQueryPerVersion == ~refused => CachedOnce
=============================================================================
