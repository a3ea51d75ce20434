------------------------------ MODULE Explore ------------------------------
(***************************************************************************)
(* The explore registry (api/endpoints/explore.py, explore_service.py):    *)
(* the listing of the public personas, read through the explore cache,     *)
(* which only the public publish endpoint invalidates.                     *)
(***************************************************************************)
EXTENDS Publishing

CONSTANTS
  Readers, NoReader, NoEntry,
  MaxVersion    \* bound: invalidations

VARIABLES version, entry, lock, reader, queries, late, refused,   \* see ExploreCache
          missed    \* history: a change of the listing since the last invalidation was
                    \* not, and will not be, followed by one of its own

Listings == SUBSET (Personas \X Names \X Repositories)

\* model_dump leaves a persona's id a UUID, which json.dumps refuses: only the empty listing
\* can be encoded.
EncodableListings == {{}}

Cache == INSTANCE ExploreCache WITH Values <- Listings, Encodable <- EncodableListings

ASSUME ExploreAssumption ==
  /\ IsFiniteSet(Readers)
  /\ NoReader \notin Readers
  /\ NoEntry \notin Cache!Entry
  /\ MaxVersion \in Nat

cacheVars == <<version, entry, lock, reader, queries, late, refused>>
vars == <<publishingVars, cacheVars, missed>>

TypeOK == PublishingTypeOK /\ Cache!CacheTypeOK /\ missed \in BOOLEAN

Init == PublishingInit /\ Cache!CacheInit /\ missed = FALSE

-----------------------------------------------------------------------------
\* The query of fetch_explore: public, published, not deleted (is_listed is not looked at).
Listing == {<<p, row[p].name, row[p].url>> : p \in {x \in Personas : Listed(x)}}

\* GET /explore
Browse(r) ==
  /\ Cache!ReaderStep(r, Listing)
  /\ UNCHANGED <<publishingVars, missed>>

\* Time passes in Redis.
Expire ==
  /\ Cache!LockExpires \/ Cache!EntryExpires
  /\ UNCHANGED <<publishingVars, missed>>

\* Mutant: the publish endpoint forgets the cache.
InvalidateNothing(q) ==
  /\ Invalidated(q)
  /\ missed' = FALSE
  /\ UNCHANGED cacheVars

\* The publish endpoint, last: one INCR, or its failure logged.
InvalidateExplore(q) ==
  /\ Invalidated(q)
  /\ \/ Cache!Invalidate /\ missed' = FALSE
     \/ missed' = TRUE /\ UNCHANGED cacheVars

\* A publication on its way; a request that dies between its commit and the invalidation
\* leaves the cache alone.
PublicationStep(q) ==
  /\ \/ \E p \in Personas, private \in BOOLEAN : Skip(q, p, private) \/ Start(q, p, private)
     \/ Push(q) \/ PassOver(q) \/ PushFails(q) \/ Commit(q) \/ Crash(q)
  /\ missed' = (missed \/ (Listing' # Listing /\ request[q].private)
                       \/ (request[q].pc = "committed" /\ request'[q].pc = "done"))
  /\ UNCHANGED cacheVars

\* Refinement and deletion do not invalidate the cache.
PersonaStep(p) ==
  /\ RefineLoad(p) \/ RefineCommit(p) \/ Delete(p)
  /\ missed' = (missed \/ Listing' # Listing)
  /\ UNCHANGED cacheVars

Next ==
  \/ \E q \in Requests : PublicationStep(q) \/ InvalidateExplore(q)
  \/ \E p \in Personas : PersonaStep(p)
  \/ \E r \in Readers : Browse(r)
  \/ Expire

Spec == Init /\ [][Next]_vars

-----------------------------------------------------------------------------
(* Properties *)

\* What a publication promises the registry: once no published persona is still waiting for
\* its invalidation, an entry that was fetched since the last one is the listing as it is,
\* unless a change that never invalidates (a refinement, a deletion, a private publication), a
\* crash or a Redis failure came in between.  Of a listing fetched before the last invalidation and
\* stored after it nothing is promised: set reads the version anew.
CacheIsCurrent ==
  ~missed /\ (\A q \in Requests : request[q].pc # "committed") =>
    (entry # NoEntry /\ entry.under = version => entry.value = Listing)

\* The stampede protection of get_or_set, as far as listings can be encoded.
OneQueryPerVersion == Cache!OneQueryPerVersion

\* The registry is read from the database once per version of the cache: "cache and return
\* the result" (get_or_set).
CachedOnce == Cache!CachedOnce
=============================================================================
