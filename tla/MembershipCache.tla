--------------------------- MODULE MembershipCache ---------------------------
(***************************************************************************)
(* The per-process cache of directory memberships                          *)
(* (integrations/auth/core/cache.py): lookups load from the directory and  *)
(* store what they loaded; writes made through this process invalidate;    *)
(* writes made elsewhere (another worker, the directory's own console)     *)
(* are noticed when the entry expires.  An answer is the number of changes *)
(* of the user's memberships it has seen.                                  *)
(***************************************************************************)
EXTENDS Naturals

CONSTANTS
    CachedUsers,   \* keys: usernames within one scope
    Lookups,       \* threads that look memberships up
    Admins,        \* threads that write memberships, switch tenants or log out
    Nobody,        \* the user of an idle thread
    Ttl,           \* M8FLOW_AUTH_MEMBERSHIP_CACHE_TTL_SECONDS, in ticks
    MaxClock,      \* bound: ticks
    MaxChanges     \* bound: changes of one user's memberships

ASSUME MembershipCacheAssumption ==
    /\ Nobody \notin CachedUsers
    /\ Ttl \in Nat \ {0} /\ MaxClock \in Nat /\ MaxChanges \in Nat

VARIABLES
    changes,       \* the directory: changes of a user's memberships so far
    entries,       \* _entries: the answer and when it expires
    generation,    \* _generation
    lookup, admin, \* threads inside get_or_load, inside a write
    now,           \* the monotonic clock
    superseded,    \* history: when an answer became stale
    written        \* history: the last change made here and invalidated since

cacheVars == <<changes, entries, generation, lookup, admin, now, superseded, written>>

Answers == 0..MaxChanges
NoEntry == [answer |-> 0, expires |-> 0]
NoLookup == [pc |-> "idle", user |-> Nobody, start |-> 0, generation |-> 0, answer |-> 0]
NoAdmin == [pc |-> "idle", user |-> Nobody, answer |-> 0]

MembershipCacheTypeOK ==
    /\ changes \in [CachedUsers -> Answers]
    /\ entries \in [CachedUsers -> [answer : Answers, expires : 0..(MaxClock + Ttl)]]
    /\ generation \in Nat
    /\ lookup \in [Lookups -> [pc : {"idle", "loading", "loaded"},
                               user : CachedUsers \cup {Nobody}, start : 0..MaxClock,
                               generation : Nat, answer : Answers]]
    /\ admin \in [Admins -> [pc : {"idle", "changed"},
                             user : CachedUsers \cup {Nobody}, answer : Answers]]
    /\ now \in 0..MaxClock
    /\ superseded \in [CachedUsers -> [Answers -> 0..MaxClock]]
    /\ written \in [CachedUsers -> Answers]

MembershipCacheInit ==
    /\ changes = [u \in CachedUsers |-> 0]
    /\ entries = [u \in CachedUsers |-> NoEntry]
    /\ generation = 0
    /\ lookup = [l \in Lookups |-> NoLookup]
    /\ admin = [a \in Admins |-> NoAdmin]
    /\ now = 0
    /\ superseded = [u \in CachedUsers |-> [n \in Answers |-> 0]]
    /\ written = [u \in CachedUsers |-> 0]

\* An entry answers lookups until it expires.
Cached(u) == entries[u].expires > now

Tick ==
    /\ now < MaxClock
    /\ now' = now + 1
    /\ UNCHANGED <<changes, entries, generation, lookup, admin, superseded, written>>

\* A miss: the clock and the generation are read under the lock, before the load.
Miss(l) ==
    /\ lookup[l].pc = "idle"
    /\ \E u \in CachedUsers :
        /\ ~Cached(u)
        /\ lookup' = [lookup EXCEPT ![l] =
                [pc |-> "loading", user |-> u, start |-> now, generation |-> generation,
                 answer |-> 0]]
    /\ UNCHANGED <<changes, entries, generation, admin, now, superseded, written>>

\* loader(): provider.list_memberships
Load(l) ==
    /\ lookup[l].pc = "loading"
    /\ lookup' = [lookup EXCEPT ![l] =
            [pc |-> "loaded", user |-> lookup[l].user, start |-> lookup[l].start,
             generation |-> lookup[l].generation, answer |-> changes[lookup[l].user]]]
    /\ UNCHANGED <<changes, entries, generation, admin, now, superseded, written>>

\* A loader that raises: nothing is cached.
LoadRaises(l) ==
    /\ lookup[l].pc = "loading"
    /\ lookup' = [lookup EXCEPT ![l] = NoLookup]
    /\ UNCHANGED <<changes, entries, generation, admin, now, superseded, written>>

\* (mutant of Storable: a result is stored whatever was invalidated during the load)
AlwaysStorable(l) == lookup[l].pc = "loaded"
\* The load began after the last invalidation.
Storable(l) == lookup[l].pc = "loaded" /\ lookup[l].generation = generation

\* (mutant of ExpiryOf: the clock is read when the load ends)
ExpiryFromNow(l) == now + Ttl
ExpiryOf(l) == lookup[l].start + Ttl

\* The second locked section of get_or_load: prune what had expired when the load began,
\* and store, unless an invalidation came in between.
Store(l) ==
    /\ lookup[l].pc = "loaded"
    /\ entries' = IF Storable(l)
                  THEN [u \in CachedUsers |->
                            IF u = lookup[l].user
                            THEN [answer |-> lookup[l].answer, expires |-> ExpiryOf(l)]
                            ELSE IF entries[u].expires <= lookup[l].start THEN NoEntry
                            ELSE entries[u]]
                  ELSE entries
    /\ lookup' = [lookup EXCEPT ![l] = NoLookup]
    /\ UNCHANGED <<changes, generation, admin, now, superseded, written>>

Change(u) ==
    /\ changes[u] < MaxChanges
    /\ changes' = [changes EXCEPT ![u] = @ + 1]
    /\ superseded' = [superseded EXCEPT ![u][changes[u]] = now]

\* A write elsewhere: another worker, or the directory's console.
ChangeElsewhere(u) ==
    /\ Change(u)
    /\ UNCHANGED <<entries, generation, lookup, admin, now, written>>

\* InvalidatingDirectoryAdmin: the write, and then (finally) the invalidation.
Write(a) ==
    /\ admin[a].pc = "idle"
    /\ \E u \in CachedUsers :
        /\ Change(u)
        /\ admin' = [admin EXCEPT ![a] = [pc |-> "changed", user |-> u,
                                          answer |-> changes[u] + 1]]
    /\ UNCHANGED <<entries, generation, lookup, now, written>>

\* invalidate(username) or invalidate(): the user's entry, or every entry.
Invalidate(a) ==
    /\ admin[a].pc = "changed"
    /\ generation' = generation + 1
    /\ entries' \in {[entries EXCEPT ![admin[a].user] = NoEntry],
                     [u \in CachedUsers |-> NoEntry]}
    /\ written' = [written EXCEPT ![admin[a].user] =
                        IF @ < admin[a].answer THEN admin[a].answer ELSE @]
    /\ admin' = [admin EXCEPT ![a] = NoAdmin]
    /\ UNCHANGED <<changes, lookup, now, superseded>>

MembershipCacheNext ==
    \/ Tick
    \/ \E l \in Lookups : Miss(l) \/ Load(l) \/ LoadRaises(l) \/ Store(l)
    \/ \E u \in CachedUsers : ChangeElsewhere(u)
    \/ \E a \in Admins : Write(a) \/ Invalidate(a)

MembershipCacheSpec == MembershipCacheInit /\ [][MembershipCacheNext]_cacheVars

(***************************************************************************)
(* Properties                                                              *)
(***************************************************************************)

\* Once a write made through this process has returned, no lookup is answered from
\* before it: a load that was under way does not bring the old answer back.
OwnWritesAreSeen ==
    \A u \in CachedUsers : Cached(u) => entries[u].answer >= written[u]

\* "A change made directly in the IdP is visible after at most the TTL", however long
\* the load took that an entry came from.
StaleWithinTtl ==
    \A u \in CachedUsers :
        Cached(u) /\ entries[u].answer < changes[u]
            => entries[u].expires <= superseded[u][entries[u].answer] + Ttl

(***************************************************************************)
(* Inductive strengthening (MembershipCacheProofs)                         *)
(***************************************************************************)

\* What a lookup under way may store: if no invalidation came since it began, it has
\* seen every write of this process that was invalidated.
LookupSees ==
    \A l \in Lookups :
        lookup[l].pc = "loaded" /\ lookup[l].generation = generation
            => lookup[l].answer >= written[lookup[l].user]

CacheOrder ==
    /\ \A u \in CachedUsers : written[u] <= changes[u]
    /\ \A a \in Admins : admin[a].pc = "changed" => admin[a].answer <= changes[admin[a].user]
    /\ \A l \in Lookups : lookup[l].generation <= generation
=============================================================================
