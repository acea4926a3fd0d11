-------------------------------- MODULE TtlCache --------------------------------
(***************************************************************************)
(* The decorator ttl_cached on one key, and the Bangumi client that clears *)
(* it after every change it makes.  Several coroutines may read and change *)
(* at once.                                                                *)
(***************************************************************************)
EXTENDS Naturals

CONSTANTS
    Readers,        \* coroutines that call the cached method
    Updaters,       \* coroutines that change what it returns
    MaxChanges      \* bound: changes of the remote value

ASSUME CacheAssumption == MaxChanges \in Nat

VARIABLES
    remote,      \* the value at the service, as a version
    cached,      \* {} or {a version}
    fetch,       \* [phase, got] of each reader: "none", "asked", "answered"
    update,      \* for each updater: "none"; "two", "one": calls to make; "more": one
                 \* was made, one is left; "clear"
    overtaken,   \* history variable: readers during whose fetch the value changed
    excused      \* history variable: the cached version may be old
ttlVars == <<remote, cached, fetch, update, overtaken, excused>>

NoFetch == [phase |-> "none", got |-> 0]

(* The wrapper finds the key, and nothing happens, or calls the method.    *)
CacheMiss(r) ==
    /\ fetch[r] = NoFetch
    /\ cached = {}
    /\ fetch' = [fetch EXCEPT ![r].phase = "asked"]
    /\ overtaken' = overtaken \ {r}
    /\ UNCHANGED <<remote, cached, update, excused>>

RemoteReads(r) ==
    /\ fetch[r].phase = "asked"
    /\ fetch' = [fetch EXCEPT ![r] = [phase |-> "answered", got |-> remote]]
    /\ UNCHANGED <<remote, cached, update, overtaken, excused>>

(* The call returns something, which is cached whatever was cleared in the *)
(* meantime.                                                               *)
Cache(r) ==
    /\ fetch[r].phase = "answered"
    /\ cached' = {fetch[r].got}
    /\ fetch' = [fetch EXCEPT ![r] = NoFetch]
    /\ excused' = (r \in overtaken)
    /\ UNCHANGED <<remote, update, overtaken>>

(* It fails, or returns nothing, which is not cached.                      *)
FetchFails(r) ==
    /\ fetch[r] # NoFetch
    /\ fetch' = [fetch EXCEPT ![r] = NoFetch]
    /\ UNCHANGED <<remote, cached, update, overtaken, excused>>

Expire ==
    /\ cached' = {}
    /\ excused' = FALSE
    /\ UNCHANGED <<remote, fetch, update, overtaken>>

-----------------------------------------------------------------------------
(* update_collection makes one change, update_episode_progress two.        *)
BeginUpdate(u) ==
    /\ update[u] = "none"
    /\ remote < MaxChanges
    /\ \E calls \in {"one", "two"} : update' = [update EXCEPT ![u] = calls]
    /\ UNCHANGED <<remote, cached, fetch, overtaken, excused>>

Overtake == overtaken' = overtaken \cup {r \in Readers : fetch[r] # NoFetch}

(* The request changes the value and is answered.                          *)
Change(u) ==
    /\ update[u] \in {"one", "two", "more"}
    /\ remote < MaxChanges
    /\ remote' = remote + 1
    /\ Overtake
    /\ update' = [update EXCEPT ![u] = IF @ = "two" THEN "more" ELSE "clear"]
    /\ UNCHANGED <<cached, fetch, excused>>

(* It fails: the value is changed or not, and the cache is not cleared.    *)
ChangeFails(u) ==
    /\ update[u] \in {"one", "two", "more"}
    /\ \/ UNCHANGED <<remote, overtaken>>
       \/ remote < MaxChanges /\ remote' = remote + 1 /\ Overtake
    /\ update' = [update EXCEPT ![u] = "none"]
    /\ excused' = (excused \/ cached # {})
    /\ UNCHANGED <<cached, fetch>>

(* Mutant: the change is over and the cache stays as it is.                *)
ForgetToClear(u) ==
    /\ update[u] = "clear"
    /\ update' = [update EXCEPT ![u] = "none"]
    /\ UNCHANGED <<remote, cached, fetch, overtaken, excused>>

ClearCache(u) ==
    /\ update[u] = "clear"
    /\ cached' = {}
    /\ excused' = FALSE
    /\ update' = [update EXCEPT ![u] = "none"]
    /\ UNCHANGED <<remote, fetch, overtaken>>

-----------------------------------------------------------------------------
TtlInit ==
    /\ remote = 0 /\ cached = {} /\ fetch = [r \in Readers |-> NoFetch]
    /\ update = [u \in Updaters |-> "none"] /\ overtaken = {} /\ excused = FALSE

TtlNext ==
    \/ \E r \in Readers : CacheMiss(r) \/ RemoteReads(r) \/ Cache(r) \/ FetchFails(r)
    \/ \E u \in Updaters : BeginUpdate(u) \/ Change(u) \/ ChangeFails(u) \/ ClearCache(u)
    \/ Expire

-----------------------------------------------------------------------------
(* An old value stays cached, for an hour, only if its fetch overlapped a  *)
(* change or a change failed; otherwise only while a change goes on.       *)
StaleOnlyWhenOverlapped ==
    (\E v \in cached : v < remote)
        => excused \/ \E u \in Updaters : update[u] \in {"more", "clear"}
=============================================================================
