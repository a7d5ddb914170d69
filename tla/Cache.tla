------------------------------- MODULE Cache -------------------------------
(***************************************************************************)
(* The cache of common/arkimeCache.js, for one key: a reference in memory, *)
(* shared with whoever got it, and a copy in a store (redis, memcached,    *)
(* lmdb, sqlite), which outlives the process.  The memory forgets at its   *)
(* own will: it has a size, a time, and other keys.                        *)
(***************************************************************************)
EXTENDS Integers, Sequences

CONSTANTS
    Ref,       \* references to objects
    HasStore   \* whether there is a store (type is not memory)

ASSUME CacheAssumption == HasStore \in BOOLEAN /\ Ref \subseteq Nat \ {0}

VARIABLES
    obj,      \* the objects
    lru,      \* the reference in memory
    saving,   \* copies on their way to the store
    store     \* what is in the store

cacheVars == <<obj, lru, saving, store>>

NoRef == 0
NoCopy == <<>>

CacheInit == lru = NoRef /\ saving = <<>> /\ store = NoCopy

(* An object got from the store is put into the memory.                    *)
Fill(ref) == lru' = ref /\ UNCHANGED <<saving, store>>

(* Mutant: only the memory is written. *)
SendNothing(copy) == saving

Send(copy) == IF HasStore THEN Append(saving, copy) ELSE saving

(* The object of ref is set; all objects are now new.                      *)
Set(ref, new) ==
    /\ obj' = new
    /\ lru' = ref
    /\ saving' = Send(new[ref])
    /\ UNCHANGED store

(* The store has written a copy.                                           *)
Saved ==
    /\ saving # <<>>
    /\ store' = Head(saving) /\ saving' = Tail(saving)
    /\ UNCHANGED <<obj, lru>>

(* The entry is old, or others are used more.                              *)
Evict == lru # NoRef /\ lru' = NoRef /\ UNCHANGED <<obj, saving, store>>

Expire == store # NoCopy /\ store' = NoCopy /\ UNCHANGED <<obj, lru, saving>>

(* Only what is in the store survives.                                     *)
Restart(empty) ==
    lru' = NoRef /\ saving' = <<>> /\ obj' = [r \in Ref |-> empty] /\ UNCHANGED store
=============================================================================
