------------------------------ MODULE RedisLock ------------------------------
(***************************************************************************)
(* The Redis key that several workers use as a lock: SET key value NX PX   *)
(* ttl takes it, the TTL or DEL frees it (lib/redis.ts; Redis itself is    *)
(* not in the repository).  A table of locks maps every key to the value   *)
(* stored under it.  The value names the holder: the code builds it from   *)
(* the process and the time, so no two of them are equal.                  *)
(***************************************************************************)

Free == "free"

IsFree(locks, k)  == locks[k] = Free
Put(locks, k, v)  == [locks EXCEPT ![k] = v]        \* SET k v NX, when it is free
Holds(locks, k, v) == locks[k] = v                  \* GET k === v
Gone(locks, k)    == [locks EXCEPT ![k] = Free]     \* DEL k, or its TTL
=============================================================================
