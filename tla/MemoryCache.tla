----------------------------- MODULE MemoryCache -----------------------------
(***************************************************************************)
(* The in-memory cache of internal/cache/cache.go shared by concurrent     *)
(* goroutines and its cleanup task.  Every critical section of the         *)
(* read-write mutex is one action; what a read does between its sections   *)
(* (the expiry check on a snapshot, the decoding) are actions of their own *)
(* because other goroutines, the cleanup task and the clock run there.     *)
(***************************************************************************)
EXTENDS Naturals, FiniteSets

CONSTANTS Procs,     \* goroutines using the cache
          Keys,
          TTLs,      \* time-to-live values given to Set
          MaxWrites, \* bound of the model: stores
          Horizon,   \* bound of the model: the clock stops here
          None       \* no entry under a key

ASSUME CacheAssumption == /\ TTLs \subseteq Nat /\ MaxWrites \in Nat /\ Horizon \in Nat
                          /\ Keys # {} /\ None \notin [version : Nat, expiration : Nat]

VARIABLES items,    \* the map: key -> item or None; an item's value is a version
          now,      \* time.Now()
          cleaner,  \* the cleanup task was started
          writes,   \* stores so far: the version of the latest
          op,       \* the call each goroutine is in
          window    \* history: what each read could have seen since it was called

vars == <<items, now, cleaner, writes, op, window>>

Item(version, ttl) == [version |-> version, expiration |-> now + ttl]
Expired(it, t) == t > it.expiration           \* t.After(it.expiration)

Absent == 0
Visible(its, t, k) == IF its[k] = None \/ Expired(its[k], t) THEN Absent ELSE its[k].version

\* pc: "read" before the snapshot, "check" holding it, "expire" before
\* deleteIfStillExpired, "decode" before json.Unmarshal, "store" before the lock of Set.
Reading == {"read", "check", "expire", "decode"}
Active == Reading \cup {"store"}
Idle(k) == [pc |-> "idle", key |-> k, snapshot |-> None, ttl |-> 0, cancelled |-> FALSE,
            answer |-> "none"]

Init == /\ items = [k \in Keys |-> None]
        /\ now = 0
        /\ cleaner = FALSE
        /\ writes = 0
        /\ op \in [Procs -> {Idle(k) : k \in {CHOOSE k \in Keys : TRUE}}]
        /\ window = [p \in Procs |-> {}]

At(p, place) == op[p].pc = place

\* The call returns; of its locals a hit leaves the value it decoded.
Answer(p, answer) ==
  op' = [op EXCEPT ![p] = [Idle(op[p].key) EXCEPT
           !.pc = "done", !.answer = answer,
           !.snapshot = IF answer = "hit" THEN op[p].snapshot ELSE None]]

StartGet(p, k) == /\ op[p].pc \notin Active
                  /\ \E done \in BOOLEAN :
                       op' = [op EXCEPT ![p] = [Idle(k) EXCEPT !.pc = "read", !.cancelled = done]]
                  /\ UNCHANGED <<items, now, cleaner, writes>>

\* The entry's value is marshalled before the lock.
StartSet(p, k) == /\ op[p].pc \notin Active
                  /\ \E done \in BOOLEAN, ttl \in TTLs :
                       op' = [op EXCEPT ![p] = [Idle(k) EXCEPT
                               !.pc = "store", !.ttl = ttl, !.cancelled = done]]
                  /\ UNCHANGED <<items, now, cleaner, writes>>

\* A value that cannot be marshalled is an error.
StartBadSet(p, k) == /\ op[p].pc \notin Active
                     /\ op' = [op EXCEPT ![p] = [Idle(k) EXCEPT !.pc = "done", !.answer = "error"]]
                     /\ UNCHANGED <<items, now, cleaner, writes>>

Cancel(p) == /\ op[p].pc \in Active
             /\ ~op[p].cancelled
             /\ op' = [op EXCEPT ![p].cancelled = TRUE]
             /\ UNCHANGED <<items, now, cleaner, writes>>

\* The ctx.Err checks of GetContext and SetContext, at every place where they are made.
Cancelled(p) == /\ op[p].pc \in {"read", "check", "decode", "store"}
                /\ op[p].cancelled
                /\ Answer(p, "error")
                /\ UNCHANGED <<items, now, cleaner, writes>>

\* The read-locked section: copy the entry.
Snapshot(p) == /\ At(p, "read")
               /\ ~op[p].cancelled
               /\ op' = [op EXCEPT ![p].pc = "check", ![p].snapshot = items[op[p].key]]
               /\ UNCHANGED <<items, now, cleaner, writes>>

\* Mutant of the expiry check: an expired entry is decoded.
CheckEternal(p) ==
  /\ At(p, "check")
  /\ ~op[p].cancelled
  /\ \/ op[p].snapshot = None /\ Answer(p, "miss")
     \/ op[p].snapshot # None /\ op' = [op EXCEPT ![p].pc = "decode"]
  /\ UNCHANGED <<items, now, cleaner, writes>>

\* The expiry check, on the copy and without the lock.
Check(p) ==
  /\ At(p, "check")
  /\ ~op[p].cancelled
  /\ \/ op[p].snapshot = None /\ Answer(p, "miss")
     \/ op[p].snapshot # None /\ Expired(op[p].snapshot, now)
          /\ op' = [op EXCEPT ![p].pc = "expire"]
     \/ op[p].snapshot # None /\ ~Expired(op[p].snapshot, now)
          /\ op' = [op EXCEPT ![p].pc = "decode"]
  /\ UNCHANGED <<items, now, cleaner, writes>>

\* Mutant of deleteIfStillExpired: the entry is not looked at again under the lock.
ExpireBlindly(p) == /\ At(p, "expire")
                    /\ items' = [items EXCEPT ![op[p].key] = None]
                    /\ Answer(p, IF op[p].cancelled THEN "error" ELSE "miss")
                    /\ UNCHANGED <<now, cleaner, writes>>

\* deleteIfStillExpired, then a miss, or the context's error.
Expire(p) ==
  LET it == items[op[p].key]
  IN  /\ At(p, "expire")
      /\ items' = [items EXCEPT ![op[p].key] = IF it # None /\ Expired(it, now) THEN None ELSE @]
      /\ Answer(p, IF op[p].cancelled THEN "error" ELSE "miss")
      /\ UNCHANGED <<now, cleaner, writes>>

\* json.Unmarshal of the copy: a hit, or a decode error.
Decode(p) == /\ At(p, "decode")
             /\ ~op[p].cancelled
             /\ \E answer \in {"hit", "error"} : Answer(p, answer)
             /\ UNCHANGED <<items, now, cleaner, writes>>

\* The locked section of SetContext: the expiration counts from here.
Store(p) == /\ At(p, "store")
            /\ ~op[p].cancelled
            /\ writes < MaxWrites
            /\ writes' = writes + 1
            /\ items' = [items EXCEPT ![op[p].key] =
                           Item(writes', op[p].ttl)]
            /\ Answer(p, "stored")
            /\ UNCHANGED <<now, cleaner>>

Delete(p, k) == /\ op[p].pc \notin Active
                /\ items' = [items EXCEPT ![k] = None]
                /\ UNCHANGED <<now, cleaner, writes, op>>

Clear(p) == /\ op[p].pc \notin Active
            /\ items' = [k \in Keys |-> None]
            /\ UNCHANGED <<now, cleaner, writes, op>>

StartCleanupTask == cleaner' = TRUE /\ UNCHANGED <<items, now, writes, op>>

\* Mutant of the cleanup: the comparison is turned around.
CleanupFresh == /\ cleaner
                /\ items' = [k \in Keys |-> IF items[k] # None /\ ~Expired(items[k], now)
                                            THEN None ELSE items[k]]
                /\ UNCHANGED <<now, cleaner, writes, op>>

Cleanup == /\ cleaner
           /\ items' = [k \in Keys |-> IF items[k] # None /\ Expired(items[k], now)
                                       THEN None ELSE items[k]]
           /\ UNCHANGED <<now, cleaner, writes, op>>

Tick == now < Horizon /\ now' = now + 1 /\ UNCHANGED <<items, cleaner, writes, op>>

Continue(p) == Cancelled(p) \/ Snapshot(p) \/ Check(p) \/ Expire(p) \/ Decode(p) \/ Store(p)
Removal == \E p \in Procs : Clear(p) \/ \E k \in Keys : Delete(p, k)

Step == \/ \E p \in Procs : \/ Continue(p) \/ Cancel(p)
                            \/ \E k \in Keys : StartGet(p, k) \/ StartSet(p, k) \/ StartBadSet(p, k)
        \/ Removal
        \/ StartCleanupTask \/ Cleanup
        \/ Tick

\* History only: what is visible under the key a goroutine reads, while it reads.
Observe ==
  window' = [p \in Procs |->
               LET seen == {Visible(items', now', op'[p].key)}
               IN  IF op[p].pc \in Reading THEN (IF op'[p].answer = "error" THEN {}
                                                                         ELSE window[p] \cup seen)
                   ELSE IF op'[p].pc \in Reading THEN seen
                   ELSE IF op'[p].pc = "store" THEN {} ELSE window[p]]

Next == Step /\ Observe

Spec == Init /\ [][Next]_vars

\* The ticker of the cleanup task keeps firing and every goroutine keeps running.
FairSpec == Spec /\ WF_vars(Cleanup /\ Observe) /\ \A p \in Procs : WF_vars(Continue(p) /\ Observe)

-----------------------------------------------------------------------------
(* Properties *)

\* Every answer was right at some instant between the call and the return, whatever ran
\* meanwhile: the value of a hit was stored under the key and had not expired; of a miss
\* the key was absent or expired, or it was stored again while the read was under way.
AnswersExplained ==
  \A p \in Procs :
    /\ op[p].answer = "hit" => op[p].snapshot.version \in window[p]
    /\ op[p].answer = "miss" => Absent \in window[p] \/ Cardinality(window[p]) >= 2

\* Lazy expiry and the cleanup task never remove an entry that has not expired: "that
\* fresh entry must win" against a reader that saw the expired one before it.
FreshSurvives ==
  [][\A k \in Keys : Visible(items, now, k) # Absent /\ items'[k] = None => Removal]_vars

\* An entry that expired does not stay for ever once the cleanup task runs, even when
\* nobody reads its key again.
ExpiredReclaimed ==
  \A k \in Keys :
    cleaner /\ items[k] # None /\ Visible(items, now, k) = Absent
      ~> items[k] = None \/ Visible(items, now, k) # Absent
=============================================================================
