--------------------------- MODULE MemoryCacheProofs ---------------------------
(***************************************************************************)
(* For every set of goroutines, keys and times-to-live: what a read of the *)
(* cache answers was right while it ran, and nothing that is fresh is      *)
(* removed behind the callers' backs.                                      *)
(*                                                                         *)
(* A read works on a copy without the lock.  The invariant (Explained)     *)
(* says what the copy still means: while it has not expired, its value was *)
(* visible during the read; and either it is still what the map holds, or  *)
(* the key was seen absent, or with two values, since the read was called  *)
(* (Changed).  An expired copy that the map still holds is an absent key.  *)
(***************************************************************************)
EXTENDS MemoryCache, FiniteSetTheorems, TLAPS

-----------------------------------------------------------------------------
(* The inductive invariant *)

Items(n) == [version : 1 .. n, expiration : Nat]
Calls(n) ==
  [pc : Active \cup {"idle", "done"}, key : Keys, snapshot : Items(n) \cup {None},
   ttl : TTLs \cup {0}, cancelled : BOOLEAN,
   answer : {"none", "hit", "miss", "stored", "error"}]

Types == /\ now \in Nat /\ writes \in Nat
         /\ items \in [Keys -> Items(writes) \cup {None}]
         /\ op \in [Procs -> Calls(writes)]
         /\ window \in [Procs -> SUBSET (0 .. writes)]

Changed(w) == Absent \in w \/ \E a, b \in w : a # b

\* The call o, with the window w, on the map its at instant t.
Explained(o, w, its, t) ==
  /\ o.pc \in Reading => Visible(its, t, o.key) \in w
  /\ o.pc = "check" /\ o.snapshot = None => Absent \in w
  /\ o.pc \in {"expire", "decode"} => o.snapshot # None
  /\ o.pc \in {"check", "expire", "decode"} /\ o.snapshot # None =>
       /\ ~Expired(o.snapshot, t) => o.snapshot.version \in w
       /\ its[o.key] = o.snapshot \/ Changed(w)
  /\ o.pc = "decode" => o.snapshot.version \in w
  /\ o.pc = "expire" => Changed(w)
  /\ o.pc \in Active => o.answer = "none"
  /\ o.answer = "hit" => o.snapshot.version \in w
  /\ o.answer = "miss" => Changed(w)

IInv == Types /\ \A p \in Procs : Explained(op[p], window[p], items, now)

\* What a step may do to the map: leave an entry, remove it, or store a new one.
Legal(n) == /\ now' \in Nat /\ now' >= now
            /\ \A k \in Keys : \/ items'[k] = items[k]
                               \/ items'[k] = None
                               \/ /\ items'[k] \in Items(n) /\ items'[k].version = writes + 1
                                  /\ ~Expired(items'[k], now')

LEMMA NoItem == ASSUME NEW n \in Nat, NEW i \in Items(n)
                PROVE  i # None /\ i.version \in 1 .. n /\ i.version \in Nat /\ i.expiration \in Nat
                       /\ i.version # Absent
<1>1. i \in [version : Nat, expiration : Nat]
  BY DEF Items
<1> QED  BY <1>1, CacheAssumption DEF Items, Absent

LEMMA VisibleTyped ==
  ASSUME NEW n \in Nat, NEW its \in [Keys -> Items(n) \cup {None}], NEW t \in Nat, NEW k \in Keys
  PROVE  Visible(its, t, k) \in 0 .. n
BY NoItem DEF Visible, Absent

\* A read that is at rest while others run, the cleanup task and the clock included.
LEMMA Bystander ==
  ASSUME Types, writes' \in {writes, writes + 1}, Legal(writes'),
         NEW p \in Procs, Explained(op[p], window[p], items, now),
         op'[p].pc = op[p].pc, op'[p].key = op[p].key, op'[p].snapshot = op[p].snapshot,
         op'[p].answer = op[p].answer,
         op[p].pc \in Reading => window'[p] = window[p] \cup {Visible(items', now', op'[p].key)},
         op[p].pc \notin Reading /\ op[p].answer \in {"hit", "miss"} => window'[p] = window[p]
  PROVE  Explained(op'[p], window'[p], items', now')
<1> DEFINE o == op[p]
           k == op[p].key
           v == Visible(items', now', k)
<1>1. o \in Calls(writes) /\ k \in Keys /\ o.snapshot \in Items(writes) \cup {None}
      /\ o.answer \in {"none", "hit", "miss", "stored", "error"}
      /\ o.pc \in Active \cup {"idle", "done"}
      /\ writes \in Nat /\ now \in Nat /\ now' \in Nat /\ now' >= now
  BY DEF Types, Calls, Legal
<1>2. CASE o.pc \in Reading
  <2>1. window'[p] = window[p] \cup {v}
    BY <1>2
  <2>2. o.answer = "none"
    BY <1>2 DEF Explained, Active
  <2>3. ASSUME o.pc \in {"check", "expire", "decode"}, o.snapshot # None
        PROVE  /\ ~Expired(o.snapshot, now') => o.snapshot.version \in window[p]
               /\ items'[k] = o.snapshot \/ Changed(window'[p])
    <3>1. o.snapshot.version \in 1 .. writes /\ o.snapshot.expiration \in Nat
      BY <1>1, <2>3, NoItem
    <3>2. ~Expired(o.snapshot, now') => ~Expired(o.snapshot, now)
      BY <1>1, <3>1 DEF Expired
    <3>3. /\ ~Expired(o.snapshot, now) => o.snapshot.version \in window[p]
          /\ items[k] = o.snapshot \/ Changed(window[p])
          /\ Visible(items, now, k) \in window[p]
      BY <1>2, <2>3 DEF Explained
    <3>4. Changed(window[p]) => Changed(window'[p])
      BY <2>1 DEF Changed
    <3>5. ASSUME items[k] = o.snapshot
          PROVE  items'[k] = o.snapshot \/ Changed(window'[p])
      <4>1. CASE items'[k] = items[k]
        BY <3>5, <4>1
      <4>2. CASE items'[k] = None
        BY <2>1, <4>2 DEF Visible, Changed
      <4>3. CASE items'[k] \in Items(writes') /\ items'[k].version = writes + 1
                   /\ ~Expired(items'[k], now')
        <5>1. v = writes + 1
          BY <1>1, <4>3, NoItem DEF Visible
        <5>2. CASE Expired(o.snapshot, now)
          <6>1. Visible(items, now, k) = Absent
            BY <3>5, <5>2 DEF Visible
          <6> QED  BY <2>1, <3>3, <6>1 DEF Changed
        <5>3. CASE ~Expired(o.snapshot, now)
          <6>1. o.snapshot.version \in window'[p] /\ v \in window'[p] /\ v # o.snapshot.version
            BY <1>1, <2>1, <3>1, <3>3, <5>1, <5>3
          <6> QED  BY <6>1 DEF Changed
        <5> QED  BY <5>2, <5>3
      <4> QED  BY <1>1, <4>1, <4>2, <4>3 DEF Legal
    <3> QED  BY <3>2, <3>3, <3>4, <3>5
  <2>4. Changed(window[p]) => Changed(window'[p])
    BY <2>1 DEF Changed
  <2> QED  BY <1>2, <2>1, <2>2, <2>3, <2>4 DEF Explained
<1>3. CASE o.pc \notin Reading
  <2>1. o.pc \notin {"check", "expire", "decode"}
    BY <1>3 DEF Reading
  <2> QED  BY <1>1, <1>3, <2>1 DEF Explained
<1> QED  BY <1>2, <1>3

-----------------------------------------------------------------------------
(* What each step does to the map and to the calls *)

LEMMA IdleCall == ASSUME NEW n \in Nat, NEW k \in Keys
                  PROVE  Idle(k) \in Calls(n) /\ Idle(k).key = k /\ Idle(k).pc = "idle"
                         /\ Idle(k).answer = "none"
BY DEF Idle, Calls

\* A returning call becomes a finished one, on the same key; the other calls stay.
LEMMA Answered ==
  ASSUME Types, NEW p \in Procs, NEW a \in {"hit", "miss", "error", "stored"}, Answer(p, a)
  PROVE  /\ op' \in [Procs -> Calls(writes)]
         /\ \A q \in Procs \ {p} : op'[q] = op[q]
         /\ op'[p].pc = "done" /\ op'[p].key = op[p].key /\ op'[p].answer = a
         /\ a = "hit" => op'[p].snapshot = op[p].snapshot
<1> DEFINE o == op[p]
           d == [Idle(o.key) EXCEPT !.pc = "done", !.answer = a,
                                    !.snapshot = IF a = "hit" THEN o.snapshot ELSE None]
<1>1. o.key \in Keys /\ o.snapshot \in Items(writes) \cup {None} /\ writes \in Nat
  BY DEF Types, Calls
<1>2. Idle(o.key) \in Calls(writes) /\ Idle(o.key).key = o.key
  BY <1>1, IdleCall
<1>3. d \in Calls(writes)
  BY <1>1, <1>2 DEF Calls
<1>4. /\ d.pc = "done" /\ d.key = o.key /\ d.answer = a
      /\ a = "hit" => d.snapshot = o.snapshot
  BY <1>2 DEF Calls
<1>5. op' = [op EXCEPT ![p] = d]
  BY DEF Answer
<1> HIDE DEF d
<1> QED  BY <1>3, <1>4, <1>5 DEF Types

\* A call that begins is the only one that changes.
LEMMA Begun ==
  ASSUME Types, NEW p \in Procs, NEW k \in Keys, StartGet(p, k) \/ StartSet(p, k) \/ StartBadSet(p, k)
  PROVE  /\ op' \in [Procs -> Calls(writes)]
         /\ \A q \in Procs \ {p} : op'[q] = op[q]
         /\ op[p].pc \notin Active
         /\ op'[p].key = k
         /\ \/ op'[p].pc = "read" /\ op'[p].answer = "none"
            \/ op'[p].pc = "store" /\ op'[p].answer = "none"
            \/ op'[p].pc = "done" /\ op'[p].answer = "error"
         /\ UNCHANGED <<items, now, cleaner, writes>>
<1> DEFINE idle == Idle(k)
<1> writes \in Nat
  BY DEF Types
<1>0. idle \in Calls(writes) /\ idle.key = k /\ idle.answer = "none"
  BY IdleCall
<1> HIDE DEF idle
<1>1. CASE StartGet(p, k)
  <2>1. PICK done \in BOOLEAN :
          op' = [op EXCEPT ![p] = [idle EXCEPT !.pc = "read", !.cancelled = done]]
    BY <1>1 DEF StartGet, idle
  <2> DEFINE d == [idle EXCEPT !.pc = "read", !.cancelled = done]
  <2>2. d \in Calls(writes) /\ d.pc = "read" /\ d.key = k /\ d.answer = "none"
    BY <1>0 DEF Calls, Active, Reading
  <2>3. op' = [op EXCEPT ![p] = d]
    BY <2>1
  <2> HIDE DEF d
  <2> QED  BY <1>1, <2>2, <2>3 DEF Types, StartGet
<1>2. CASE StartSet(p, k)
  <2>1. PICK done \in BOOLEAN, ttl \in TTLs :
          op' = [op EXCEPT ![p] = [idle EXCEPT !.pc = "store", !.ttl = ttl, !.cancelled = done]]
    BY <1>2 DEF StartSet, idle
  <2> DEFINE d == [idle EXCEPT !.pc = "store", !.ttl = ttl, !.cancelled = done]
  <2>2. d \in Calls(writes) /\ d.pc = "store" /\ d.key = k /\ d.answer = "none"
    BY <1>0 DEF Calls, Active
  <2>3. op' = [op EXCEPT ![p] = d]
    BY <2>1
  <2> HIDE DEF d
  <2> QED  BY <1>2, <2>2, <2>3 DEF Types, StartSet
<1>3. CASE StartBadSet(p, k)
  <2> DEFINE d == [idle EXCEPT !.pc = "done", !.answer = "error"]
  <2>1. d \in Calls(writes) /\ d.pc = "done" /\ d.key = k /\ d.answer = "error"
    BY <1>0 DEF Calls
  <2>2. op' = [op EXCEPT ![p] = d]
    BY <1>3 DEF StartBadSet, idle
  <2> HIDE DEF d
  <2> QED  BY <1>3, <2>1, <2>2 DEF Types, StartBadSet
<1> QED  BY <1>1, <1>2, <1>3

\* A step within a call, or the cancellation of its context: p is the only caller to move.
LEMMA Continued ==
  ASSUME Types, NEW p \in Procs, Continue(p) \/ Cancel(p)
  PROVE  /\ op' \in [Procs -> Calls(writes)]
         /\ \A q \in Procs \ {p} : op'[q] = op[q]
         /\ op[p].pc \in Active
         /\ op'[p].key = op[p].key
<1> DEFINE o == op[p]
<1>1. o \in Calls(writes)
  BY DEF Types
<1>2. /\ [o EXCEPT !.cancelled = TRUE] \in Calls(writes)
      /\ [o EXCEPT !.cancelled = TRUE].key = o.key
  BY <1>1 DEF Calls
<1>3. \A x \in {"expire", "decode"} :
        [o EXCEPT !.pc = x] \in Calls(writes) /\ [o EXCEPT !.pc = x].key = o.key
  BY <1>1 DEF Calls, Active, Reading
<1>4. items[o.key] \in Items(writes) \cup {None}
  BY <1>1 DEF Types, Calls
<1>5. /\ [o EXCEPT !.pc = "check", !.snapshot = items[o.key]] \in Calls(writes)
      /\ [o EXCEPT !.pc = "check", !.snapshot = items[o.key]].key = o.key
  BY <1>1, <1>4 DEF Calls, Active, Reading
<1>6. CASE Cancel(p)
  <2>1. op' = [op EXCEPT ![p] = [o EXCEPT !.cancelled = TRUE]]
    BY <1>6 DEF Cancel
  <2> QED  BY <1>2, <1>6, <2>1 DEF Types, Cancel
<1>7. CASE Cancelled(p)
  BY <1>7, Answered DEF Cancelled, Active, Reading
<1>8. CASE Snapshot(p)
  <2>1. op' = [op EXCEPT ![p] = [o EXCEPT !.pc = "check", !.snapshot = items[o.key]]]
    BY <1>8 DEF Snapshot
  <2> QED  BY <1>5, <1>8, <2>1 DEF Types, Snapshot, At, Active, Reading
<1>9. CASE Check(p)
  <2>1. o.pc \in Active
    BY <1>9 DEF Check, At, Active, Reading
  <2>2. CASE Answer(p, "miss")
    BY <2>1, <2>2, Answered
  <2>3. ASSUME NEW x \in {"expire", "decode"}, op' = [op EXCEPT ![p].pc = x]
        PROVE  op' = [op EXCEPT ![p] = [o EXCEPT !.pc = x]]
    BY <2>3
  <2>4. CASE \E x \in {"expire", "decode"} : op' = [op EXCEPT ![p].pc = x]
    BY <1>3, <2>1, <2>3, <2>4 DEF Types
  <2> QED  BY <1>9, <2>2, <2>4 DEF Check
<1>10. CASE Expire(p)
  BY <1>10, Answered DEF Expire, At, Active, Reading
<1>11. CASE Decode(p)
  BY <1>11, Answered DEF Decode, At, Active, Reading
<1>12. CASE Store(p)
  BY <1>12, Answered DEF Store, At, Active
<1> QED  BY <1>6, <1>7, <1>8, <1>9, <1>10, <1>11, <1>12 DEF Continue

\* Every step leaves an entry, removes it, or stores a fresh one with a new version.
LEMMA Legally ==
  ASSUME Types, Step
  PROVE  /\ writes' \in {writes, writes + 1}
         /\ items' \in [Keys -> Items(writes') \cup {None}]
         /\ Legal(writes')
<1>1. writes \in Nat /\ now \in Nat
  BY DEF Types
<1>2. items \in [Keys -> Items(writes) \cup {None}]
  BY DEF Types
<1>3. ASSUME UNCHANGED <<items, now, writes>>
      PROVE  writes' = writes /\ items' \in [Keys -> Items(writes') \cup {None}] /\ Legal(writes')
  BY <1>1, <1>2, <1>3 DEF Legal
<1>4. ASSUME NEW p \in Procs, Continue(p)
      PROVE  /\ writes' \in {writes, writes + 1}
             /\ items' \in [Keys -> Items(writes') \cup {None}]
             /\ Legal(writes')
  <2>1. op[p].key \in Keys /\ op[p].ttl \in Nat
    <3>1. op[p] \in Calls(writes)
      BY DEF Types
    <3>2. TTLs \cup {0} \subseteq Nat
      BY CacheAssumption
    <3>3. op[p].key \in Keys /\ op[p].ttl \in TTLs \cup {0}
      BY <3>1 DEF Calls
    <3> QED  BY <3>2, <3>3
  <2>2. CASE Expire(p)
    <3>1. items' = [items EXCEPT ![op[p].key] =
                      IF items[op[p].key] # None /\ Expired(items[op[p].key], now) THEN None ELSE @]
      BY <2>2 DEF Expire
    <3>2. writes' = writes /\ now' = now
      BY <2>2 DEF Expire
    <3>3. \A k \in Keys : items'[k] = items[k] \/ items'[k] = None
      BY <1>2, <3>1
    <3> QED  BY <1>1, <1>2, <2>1, <3>1, <3>2, <3>3 DEF Legal
  <2>3. CASE Store(p)
    <3>1. writes' = writes + 1 /\ now' = now
          /\ items' = [items EXCEPT ![op[p].key] = Item(writes + 1, op[p].ttl)]
      BY <2>3 DEF Store
    <3> DEFINE i == Item(writes + 1, op[p].ttl)
    <3>2. i.version = writes + 1 /\ i.expiration = now + op[p].ttl /\ i \in Items(writes')
      BY <1>1, <2>1, <3>1 DEF Item, Items
    <3>3. ~Expired(i, now')
      BY <1>1, <2>1, <3>1, <3>2 DEF Expired
    <3>4. Items(writes) \subseteq Items(writes')
      BY <1>1, <3>1 DEF Items
    <3> HIDE DEF i
    <3>5. items' \in [Keys -> Items(writes') \cup {None}]
      BY <1>2, <2>1, <3>1, <3>2, <3>4 DEF i
    <3>6. \A k \in Keys : items'[k] = items[k] \/ items'[k] = i
      BY <1>2, <3>1 DEF i
    <3> QED  BY <1>1, <3>1, <3>2, <3>3, <3>5, <3>6 DEF Legal
  <2>4. CASE Cancelled(p) \/ Snapshot(p) \/ Check(p) \/ Decode(p)
    BY <1>3, <2>4 DEF Cancelled, Snapshot, Check, Decode
  <2> QED  BY <1>4, <2>2, <2>3, <2>4 DEF Continue
<1>5. ASSUME NEW p \in Procs, Cancel(p) \/ \E k \in Keys : StartGet(p, k) \/ StartSet(p, k)
                                                          \/ StartBadSet(p, k)
      PROVE  UNCHANGED <<items, now, writes>>
  BY <1>5 DEF Cancel, StartGet, StartSet, StartBadSet
<1>6. ASSUME writes' = writes, now' = now, items' \in [Keys -> Items(writes) \cup {None}],
             \A k \in Keys : items'[k] = items[k] \/ items'[k] = None
      PROVE  items' \in [Keys -> Items(writes') \cup {None}] /\ Legal(writes')
  BY <1>1, <1>6 DEF Legal
<1>7. CASE Removal
  <2>1. writes' = writes /\ now' = now
    BY <1>7 DEF Removal, Clear, Delete
  <2>2. items' \in [Keys -> Items(writes) \cup {None}]
        /\ \A k \in Keys : items'[k] = items[k] \/ items'[k] = None
    BY <1>2, <1>7 DEF Removal, Clear, Delete
  <2> QED  BY <1>6, <2>1, <2>2
<1>8. CASE Cleanup
  <2>1. writes' = writes /\ now' = now
    BY <1>8 DEF Cleanup
  <2>2. items' \in [Keys -> Items(writes) \cup {None}]
        /\ \A k \in Keys : items'[k] = items[k] \/ items'[k] = None
    BY <1>2, <1>8 DEF Cleanup
  <2> QED  BY <1>6, <2>1, <2>2
<1>9. CASE StartCleanupTask
  BY <1>3, <1>9 DEF StartCleanupTask
<1>10. CASE Tick
  BY <1>1, <1>2, <1>10 DEF Tick, Legal
<1> QED  BY <1>3, <1>4, <1>5, <1>7, <1>8, <1>9, <1>10 DEF Step

-----------------------------------------------------------------------------
(* The invariant *)

LEMMA Initially == Init => IInv
<1> SUFFICES ASSUME Init PROVE IInv
  OBVIOUS
<1>1. PICK k \in Keys : op \in [Procs -> {Idle(k)}]
  <2>1. (CHOOSE k \in Keys : TRUE) \in Keys
    BY CacheAssumption
  <2> QED  BY <2>1 DEF Init
<1>2. now = 0 /\ writes = 0
  BY DEF Init
<1>3. \A p \in Procs : /\ op[p] \in Calls(writes) /\ op[p].pc = "idle" /\ op[p].answer = "none"
                       /\ window[p] = {}
  BY <1>1, <1>2, IdleCall DEF Init
<1>4. Types
  BY <1>1, <1>2, IdleCall DEF Init, Types
<1>5. ASSUME NEW p \in Procs
      PROVE  Explained(op[p], window[p], items, now)
  BY <1>3 DEF Explained, Active, Reading
<1> QED  BY <1>4, <1>5 DEF IInv

\* A moving call is p's; the others stay as they are.
LEMMA Movers ==
  ASSUME Types, Step
  PROVE  /\ op' \in [Procs -> Calls(writes)]
         /\ \A q \in Procs : \/ op'[q] = op[q]
                             \/ Continue(q) \/ Cancel(q)
                             \/ \E k \in Keys : StartGet(q, k) \/ StartSet(q, k) \/ StartBadSet(q, k)
<1>1. ASSUME NEW p \in Procs, Continue(p) \/ Cancel(p)
      PROVE  op' \in [Procs -> Calls(writes)] /\ \A q \in Procs \ {p} : op'[q] = op[q]
  BY <1>1, Continued
<1>2. ASSUME NEW p \in Procs, NEW k \in Keys, StartGet(p, k) \/ StartSet(p, k) \/ StartBadSet(p, k)
      PROVE  op' \in [Procs -> Calls(writes)] /\ \A q \in Procs \ {p} : op'[q] = op[q]
  BY <1>2, Begun
<1>3. CASE op' = op
  BY <1>3 DEF Types
<1>4. CASE Removal \/ StartCleanupTask \/ Cleanup \/ Tick
  BY <1>3, <1>4 DEF Removal, Clear, Delete, StartCleanupTask, Cleanup, Tick
<1>5. CASE \E p \in Procs : Continue(p) \/ Cancel(p)
  BY <1>1, <1>5
<1>6. CASE \E p \in Procs : \E k \in Keys : StartGet(p, k) \/ StartSet(p, k) \/ StartBadSet(p, k)
  BY <1>2, <1>6
<1> QED  BY <1>4, <1>5, <1>6 DEF Step

LEMMA TypesKept == ASSUME Types, Step, Observe PROVE Types'
<1>1. /\ writes' \in {writes, writes + 1}
      /\ items' \in [Keys -> Items(writes') \cup {None}]
      /\ now' \in Nat
  BY Legally DEF Legal
<1>2. writes \in Nat /\ writes' \in Nat /\ writes <= writes'
  BY <1>1 DEF Types
<1>3. Items(writes) \subseteq Items(writes')
  BY <1>2 DEF Items
<1>4. op' \in [Procs -> Calls(writes)]
  BY Movers
<1>5. op' \in [Procs -> Calls(writes')]
  <2>1. Calls(writes) \subseteq Calls(writes')
    BY <1>3 DEF Calls
  <2> QED  BY <1>4, <2>1
<1>6. ASSUME NEW p \in Procs
      PROVE  /\ Visible(items', now', op'[p].key) \in 0 .. writes'
             /\ window[p] \subseteq 0 .. writes'
  <2>1. op'[p].key \in Keys
    BY <1>4 DEF Calls
  <2>2. window[p] \subseteq 0 .. writes
    BY DEF Types
  <2> QED  BY <1>1, <1>2, <2>1, <2>2, VisibleTyped
<1>7. window' \in [Procs -> SUBSET (0 .. writes')]
  <2> DEFINE next(p) == LET seen == {Visible(items', now', op'[p].key)}
                        IN  IF op[p].pc \in Reading
                            THEN IF op'[p].answer = "error" THEN {} ELSE window[p] \cup seen
                            ELSE IF op'[p].pc \in Reading THEN seen
                            ELSE IF op'[p].pc = "store" THEN {} ELSE window[p]
  <2>1. \A p \in Procs : next(p) \in SUBSET (0 .. writes')
    BY <1>6
  <2>2. window' = [p \in Procs |-> next(p)]
    BY DEF Observe
  <2> HIDE DEF next
  <2> QED  BY <2>1, <2>2
<1> QED  BY <1>1, <1>2, <1>5, <1>7 DEF Types

\* What the history records of a call.
LEMMA Watched ==
  ASSUME Observe, NEW p \in Procs
  PROVE  LET v == Visible(items', now', op'[p].key)
         IN  /\ op[p].pc \in Reading /\ op'[p].answer # "error" => window'[p] = window[p] \cup {v}
             /\ op[p].pc \notin Reading /\ op'[p].pc \in Reading => window'[p] = {v}
             /\ op[p].pc \notin Reading /\ op'[p].pc \notin Active => window'[p] = window[p]
BY DEF Observe, Active

\* The steps a call takes on its own behalf.
LEMMA Advanced ==
  ASSUME Types, Types', Observe, NEW p \in Procs, Continue(p),
         Explained(op[p], window[p], items, now)
  PROVE  Explained(op'[p], window'[p], items', now')
<1> DEFINE o == op[p]
           k == o.key
           w == window[p]
           v == Visible(items', now', op'[p].key)
<1>1. o \in Calls(writes) /\ k \in Keys /\ op'[p].key = k
  BY Continued DEF Types, Calls
<1>2. CASE op'[p].pc = "done" /\ op'[p].answer \in {"error", "stored"}
  BY <1>2 DEF Explained, Active, Reading
<1>3. CASE Cancelled(p)
  BY <1>2, <1>3, Answered DEF Cancelled
<1>4. CASE Store(p)
  BY <1>2, <1>4, Answered DEF Store
<1>5. ASSUME op[p].pc \in Reading, op'[p].answer # "error"
      PROVE  /\ window'[p] = w \cup {v} /\ v \in window'[p]
             /\ Changed(w) => Changed(window'[p])
  BY <1>5, Watched DEF Changed
<1>6. CASE Snapshot(p)
  <2>1. /\ o.pc = "read" /\ items' = items /\ now' = now
        /\ op'[p].pc = "check" /\ op'[p].snapshot = items[k] /\ op'[p].answer = o.answer
    <3>1. op' = [op EXCEPT ![p] = [o EXCEPT !.pc = "check", !.snapshot = items[k]]]
      BY <1>6 DEF Snapshot
    <3>2. op'[p] = [o EXCEPT !.pc = "check", !.snapshot = items[k]]
      BY <3>1 DEF Types
    <3> QED  BY <1>1, <1>6, <3>2 DEF Snapshot, At, Calls
  <2>2. o.answer = "none"
    BY <2>1 DEF Explained, Active, Reading
  <2>3. v \in window'[p]
    BY <1>5, <2>1, <2>2 DEF Reading
  <2>4. /\ items[k] = None => v = Absent
        /\ items[k] # None /\ ~Expired(items[k], now) => v = items[k].version
    BY <1>1, <2>1 DEF Visible
  <2> QED  BY <1>1, <2>1, <2>2, <2>3, <2>4 DEF Explained, Reading
<1>7. CASE Check(p)
  <2>1. o.pc = "check" /\ items' = items /\ now' = now /\ o.answer = "none"
    BY <1>7 DEF Check, At, Explained, Active, Reading
  <2>2. CASE o.snapshot = None /\ Answer(p, "miss")
    <3>1. op'[p].pc = "done" /\ op'[p].answer = "miss"
      BY <2>2, Answered
    <3>2. Absent \in w
      BY <2>1, <2>2 DEF Explained
    <3>3. Changed(window'[p])
      BY <1>5, <2>1, <3>1, <3>2 DEF Changed, Reading
    <3> QED  BY <3>1, <3>3 DEF Explained, Active, Reading
  <2>3. ASSUME NEW x \in {"expire", "decode"}, op' = [op EXCEPT ![p].pc = x]
        PROVE  op'[p].pc = x /\ op'[p].snapshot = o.snapshot /\ op'[p].answer = "none"
    <3>1. op'[p] = [o EXCEPT !.pc = x]
      BY <2>3 DEF Types
    <3> QED  BY <1>1, <2>1, <3>1 DEF Calls
  <2>4. ASSUME o.snapshot # None, op'[p].answer = "none"
        PROVE  /\ window'[p] = w \cup {v}
               /\ ~Expired(o.snapshot, now) => o.snapshot.version \in window'[p]
               /\ items'[k] = o.snapshot \/ Changed(window'[p])
    <3>1. /\ ~Expired(o.snapshot, now) => o.snapshot.version \in w
          /\ items[k] = o.snapshot \/ Changed(w)
      BY <2>1, <2>4 DEF Explained
    <3> QED  BY <1>5, <2>1, <2>4, <3>1 DEF Reading
  <2>5. CASE o.snapshot # None /\ Expired(o.snapshot, now) /\ op' = [op EXCEPT ![p].pc = "expire"]
    <3>1. op'[p].pc = "expire" /\ op'[p].snapshot = o.snapshot /\ op'[p].answer = "none"
      BY <2>3, <2>5
    <3>2. Changed(window'[p])
      <4>1. items'[k] = o.snapshot => v = Absent
        BY <1>1, <2>1, <2>5 DEF Visible
      <4> QED  BY <2>4, <2>5, <3>1, <4>1 DEF Changed
    <3> QED  BY <1>1, <2>1, <2>4, <2>5, <3>1, <3>2 DEF Explained, Reading
  <2>6. CASE o.snapshot # None /\ ~Expired(o.snapshot, now) /\ op' = [op EXCEPT ![p].pc = "decode"]
    <3>1. op'[p].pc = "decode" /\ op'[p].snapshot = o.snapshot /\ op'[p].answer = "none"
      BY <2>3, <2>6
    <3> QED  BY <1>1, <2>1, <2>4, <2>6, <3>1 DEF Explained, Reading
  <2> QED  BY <1>7, <2>2, <2>5, <2>6 DEF Check
<1>8. CASE Expire(p)
  <2>1. o.pc = "expire" /\ Changed(w)
    BY <1>8 DEF Expire, At, Explained
  <2>2. CASE Answer(p, "error")
    BY <1>2, <2>2, Answered
  <2>3. CASE Answer(p, "miss")
    <3>1. op'[p].pc = "done" /\ op'[p].answer = "miss"
      BY <2>3, Answered
    <3>2. Changed(window'[p])
      BY <1>5, <2>1, <3>1 DEF Reading
    <3> QED  BY <3>1, <3>2 DEF Explained, Active, Reading
  <2> QED  BY <1>8, <2>2, <2>3 DEF Expire
<1>9. CASE Decode(p)
  <2>1. o.pc = "decode" /\ o.snapshot.version \in w
    BY <1>9 DEF Decode, At, Explained
  <2>2. CASE Answer(p, "error")
    BY <1>2, <2>2, Answered
  <2>3. CASE Answer(p, "hit")
    <3>1. op'[p].pc = "done" /\ op'[p].answer = "hit" /\ op'[p].snapshot = o.snapshot
      BY <2>3, Answered
    <3>2. o.snapshot.version \in window'[p]
      BY <1>5, <2>1, <3>1 DEF Reading
    <3> QED  BY <3>1, <3>2 DEF Explained, Active, Reading
  <2> QED  BY <1>9, <2>2, <2>3 DEF Decode
<1> QED  BY <1>3, <1>4, <1>6, <1>7, <1>8, <1>9 DEF Continue

\* The invariant is kept, and a stuttering step changes nothing it speaks of.
LEMMA Inductive == IInv /\ [Next]_vars => IInv'
<1> SUFFICES ASSUME IInv, [Next]_vars PROVE IInv'
  OBVIOUS
<1>1. CASE UNCHANGED vars
  BY <1>1 DEF IInv, Types, Explained, Changed, vars
<1>2. CASE Next
  <2> USE <1>2 DEF Next
  <2>1. Types
    BY DEF IInv
  <2>2. Types'
    BY <2>1, TypesKept
  <2>3. writes' \in {writes, writes + 1} /\ Legal(writes')
    BY <2>1, Legally
  <2>4. ASSUME NEW p \in Procs
        PROVE  Explained(op'[p], window'[p], items', now')
    <3> DEFINE v == Visible(items', now', op'[p].key)
    <3>1. Explained(op[p], window[p], items, now)
      BY DEF IInv
    <3>2. ASSUME op'[p].pc = op[p].pc, op'[p].key = op[p].key, op'[p].snapshot = op[p].snapshot,
                 op'[p].answer = op[p].answer
          PROVE  Explained(op'[p], window'[p], items', now')
      <4>1. op[p].pc \in Active => op[p].answer = "none"
        BY <3>1 DEF Explained
      <4>2. op[p].pc \in Reading => window'[p] = window[p] \cup {v}
        BY <3>2, <4>1, Watched DEF Active
      <4>3. op[p].pc \notin Reading /\ op[p].answer \in {"hit", "miss"} => window'[p] = window[p]
        BY <3>2, <4>1, Watched
      <4> QED  BY <2>1, <2>3, <3>1, <3>2, <4>2, <4>3, Bystander
    <3>3. CASE op'[p] = op[p]
      BY <3>2, <3>3
    <3>4. CASE Cancel(p)
      <4>1. op'[p] = [op[p] EXCEPT !.cancelled = TRUE]
        BY <2>1, <3>4 DEF Cancel, Types
      <4>2. op[p] \in Calls(writes)
        BY <2>1 DEF Types
      <4> QED  BY <3>2, <4>1, <4>2 DEF Calls
    <3>5. CASE Continue(p)
      BY <2>1, <2>2, <3>1, <3>5, Advanced
    <3>6. ASSUME NEW k \in Keys, StartGet(p, k) \/ StartSet(p, k) \/ StartBadSet(p, k)
          PROVE  Explained(op'[p], window'[p], items', now')
      <4>1. /\ op[p].pc \notin Active
            /\ \/ op'[p].pc = "read" /\ op'[p].answer = "none"
               \/ op'[p].pc = "store" /\ op'[p].answer = "none"
               \/ op'[p].pc = "done" /\ op'[p].answer = "error"
        BY <2>1, <3>6, Begun
      <4>2. op'[p].pc = "read" => v \in window'[p]
        BY <4>1, Watched DEF Active, Reading
      <4> QED  BY <4>1, <4>2 DEF Explained, Active, Reading
    <3> QED  BY <2>1, <3>3, <3>4, <3>5, <3>6, Movers
  <2> QED  BY <2>2, <2>4 DEF IInv
<1> QED  BY <1>1, <1>2

LEMMA Invariance == Spec => []IInv
BY Initially, Inductive, PTL DEF Spec

-----------------------------------------------------------------------------
(* The theorems *)

\* A window is finite, so two of its values count.
LEMMA TwoValues ==
  ASSUME NEW n \in Nat, NEW w, w \subseteq 0 .. n, NEW a \in w, NEW b \in w, a # b
  PROVE  Cardinality(w) >= 2
<1>1. IsFiniteSet(w)
  <2>1. IsFiniteSet(0 .. n)
    BY FS_Interval
  <2> QED  BY <2>1, FS_Subset
<1>2. IsFiniteSet({a}) /\ Cardinality({a}) = 1
  BY FS_Singleton
<1>3. Cardinality({a} \cup {b}) = 2
  BY <1>2, FS_AddElement
<1>4. Cardinality({a} \cup {b}) <= Cardinality(w)
  BY <1>1, FS_Subset
<1>5. Cardinality(w) \in Nat
  BY <1>1, FS_CardinalityType
<1> QED  BY <1>3, <1>4, <1>5

\* Whatever GetContext answers was right at some instant of the call, though it looks at
\* the entry it copied under the read lock only after giving the lock back: a hit is a value
\* that had not expired, a miss an absent key or one that was stored again meanwhile.
THEOREM AnswersRight == Spec => []AnswersExplained
<1>1. IInv => AnswersExplained
  <2> SUFFICES ASSUME IInv, NEW p \in Procs
               PROVE  /\ op[p].answer = "hit" => op[p].snapshot.version \in window[p]
                      /\ op[p].answer = "miss" => Absent \in window[p] \/ Cardinality(window[p]) >= 2
    BY DEF AnswersExplained
  <2>1. Explained(op[p], window[p], items, now) /\ writes \in Nat /\ window[p] \subseteq 0 .. writes
    BY DEF IInv, Types
  <2>2. Changed(window[p]) => Absent \in window[p] \/ Cardinality(window[p]) >= 2
    BY <2>1, TwoValues DEF Changed
  <2> QED  BY <2>1, <2>2 DEF Explained
<1> QED  BY <1>1, Invariance, PTL

\* No step but Delete and Clear takes away an entry that has not expired: neither the reader
\* that saw an expired one before it (deleteIfStillExpired) nor the cleanup task.
THEOREM FreshKept == Spec => FreshSurvives
<1> DEFINE Fresh == \A k \in Keys : Visible(items, now, k) # Absent /\ items'[k] = None => Removal
<1>1. IInv /\ [Next]_vars => [Fresh]_vars
  <2> SUFFICES ASSUME IInv, Next, NEW k \in Keys, Visible(items, now, k) # Absent, items'[k] = None
               PROVE  Removal
    BY DEF Fresh
  <2>1. Types
    BY DEF IInv
  <2>2. items[k] # None /\ ~Expired(items[k], now) /\ items \in [Keys -> Items(writes) \cup {None}]
    BY <2>1 DEF Visible, Types
  <2>3. items' # items
    BY <2>2
  <2>4. ASSUME NEW p \in Procs, Expire(p)
        PROVE  FALSE
    BY <2>2, <2>4 DEF Expire
  <2>5. ASSUME NEW p \in Procs, Store(p)
        PROVE  FALSE
    <3>1. op[p].key \in Keys
      BY <2>1 DEF Types, Calls
    <3>2. k = op[p].key /\ Item(writes', op[p].ttl) = None
      BY <2>2, <2>5, <3>1 DEF Store
    <3>3. writes' \in Nat /\ op[p].ttl \in TTLs \cup {0} /\ now \in Nat
      <4>1. op[p] \in Calls(writes)
        BY <2>1 DEF Types
      <4> QED  BY <2>1, <2>5, <4>1 DEF Types, Calls, Store
    <3>4. Item(writes', op[p].ttl) \in [version : Nat, expiration : Nat]
      <4>1. TTLs \cup {0} \subseteq Nat
        BY CacheAssumption
      <4>2. now + op[p].ttl \in Nat
        BY <3>3, <4>1
      <4> QED  BY <3>3, <4>2 DEF Item
    <3> QED  BY <3>2, <3>4, CacheAssumption
  <2>6. ASSUME NEW p \in Procs, \/ Cancelled(p) \/ Snapshot(p) \/ Check(p) \/ Decode(p) \/ Cancel(p)
                                \/ \E j \in Keys : StartGet(p, j) \/ StartSet(p, j)
                                                   \/ StartBadSet(p, j)
        PROVE  FALSE
    BY <2>3, <2>6 DEF Cancelled, Snapshot, Check, Decode, Cancel, StartGet, StartSet, StartBadSet
  <2>7. ~StartCleanupTask /\ ~Tick
    BY <2>3 DEF StartCleanupTask, Tick
  <2>8. ~Cleanup
    BY <2>2 DEF Cleanup
  <2> QED  BY <2>4, <2>5, <2>6, <2>7, <2>8 DEF Next, Step, Continue
<1> QED  BY <1>1, Invariance, PTL DEF Spec, FreshSurvives
=============================================================================
