---------------------------- MODULE EndpointProofs ----------------------------
(***************************************************************************)
(* Two things the endpoints promise their callers: the delivery of a       *)
(* player batch (PlayerBatch.tla) and the news of a rollover               *)
(* (GameWeeks.tla).                                                        *)
(*                                                                         *)
(* For every number of workers and inputs: nobody sends on the closed      *)
(* channel, the work ahead of the consumer and after a cancellation is     *)
(* bounded, and the batch keeps its delivery contract.  Every input        *)
(* position that was pulled is in one place (Placed): with a worker, in    *)
(* the buffer, or with the consumer.  While the context is active no       *)
(* position is lost (Complete, Counted).                                   *)
(*                                                                         *)
(* For every set of callers, season and pair of times-to-live: no caller   *)
(* is told a gameweek that ended longer ago than the metadata may be old.  *)
(* What an entry holds was current no longer than its time-to-live before  *)
(* it expires (Recent), also when it was derived from another entry.       *)
(***************************************************************************)
EXTENDS PlayerBatch, GameWeeks, FiniteSetTheorems, TLAPS

-----------------------------------------------------------------------------
(* Sequences without repetition *)

Elements(s) == {s[i] : i \in DOMAIN s}
Distinct(s) == \A i, j \in DOMAIN s : s[i] = s[j] => i = j

LEMMA Appended ==
  ASSUME NEW s \in Seq(Nat), NEW e \in Nat
  PROVE  /\ Append(s, e) \in Seq(Nat)
         /\ Len(Append(s, e)) = Len(s) + 1
         /\ Elements(Append(s, e)) = Elements(s) \cup {e}
         /\ Distinct(s) /\ e \notin Elements(s) => Distinct(Append(s, e))
<1>1. /\ Append(s, e) \in Seq(Nat) /\ Len(Append(s, e)) = Len(s) + 1
      /\ DOMAIN s = 1 .. Len(s) /\ DOMAIN Append(s, e) = 1 .. Len(s) + 1
      /\ \A i \in 1 .. Len(s) : Append(s, e)[i] = s[i]
      /\ Append(s, e)[Len(s) + 1] = e /\ Len(s) \in Nat
  OBVIOUS
<1>2. Elements(Append(s, e)) = Elements(s) \cup {e}
  <2>1. 1 .. Len(s) + 1 = (1 .. Len(s)) \cup {Len(s) + 1}
    BY <1>1
  <2> QED
    BY <1>1, <2>1 DEF Elements
<1>3. Distinct(s) /\ e \notin Elements(s) => Distinct(Append(s, e))
  BY <1>1 DEF Distinct, Elements
<1> QED
  BY <1>1, <1>2, <1>3

LEMMA HeadRemoved ==
  ASSUME NEW s \in Seq(Nat), s # <<>>
  PROVE  /\ Head(s) \in Nat /\ Tail(s) \in Seq(Nat)
         /\ Len(Tail(s)) = Len(s) - 1 /\ Len(s) \in Nat \ {0}
         /\ Head(s) \in Elements(s)
         /\ Distinct(s) => Distinct(Tail(s)) /\ Elements(Tail(s)) = Elements(s) \ {Head(s)}
<1>1. /\ Head(s) = s[1] /\ Head(s) \in Nat /\ Tail(s) \in Seq(Nat)
      /\ Len(s) \in Nat \ {0} /\ Len(Tail(s)) = Len(s) - 1
      /\ DOMAIN s = 1 .. Len(s) /\ DOMAIN Tail(s) = 1 .. Len(s) - 1
      /\ \A i \in 1 .. Len(s) - 1 : Tail(s)[i] = s[i + 1]
  OBVIOUS
<1>2. Head(s) \in Elements(s)
  BY <1>1 DEF Elements
<1>3. ASSUME Distinct(s)
      PROVE  Distinct(Tail(s)) /\ Elements(Tail(s)) = Elements(s) \ {Head(s)}
  <2>1. Distinct(Tail(s))
    BY <1>1, <1>3 DEF Distinct
  <2>2. Elements(Tail(s)) \subseteq Elements(s) \ {Head(s)}
    BY <1>1, <1>3 DEF Distinct, Elements
  <2>3. ASSUME NEW i \in DOMAIN s, s[i] # Head(s)
        PROVE  s[i] \in Elements(Tail(s))
    <3>1. i - 1 \in 1 .. Len(s) - 1 /\ Tail(s)[i - 1] = s[i]
      BY <1>1, <2>3
    <3> QED
      BY <1>1, <3>1 DEF Elements
  <2> QED
    BY <2>1, <2>2, <2>3 DEF Elements
<1> QED
  BY <1>1, <1>2, <1>3

-----------------------------------------------------------------------------
(* The inductive invariant *)

Places == {"top", "pull", "fetch", "send", "exited"}

Types == /\ kind \in {"batch", "single"} /\ n \in Nat /\ next \in Nat /\ late \in Nat
         /\ pc \in [Pool -> Places] /\ pos \in [Pool -> Nat]
         /\ channel \in Seq(Nat) /\ received \in Seq(Nat)
         /\ closed \in BOOLEAN /\ cancelled \in BOOLEAN
         /\ consumer \in {"reading", "abandoned", "ended"}

\* The first positions were pulled, as many as:
pulled == IF next < n THEN next ELSE n

\* Only the workers that were started do anything, and deliverAsync pulls nothing.
Started == /\ \A w \in Pool \ Workers : pc[w] = "exited"
           /\ kind = "single" => n = 1 /\ next >= n /\ \A w \in Pool : pc[w] \notin {"top", "pull"}

\* A worker leaves an active context only when the inputs are used up.
UsedUp == ~cancelled => \A w \in Workers : pc[w] = "exited" => next >= n

Held == {pos[w] : w \in InHand}

\* What was pulled is in one place, and nothing else is anywhere.
Placed == /\ Distinct(received) /\ Distinct(channel)
          /\ \A v, w \in InHand : pos[v] = pos[w] => v = w
          /\ Elements(received) \cap Elements(channel) = {}
          /\ Elements(received) \cap Held = {} /\ Elements(channel) \cap Held = {}
          /\ \A p \in Elements(received) \cup Elements(channel) \cup Held : p < pulled

\* Nothing that was pulled is lost.
Complete == ~cancelled => \A p \in Nat : p < pulled =>
                            p \in Elements(received) \cup Elements(channel) \cup Held

Counted == ~cancelled => pulled = Len(received) + Len(channel) + Cardinality(InHand)

\* Those that may still start a fetch after the context is done.
Pulling == {w \in Pool : pc[w] = "pull"}

LateBound == /\ ~cancelled => late = 0
             /\ cancelled => late + Cardinality(Pulling) <= workers

IInv == /\ Types /\ Started /\ UsedUp /\ Placed /\ Complete /\ Counted /\ LateBound
        /\ ClosedAfterWorkers
        /\ Len(channel) <= workers

-----------------------------------------------------------------------------
(* What a step of a worker does to the sets *)

LEMMA Sizes ==
  ASSUME BatchAssumption, Types
  PROVE  /\ BatchWorkers \in Nat \ {0} /\ workers \in Nat /\ workers <= n
         /\ workers <= BatchWorkers /\ Workers \subseteq Pool
         /\ (n > 0 => 1 \in Workers) /\ pulled \in Nat /\ pulled <= n
  BY DEF BatchAssumption, Types, workers, Workers, Pool, pulled

LEMMA Cardinals ==
  ASSUME BatchAssumption, Types, Started, NEW S, S \subseteq {w \in Pool : pc[w] # "exited"}
  PROVE  IsFiniteSet(S) /\ Cardinality(S) \in Nat /\ Cardinality(S) <= workers
<1>1. workers \in Nat
  BY Sizes
<1>2. IsFiniteSet(1 .. workers) /\ Cardinality(1 .. workers) = workers
  BY <1>1, FS_Interval
<1>3. S \subseteq 1 .. workers
  BY DEF Started, Workers
<1> QED
  BY <1>1, <1>2, <1>3, FS_Subset, FS_CardinalityType

LEMMA WorkerMoves ==
  ASSUME BatchAssumption, Types, Started, NEW w \in Pool, pc[w] # "exited",
         NEW place \in Places, Goto(w, place)
  PROVE  /\ pc' \in [Pool -> Places] /\ pc'[w] = place /\ \A v \in Pool \ {w} : pc'[v] = pc[v]
         /\ w \in Workers
         /\ InHand' = IF place \in {"fetch", "send"} THEN InHand \cup {w} ELSE InHand \ {w}
         /\ Cardinality(InHand') =
              Cardinality(InHand) + (IF place \in {"fetch", "send"} THEN 1 ELSE 0)
                                  - (IF w \in InHand THEN 1 ELSE 0)
         /\ Pulling' = IF place = "pull" THEN Pulling \cup {w} ELSE Pulling \ {w}
         /\ Cardinality(Pulling') = Cardinality(Pulling) + (IF place = "pull" THEN 1 ELSE 0)
                                                         - (IF w \in Pulling THEN 1 ELSE 0)
<1>1. /\ pc' \in [Pool -> Places] /\ pc'[w] = place
      /\ \A v \in Pool \ {w} : pc'[v] = pc[v]
  BY DEF Goto, Types
<1>2. w \in Workers
  BY DEF Started
<1>3. InHand' = IF place \in {"fetch", "send"} THEN InHand \cup {w} ELSE InHand \ {w}
  BY <1>1 DEF InHand
<1>4. Pulling' = IF place = "pull" THEN Pulling \cup {w} ELSE Pulling \ {w}
  BY <1>1 DEF Pulling
<1>5. /\ IsFiniteSet(InHand) /\ Cardinality(InHand) \in Nat
      /\ IsFiniteSet(Pulling) /\ Cardinality(Pulling) \in Nat
  BY Cardinals DEF InHand, Pulling
<1>6. /\ Cardinality(InHand \cup {w}) = IF w \in InHand THEN Cardinality(InHand) ELSE Cardinality(InHand) + 1
      /\ Cardinality(InHand \ {w}) = IF w \in InHand THEN Cardinality(InHand) - 1 ELSE Cardinality(InHand)
  BY <1>5, FS_AddElement, FS_RemoveElement
<1>7. /\ Cardinality(Pulling \cup {w}) = IF w \in Pulling THEN Cardinality(Pulling) ELSE Cardinality(Pulling) + 1
      /\ Cardinality(Pulling \ {w}) = IF w \in Pulling THEN Cardinality(Pulling) - 1 ELSE Cardinality(Pulling)
  BY <1>5, FS_AddElement, FS_RemoveElement
<1>8. Cardinality(InHand') =
        Cardinality(InHand) + (IF place \in {"fetch", "send"} THEN 1 ELSE 0)
                            - (IF w \in InHand THEN 1 ELSE 0)
  BY <1>3, <1>5, <1>6
<1>9. Cardinality(Pulling') = Cardinality(Pulling) + (IF place = "pull" THEN 1 ELSE 0)
                                                   - (IF w \in Pulling THEN 1 ELSE 0)
  BY <1>4, <1>5, <1>7
<1> QED
  BY <1>1, <1>2, <1>3, <1>4, <1>8, <1>9

LEMMA UsedUpKept ==
  ASSUME BatchAssumption, Types, UsedUp, NEW w \in Pool,
         \A v \in Pool \ {w} : pc'[v] = pc[v],
         pc'[w] = "exited" => cancelled \/ next' >= n,
         next' \in Nat, next' >= next, UNCHANGED <<n, cancelled>>
  PROVE  UsedUp'
<1>1. SUFFICES ASSUME ~cancelled, NEW v \in Workers, pc'[v] = "exited"
               PROVE  next' >= n
  BY DEF UsedUp, Workers, workers
<1>2. v \in Pool /\ n \in Nat /\ next \in Nat
  BY Sizes DEF Types
<1>3. CASE v = w
  BY <1>1, <1>3
<1>4. CASE v # w
  <2>1. next >= n
    BY <1>1, <1>2, <1>4 DEF UsedUp
  <2> QED
    BY <1>2, <2>1
<1> QED
  BY <1>3, <1>4

\* A worker that pulled nothing and holds nothing moves within the loop or leaves it.
LEMMA TopStep == ASSUME BatchAssumption, IInv, NEW w \in Pool, Top(w)
                 PROVE  IInv'
<1> DEFINE place == IF cancelled THEN "exited" ELSE "pull"
<1>1. /\ pc[w] = "top" /\ Goto(w, place) /\ place \in Places
      /\ UNCHANGED <<kind, n, next, pos, channel, closed, received, consumer, cancelled, late>>
  BY DEF Top, Places
<1>2. Types /\ Started
  BY DEF IInv
<1> HIDE DEF place
<1>3. /\ pc' \in [Pool -> Places] /\ pc'[w] = place /\ \A v \in Pool \ {w} : pc'[v] = pc[v]
      /\ w \in Workers
      /\ InHand' = IF place \in {"fetch", "send"} THEN InHand \cup {w} ELSE InHand \ {w}
      /\ Cardinality(Pulling') = Cardinality(Pulling) + (IF place = "pull" THEN 1 ELSE 0)
                                                      - (IF w \in Pulling THEN 1 ELSE 0)
  BY <1>1, <1>2, WorkerMoves
<1> USE DEF place
<1>4. InHand' = InHand
  BY <1>1, <1>3 DEF InHand
<1>5. workers' = workers /\ Workers' = Workers /\ pulled' = pulled /\ Held' = Held
  BY <1>1, <1>4 DEF workers, Workers, pulled, Held
<1>6. Types'
  BY <1>1, <1>2, <1>3 DEF Types
<1>7. Started'
  BY <1>1, <1>3, <1>5 DEF IInv, Started
<1>8. UsedUp'
  <2>1. next' \in Nat /\ next' >= next /\ UsedUp
    BY <1>1, <1>2 DEF Types, IInv
  <2> QED
    BY <1>1, <1>2, <1>3, <2>1, UsedUpKept
<1>9. Placed' /\ Complete' /\ Counted'
  BY <1>1, <1>4, <1>5 DEF IInv, Placed, Complete, Counted, Elements, Distinct
<1>10. LateBound'
  <2>1. w \notin Pulling /\ Cardinality(Pulling) \in Nat
    BY <1>1, <1>2, Cardinals DEF Pulling
  <2> QED
    BY <1>1, <1>2, <1>3, <1>5, <2>1 DEF IInv, LateBound, Types
<1>11. ClosedAfterWorkers' /\ (Len(channel) <= workers)'
  BY <1>1, <1>5 DEF IInv, ClosedAfterWorkers
<1> QED
  BY <1>6, <1>7, <1>8, <1>9, <1>10, <1>11 DEF IInv

\* A worker takes the next position, which nobody has, or finds the inputs used up.
LEMMA PullStep == ASSUME BatchAssumption, IInv, NEW w \in Pool, Pull(w)
                  PROVE  IInv'
<1>1. /\ pc[w] = "pull" /\ next' = next + 1
      /\ UNCHANGED <<kind, n, channel, closed, received, consumer, cancelled>>
  BY DEF Pull
<1>2. Types /\ Started /\ n \in Nat /\ next \in Nat /\ late \in Nat /\ kind = "batch"
  BY <1>1 DEF IInv, Types, Started
<1>3. w \notin InHand /\ w \in Pulling /\ Cardinality(Pulling) \in Nat /\ Cardinality(InHand) \in Nat
  BY <1>1, <1>2, Cardinals DEF InHand, Pulling
<1>4. workers' = workers /\ Workers' = Workers /\ workers \in Nat
  BY <1>1, <1>2, Sizes DEF workers, Workers
<1>5. CASE next >= n
  <2>1. Goto(w, "exited") /\ pos' = pos /\ late' = late
    BY <1>2, <1>5 DEF Pull
  <2>2. "exited" \in Places
    BY DEF Places
  <2>3. /\ pc' \in [Pool -> Places] /\ pc'[w] = "exited" /\ \A v \in Pool \ {w} : pc'[v] = pc[v]
        /\ InHand' = InHand /\ Cardinality(Pulling') = Cardinality(Pulling) - 1
    <3>1. InHand \ {w} = InHand
      BY <1>3
    <3> QED
      BY <1>1, <1>2, <1>3, <2>1, <2>2, <3>1, WorkerMoves
  <2>4. Held' = Held /\ pulled' = pulled
    BY <1>1, <1>2, <1>5, <2>1, <2>3 DEF Held, pulled
  <2>5. Types' /\ Started'
    BY <1>1, <1>2, <1>4, <1>5, <2>1, <2>3 DEF Types, Started
  <2>a. UsedUp'
    <3>1. next' \in Nat /\ next' >= next /\ next' >= n /\ UsedUp
      BY <1>1, <1>2, <1>5 DEF IInv
    <3> QED
      BY <1>1, <1>2, <2>3, <3>1, UsedUpKept
  <2>6. Placed' /\ Complete' /\ Counted'
    BY <1>1, <2>1, <2>3, <2>4 DEF IInv, Placed, Complete, Counted, Elements, Distinct
  <2>7. LateBound'
    BY <1>1, <1>2, <1>3, <1>4, <2>1, <2>3 DEF IInv, LateBound
  <2>8. ClosedAfterWorkers' /\ (Len(channel) <= workers)'
    BY <1>1, <1>4 DEF IInv, ClosedAfterWorkers
  <2> QED
    BY <2>5, <2>a, <2>6, <2>7, <2>8 DEF IInv
<1>6. CASE next < n
  <2>1. /\ Goto(w, "fetch") /\ pos' = [pos EXCEPT ![w] = next]
        /\ late' = IF cancelled THEN late + 1 ELSE late
    BY <1>2, <1>6 DEF Pull
  <2>2. "fetch" \in Places
    BY DEF Places
  <2>3. /\ pc' \in [Pool -> Places] /\ pc'[w] = "fetch" /\ \A v \in Pool \ {w} : pc'[v] = pc[v]
        /\ InHand' = InHand \cup {w} /\ Cardinality(InHand') = Cardinality(InHand) + 1
        /\ Cardinality(Pulling') = Cardinality(Pulling) - 1
    BY <1>1, <1>2, <1>3, <2>1, <2>2, WorkerMoves
  <2>4. /\ pos' \in [Pool -> Nat] /\ pos'[w] = next /\ \A v \in Pool \ {w} : pos'[v] = pos[v]
    BY <1>2, <2>1 DEF Types
  <2>5. pulled = next /\ pulled' = next + 1
    BY <1>1, <1>2, <1>6 DEF pulled
  <2>6. Held' = Held \cup {next}
    BY <1>3, <2>3, <2>4 DEF Held, InHand
  <2>7. Types' /\ Started'
    BY <1>1, <1>2, <1>4, <1>6, <2>1, <2>3, <2>4 DEF IInv, Types, Started
  <2>a. UsedUp'
    <3>1. next' \in Nat /\ next' >= next /\ pc'[w] # "exited" /\ UsedUp
      BY <1>1, <1>2, <2>3 DEF IInv
    <3> QED
      BY <1>1, <1>2, <2>3, <3>1, UsedUpKept
  <2>8. next \notin Elements(received) \cup Elements(channel) \cup Held
    BY <1>2, <2>5 DEF IInv, Placed
  <2>9. Placed'
    <3>1. \A u, v \in InHand' : pos'[u] = pos'[v] => u = v
      BY <1>3, <2>3, <2>4, <2>8 DEF IInv, Placed, Held, InHand
    <3>2. \A p \in Elements(received) \cup Elements(channel) \cup Held' : p < pulled'
      <4>1. Elements(received) \cup Elements(channel) \cup Held \subseteq Nat
        BY <1>2 DEF Types, Elements, Held, InHand
      <4> QED
        BY <1>2, <2>5, <2>6, <4>1 DEF IInv, Placed
    <3> QED
      BY <1>1, <2>6, <2>8, <3>1, <3>2 DEF IInv, Placed, Elements, Distinct
  <2>10. Complete'
    BY <1>1, <1>2, <2>5, <2>6 DEF IInv, Complete, Elements
  <2>11. Counted'
    <3>1. Len(received) \in Nat /\ Len(channel) \in Nat
      BY <1>2 DEF Types
    <3> QED
      BY <1>1, <1>2, <1>3, <2>3, <2>5, <3>1 DEF IInv, Counted
  <2>12. LateBound'
    BY <1>1, <1>2, <1>3, <1>4, <2>1, <2>3 DEF IInv, LateBound
  <2>13. ClosedAfterWorkers' /\ (Len(channel) <= workers)'
    BY <1>1, <1>4 DEF IInv, ClosedAfterWorkers
  <2> QED
    BY <2>7, <2>a, <2>9, <2>10, <2>11, <2>12, <2>13 DEF IInv
<1> QED
  BY <1>2, <1>5, <1>6

\* The worker keeps what it holds.
LEMMA FetchStep == ASSUME BatchAssumption, IInv, NEW w \in Pool, Fetch(w)
                   PROVE  IInv'
<1>1. /\ pc[w] = "fetch" /\ Goto(w, "send") /\ "send" \in Places
      /\ UNCHANGED <<kind, n, next, pos, channel, closed, received, consumer, cancelled, late>>
  BY DEF Fetch, Places
<1>2. Types /\ Started /\ Cardinality(Pulling) \in Nat /\ Cardinality(InHand) \in Nat
  <2>1. Types /\ Started
    BY DEF IInv
  <2> QED
    BY <2>1, Cardinals DEF InHand, Pulling
<1>3. w \in InHand /\ w \notin Pulling
  BY <1>1 DEF InHand, Pulling
<1>4. /\ pc' \in [Pool -> Places] /\ pc'[w] = "send" /\ \A v \in Pool \ {w} : pc'[v] = pc[v]
      /\ InHand' = InHand /\ Cardinality(Pulling') = Cardinality(Pulling)
  BY <1>1, <1>2, <1>3, WorkerMoves
<1>5. workers' = workers /\ Workers' = Workers /\ pulled' = pulled /\ Held' = Held
  BY <1>1, <1>4 DEF workers, Workers, pulled, Held
<1>6. Types' /\ Started'
  BY <1>1, <1>2, <1>4, <1>5 DEF IInv, Types, Started
<1>a. UsedUp'
  <2>1. next' \in Nat /\ next' >= next /\ UsedUp
    BY <1>1, <1>2 DEF IInv, Types
  <2> QED
    BY <1>1, <1>2, <1>4, <2>1, UsedUpKept
<1>7. Placed' /\ Complete' /\ Counted'
  BY <1>1, <1>4, <1>5 DEF IInv, Placed, Complete, Counted, Elements, Distinct
<1>8. LateBound' /\ ClosedAfterWorkers' /\ (Len(channel) <= workers)'
  BY <1>1, <1>4, <1>5 DEF IInv, LateBound, ClosedAfterWorkers
<1> QED
  BY <1>6, <1>a, <1>7, <1>8 DEF IInv

\* What the worker holds goes to the end of the buffer, which is not full.
LEMMA SendStep == ASSUME BatchAssumption, IInv, NEW w \in Pool, Send(w)
                  PROVE  IInv'
<1> DEFINE place == IF kind = "batch" THEN "top" ELSE "exited"
<1>1. /\ pc[w] = "send" /\ Goto(w, place) /\ place \in Places /\ place \in {"top", "exited"}
      /\ Len(channel) < workers /\ channel' = Append(channel, pos[w])
      /\ UNCHANGED <<kind, n, next, pos, closed, received, consumer, cancelled, late>>
  BY DEF Send, Sent, Places
<1>2. Types /\ Started /\ Cardinality(Pulling) \in Nat /\ Cardinality(InHand) \in Nat
  <2>1. Types /\ Started
    BY DEF IInv
  <2> QED
    BY <2>1, Cardinals DEF InHand, Pulling
<1>3. w \in InHand /\ w \notin Pulling
  BY <1>1 DEF InHand, Pulling
<1>0. place = "top" => kind = "batch"
  OBVIOUS
<1>a. place = "exited" => kind = "single"
  BY <1>2 DEF Types
<1> HIDE DEF place
<1>4. /\ pc' \in [Pool -> Places] /\ pc'[w] = place /\ \A v \in Pool \ {w} : pc'[v] = pc[v]
      /\ InHand' = InHand \ {w} /\ Cardinality(InHand') = Cardinality(InHand) - 1
      /\ Cardinality(Pulling') = Cardinality(Pulling)
  BY <1>1, <1>2, <1>3, WorkerMoves
<1>5. workers' = workers /\ Workers' = Workers /\ pulled' = pulled
  BY <1>1 DEF workers, Workers, pulled
<1>6. pos[w] \in Nat /\ channel \in Seq(Nat) /\ pos[w] \in Held
  BY <1>2, <1>3 DEF Types, Held
<1>7. Held' = Held \ {pos[w]}
  BY <1>1, <1>3, <1>4 DEF IInv, Placed, Held
<1>8. /\ channel' \in Seq(Nat) /\ Len(channel') = Len(channel) + 1
      /\ Elements(channel') = Elements(channel) \cup {pos[w]}
      /\ Distinct(channel) /\ pos[w] \notin Elements(channel) => Distinct(channel')
  BY <1>1, <1>6, Appended
<1>9. /\ Elements(channel)' = Elements(channel') /\ Distinct(channel)' = Distinct(channel')
      /\ Elements(received)' = Elements(received) /\ Distinct(received)' = Distinct(received)
  BY <1>1 DEF Elements, Distinct
<1>10. Types' /\ Started'
  BY <1>0, <1>1, <1>2, <1>4, <1>5, <1>8 DEF IInv, Types, Started
<1>b. UsedUp'
  <2>1. next' \in Nat /\ next' >= next /\ UsedUp /\ (pc'[w] = "exited" => next >= n)
    BY <1>a, <1>1, <1>2, <1>4 DEF IInv, Types, Started
  <2> QED
    BY <1>1, <1>2, <1>4, <2>1, UsedUpKept
<1>11. Placed'
  <2>1. \A u, v \in InHand' : pos'[u] = pos'[v] => u = v
    BY <1>1, <1>4 DEF IInv, Placed
  <2> QED
    BY <1>5, <1>6, <1>7, <1>8, <1>9, <2>1 DEF IInv, Placed
<1>12. Complete'
  BY <1>1, <1>5, <1>7, <1>8, <1>9 DEF IInv, Complete
<1>13. Counted'
  <2>1. Len(received) \in Nat /\ Len(channel) \in Nat
    BY <1>2 DEF Types
  <2> QED
    BY <1>1, <1>2, <1>4, <1>5, <1>8, <2>1 DEF IInv, Counted
<1>14. (Len(channel) <= workers)'
  BY <1>1, <1>2, <1>5, <1>8, Sizes DEF Types
<1>15. LateBound'
  BY <1>1, <1>4, <1>5 DEF IInv, LateBound
<1>16. ClosedAfterWorkers'
  BY <1>1 DEF IInv, ClosedAfterWorkers
<1> QED
  BY <1>10, <1>b, <1>11, <1>12, <1>13, <1>14, <1>15, <1>16 DEF IInv

\* Once the context is done, a result may be lost.
LEMMA DropStep == ASSUME BatchAssumption, IInv, NEW w \in Pool, Drop(w)
                  PROVE  IInv'
<1>1. /\ pc[w] = "send" /\ Goto(w, "exited") /\ "exited" \in Places /\ cancelled
      /\ UNCHANGED <<kind, n, next, pos, channel, closed, received, consumer, cancelled, late>>
  BY DEF Drop, Places
<1>2. Types /\ Started /\ Cardinality(Pulling) \in Nat /\ Cardinality(InHand) \in Nat
  <2>1. Types /\ Started
    BY DEF IInv
  <2> QED
    BY <2>1, Cardinals DEF InHand, Pulling
<1>3. w \in InHand /\ w \notin Pulling
  BY <1>1 DEF InHand, Pulling
<1>4. /\ pc' \in [Pool -> Places] /\ pc'[w] = "exited" /\ \A v \in Pool \ {w} : pc'[v] = pc[v]
      /\ InHand' = InHand \ {w} /\ Cardinality(Pulling') = Cardinality(Pulling)
  BY <1>1, <1>2, <1>3, WorkerMoves
<1>5. workers' = workers /\ Workers' = Workers /\ pulled' = pulled /\ Held' \subseteq Held
  BY <1>1, <1>4 DEF workers, Workers, pulled, Held
<1>6. Types' /\ Started'
  BY <1>1, <1>2, <1>4, <1>5 DEF IInv, Types, Started
<1>a. UsedUp'
  <2>1. next' \in Nat /\ next' >= next /\ UsedUp
    BY <1>1, <1>2 DEF IInv, Types
  <2> QED
    BY <1>1, <1>2, <1>4, <2>1, UsedUpKept
<1>7. Placed'
  <2>1. \A u, v \in InHand' : pos'[u] = pos'[v] => u = v
    BY <1>1, <1>4 DEF IInv, Placed
  <2> QED
    BY <1>1, <1>5, <2>1 DEF IInv, Placed, Elements, Distinct
<1>8. Complete' /\ Counted' /\ LateBound'
  BY <1>1, <1>4, <1>5 DEF IInv, Complete, Counted, LateBound
<1>9. ClosedAfterWorkers' /\ (Len(channel) <= workers)'
  BY <1>1, <1>4, <1>5 DEF IInv, ClosedAfterWorkers
<1> QED
  BY <1>6, <1>a, <1>7, <1>8, <1>9 DEF IInv

\* The channel is closed after the last worker.
LEMMA CloseStep == ASSUME BatchAssumption, IInv, Close
                   PROVE  IInv'
<1>1. /\ closed' = TRUE /\ \A w \in Workers : pc[w] = "exited"
      /\ UNCHANGED <<kind, n, next, pc, pos, channel, received, consumer, cancelled, late>>
  BY DEF Close
<1>2. /\ workers' = workers /\ Workers' = Workers /\ pulled' = pulled
      /\ InHand' = InHand /\ Held' = Held /\ Pulling' = Pulling
  BY <1>1 DEF workers, Workers, pulled, InHand, Held, Pulling
<1>3. Types' /\ Started' /\ UsedUp'
  BY <1>1, <1>2 DEF IInv, Types, Started, UsedUp
<1>4. Placed' /\ Complete' /\ Counted' /\ LateBound' /\ (Len(channel) <= workers)'
  BY <1>1, <1>2 DEF IInv, Placed, Complete, Counted, LateBound, Elements, Distinct
<1>5. ClosedAfterWorkers'
  BY <1>1 DEF IInv, Started, ClosedAfterWorkers
<1> QED
  BY <1>3, <1>4, <1>5 DEF IInv

\* The head of the buffer goes to the consumer.
LEMMA ReceiveStep == ASSUME BatchAssumption, IInv, Receive
                     PROVE  IInv'
<1>1. /\ channel # <<>> /\ received' = Append(received, Head(channel)) /\ channel' = Tail(channel)
      /\ UNCHANGED <<kind, n, next, pc, pos, closed, consumer, cancelled, late>>
  BY DEF Receive
<1>2. Types /\ channel \in Seq(Nat) /\ received \in Seq(Nat)
  BY DEF IInv, Types
<1>3. /\ workers' = workers /\ Workers' = Workers /\ pulled' = pulled
      /\ InHand' = InHand /\ Held' = Held /\ Pulling' = Pulling
  BY <1>1 DEF workers, Workers, pulled, InHand, Held, Pulling
<1>4. /\ Head(channel) \in Nat /\ channel' \in Seq(Nat)
      /\ Len(channel') = Len(channel) - 1 /\ Len(channel) \in Nat \ {0}
      /\ Head(channel) \in Elements(channel)
      /\ Distinct(channel) => /\ Distinct(channel')
                              /\ Elements(channel') = Elements(channel) \ {Head(channel)}
  BY <1>1, <1>2, HeadRemoved
<1>5. /\ received' \in Seq(Nat) /\ Len(received') = Len(received) + 1 /\ Len(received) \in Nat
      /\ Elements(received') = Elements(received) \cup {Head(channel)}
      /\ Distinct(received) /\ Head(channel) \notin Elements(received) => Distinct(received')
  BY <1>1, <1>2, <1>4, Appended
<1>6. /\ Elements(channel)' = Elements(channel') /\ Distinct(channel)' = Distinct(channel')
      /\ Elements(received)' = Elements(received') /\ Distinct(received)' = Distinct(received')
  BY DEF Elements, Distinct
<1>7. Types' /\ Started' /\ UsedUp'
  BY <1>1, <1>2, <1>3, <1>4, <1>5 DEF IInv, Types, Started, UsedUp
<1>8. Placed'
  BY <1>1, <1>3, <1>4, <1>5, <1>6 DEF IInv, Placed
<1>9. Complete'
  BY <1>1, <1>3, <1>4, <1>5, <1>6 DEF IInv, Placed, Complete
<1>10. Counted'
  BY <1>1, <1>3, <1>4, <1>5 DEF IInv, Counted
<1>11. LateBound' /\ ClosedAfterWorkers'
  BY <1>1, <1>3 DEF IInv, LateBound, ClosedAfterWorkers
<1>12. (Len(channel) <= workers)'
  BY <1>2, <1>3, <1>4, Sizes DEF IInv
<1> QED
  BY <1>7, <1>8, <1>9, <1>10, <1>11, <1>12 DEF IInv

\* The consumer's own state and the context.
LEMMA OtherStep == ASSUME BatchAssumption, IInv, SeeClose \/ Abandon \/ Cancel \/ UNCHANGED vars
                   PROVE  IInv'
<1>1. /\ consumer' \in {"reading", "abandoned", "ended"} /\ cancelled' \in {cancelled, TRUE}
      /\ UNCHANGED <<kind, n, next, pc, pos, channel, closed, received, late>>
  BY DEF SeeClose, Abandon, Cancel, vars, IInv, Types
<1>2. Types /\ Started /\ Cardinality(Pulling) \in Nat /\ Cardinality(Pulling) <= workers
  <2>1. Types /\ Started
    BY DEF IInv
  <2> QED
    BY <2>1, Cardinals DEF Pulling
<1>3. /\ workers' = workers /\ Workers' = Workers /\ pulled' = pulled
      /\ InHand' = InHand /\ Held' = Held /\ Pulling' = Pulling
  BY <1>1 DEF workers, Workers, pulled, InHand, Held, Pulling
<1>4. cancelled \in BOOLEAN /\ cancelled' \in BOOLEAN
  BY <1>1 DEF IInv, Types
<1>5. Types'
  BY <1>1, <1>4 DEF IInv, Types
<1>6. Started' /\ UsedUp' /\ Complete' /\ Counted'
  BY <1>1, <1>3, <1>4 DEF IInv, Started, UsedUp, Complete, Counted, Elements
<1>7. Placed' /\ ClosedAfterWorkers' /\ (Len(channel) <= workers)'
  BY <1>1, <1>3 DEF IInv, Placed, ClosedAfterWorkers, Elements, Distinct
<1>8. LateBound'
  <2>1. late \in Nat /\ late' = late /\ LateBound
    BY <1>1 DEF IInv, Types
  <2>2. CASE cancelled
    BY <1>1, <1>2, <1>3, <2>1, <2>2 DEF LateBound
  <2>3. CASE ~cancelled
    BY <1>1, <1>2, <1>3, <2>1, <2>3 DEF LateBound
  <2> QED
    BY <2>2, <2>3
<1> QED
  BY <1>5, <1>6, <1>7, <1>8 DEF IInv

-----------------------------------------------------------------------------
LEMMA Begins == ASSUME BatchAssumption, Init
                PROVE  IInv
<1>1. Types /\ closed = (n = 0) /\ cancelled = FALSE /\ late = 0
      /\ channel = <<>> /\ received = <<>>
  <2>1. n \in Nat /\ next \in Nat /\ kind \in {"batch", "single"}
    BY DEF Init, BatchAssumption
  <2>2. <<>> \in Seq(Nat)
    OBVIOUS
  <2> QED
    BY <2>1, <2>2 DEF Init, Types, Places
<1>2. /\ workers \in Nat /\ workers <= n /\ Workers \subseteq Pool /\ (n > 0 => 1 \in Workers)
  BY <1>1, Sizes
<1>3. Started /\ UsedUp
  BY <1>2 DEF Init, Started, UsedUp, Pool
<1>4. ClosedAfterWorkers
  <2>1. SUFFICES ASSUME closed PROVE \A w \in Pool : pc[w] = "exited"
    BY DEF ClosedAfterWorkers
  <2>a. n = 0
    BY <1>1, <2>1, Zenon
  <2>2. workers = 0
    BY <1>2, <2>a
  <2>3. \A w \in Pool : w \notin Workers
    BY <2>2 DEF Workers
  <2> QED
    BY <2>3 DEF Init
<1>5. Elements(channel) = {} /\ Elements(received) = {} /\ Distinct(channel) /\ Distinct(received)
      /\ Len(channel) = 0 /\ Len(received) = 0
  BY <1>1 DEF Elements, Distinct
<1>6. CASE kind = "batch"
  <2>1. InHand = {} /\ pulled = 0
    BY <1>1, <1>6 DEF Init, InHand, pulled, Types
  <2>2. Cardinality({}) = 0
    BY FS_EmptySet
  <2>3. Placed /\ Complete /\ Counted
    BY <1>5, <2>1, <2>2 DEF Placed, Complete, Counted, Held
  <2> QED
    BY <1>1, <1>2, <1>3, <1>4, <1>5, <2>3 DEF IInv, LateBound
<1>7. CASE kind = "single"
  <2>1. n = 1 /\ next = 1 /\ pulled = 1 /\ workers = 1 /\ 1 \in Pool
    BY <1>7 DEF Init, pulled, workers, Pool, BatchAssumption
  <2>2. InHand = {1}
    BY <1>7, <2>1 DEF Init, InHand, Workers
  <2>3. Cardinality({1}) = 1
    BY FS_Singleton
  <2>4. Held = {0}
    BY <2>1, <2>2 DEF Init, Held
  <2>5. Placed /\ Complete /\ Counted
    BY <1>5, <2>1, <2>2, <2>3, <2>4 DEF Placed, Complete, Counted
  <2> QED
    BY <1>1, <1>2, <1>3, <1>4, <1>5, <2>5 DEF IInv, LateBound
<1> QED
  BY <1>1, <1>6, <1>7 DEF Types

LEMMA Goes == ASSUME BatchAssumption, IInv, [Next]_vars
              PROVE  IInv'
<1>1. ASSUME NEW w \in Pool, Work(w) PROVE IInv'
  BY <1>1, TopStep, PullStep, FetchStep, SendStep, DropStep DEF Work
<1> QED
  BY <1>1, CloseStep, ReceiveStep, OtherStep DEF Next

LEMMA Invariance == Spec => []IInv
<1>1. Init => IInv
  BY Begins, BatchAssumption
<1>2. IInv /\ [Next]_vars => IInv'
  BY Goes, BatchAssumption
<1> QED
  BY <1>1, <1>2, PTL DEF Spec

-----------------------------------------------------------------------------
(* The results *)

\* No worker is left to send, which would panic, when the channel is closed, whatever
\* the number of workers and whenever the context is cancelled.
THEOREM NeverSendsOnClosed == Spec => []ClosedAfterWorkers
<1>1. IInv => ClosedAfterWorkers
  BY DEF IInv
<1> QED
  BY <1>1, Invariance, PTL

\* What runs ahead of a slow consumer is one buffered result and one in hand per worker,
\* for any number of workers and inputs.
THEOREM AheadIsBounded == Spec => []BoundedAhead
<1>1. ASSUME IInv, ~cancelled
      PROVE  /\ Cardinality(Pulled) <= Len(received) + Len(channel) + Cardinality(InHand)
             /\ Cardinality(Pulled) <= Len(received) + 2 * workers
  <2>1. Types /\ Started
    BY <1>1 DEF IInv
  <2>2. pulled \in Nat /\ workers \in Nat
    BY <2>1, Sizes, BatchAssumption
  <2>3. Cardinality(0 .. pulled - 1) = pulled
    BY <2>2, FS_Interval
  <2>4. Cardinality(InHand) \in Nat /\ Cardinality(InHand) <= workers
    BY <2>1, Cardinals, BatchAssumption DEF InHand
  <2>5. Len(received) \in Nat /\ Len(channel) \in Nat
    BY <2>1 DEF Types
  <2>6. Cardinality(Pulled) = pulled
    BY <2>3 DEF Pulled, pulled
  <2> QED
    BY <1>1, <2>2, <2>4, <2>5, <2>6 DEF IInv, Counted
<1>2. IInv => BoundedAhead
  BY <1>1 DEF BoundedAhead
<1> QED
  BY <1>2, Invariance, PTL

\* A cancellation leaves at most one more fetch to each worker.
THEOREM LateIsBounded == Spec => []BoundedAfterCancel
<1>1. ASSUME IInv PROVE BoundedAfterCancel
  <2>1. Types /\ Started
    BY <1>1 DEF IInv
  <2>2. Cardinality(Pulling) \in Nat /\ workers \in Nat /\ late \in Nat
    BY <2>1, Cardinals, Sizes, BatchAssumption DEF Pulling, Types
  <2> QED
    BY <1>1, <2>2 DEF IInv, LateBound, BoundedAfterCancel
<1> QED
  BY <1>1, Invariance, PTL

\* A result that is received is new, and the channel ends only when all were delivered or
\* the context is done.
LEMMA KeepsContract ==
  ASSUME BatchAssumption, IInv, [Next]_vars
  PROVE  [Promise!ContractNext]_(Promise!contractVars)
<1> DEFINE ended == consumer = "ended"
<1>0. Types /\ Started
  BY DEF IInv
<1>1. CASE Receive
  <2>1. /\ consumer = "reading" /\ consumer' = consumer /\ n' = n /\ cancelled' = cancelled
        /\ received' = Append(received, Head(channel)) /\ channel # <<>>
    BY <1>1 DEF Receive
  <2>2. Head(channel) \in Elements(channel) /\ Head(channel) \in Nat
    BY <1>0, <2>1, HeadRemoved DEF Types
  <2>3. Head(channel) \in 0 .. n - 1 /\ Head(channel) \notin Elements(received)
    BY <1>0, <2>2, Sizes DEF IInv, Placed, Types
  <2>4. Head(channel) \in Promise!Missing
    BY <2>3 DEF Promise!Missing, Promise!Delivered, Elements
  <2>5. Promise!Deliver
    BY <2>1, <2>4 DEF Promise!Deliver
  <2> QED
    BY <2>5 DEF Promise!ContractNext
<1>2. CASE SeeClose
  <2>1. /\ consumer' = "ended" /\ closed /\ channel = <<>>
        /\ n' = n /\ received' = received /\ cancelled' = cancelled
    BY <1>2 DEF SeeClose
  <2>2. ASSUME ~cancelled, NEW p \in 0 .. n - 1
        PROVE  p \in Elements(received)
    <3>1. \A w \in Pool : pc[w] = "exited"
      BY <2>1 DEF IInv, ClosedAfterWorkers
    <3>2. InHand = {} /\ Held = {} /\ Elements(channel) = {}
      BY <2>1, <3>1 DEF InHand, Held, Elements
    <3>3. n > 0 /\ 1 \in Workers /\ 1 \in Pool
      BY <1>0, <2>2, Sizes DEF Types
    <3>4. next >= n
      BY <2>2, <3>1, <3>3 DEF IInv, UsedUp
    <3>5. p < pulled /\ p \in Nat
      BY <1>0, <3>4 DEF pulled, Types
    <3> QED
      BY <2>2, <3>2, <3>5 DEF IInv, Complete
  <2>3. Promise!Missing = {} \/ cancelled
    BY <2>2 DEF Promise!Missing, Promise!Delivered, Elements
  <2>4. Promise!End
    BY <2>1, <2>3 DEF Promise!End
  <2> QED
    BY <2>4 DEF Promise!ContractNext
<1>3. CASE Cancel
  BY <1>3 DEF Cancel, Promise!ContractNext, Promise!CancelContext
<1>4. CASE Abandon
  BY <1>4 DEF Abandon, Promise!contractVars
<1>5. CASE Close \/ UNCHANGED vars
  BY <1>5 DEF Close, vars, Promise!contractVars
<1>6. ASSUME NEW w \in Pool, Work(w)
      PROVE  UNCHANGED Promise!contractVars
  BY <1>6 DEF Work, Top, Pull, Fetch, Send, Drop, Promise!contractVars
<1> QED
  BY <1>1, <1>2, <1>3, <1>4, <1>5, <1>6 DEF Next

\* The batch implements the delivery contract for any number of workers and inputs: each
\* position is delivered at most once, and an active context loses none.
THEOREM ImplementsContract == Spec => DeliversContract
<1>1. Init => Promise!ContractInit
  BY BatchAssumption DEF Init, Promise!ContractInit
<1>2. IInv /\ [Next]_vars => [Promise!ContractNext]_(Promise!contractVars)
  BY KeepsContract, BatchAssumption
<1> QED
  BY <1>1, <1>2, Invariance, PTL DEF Spec, DeliversContract, Promise!Contract

-----------------------------------------------------------------------------
(* The gameweeks of a season *)

Known == 1 .. live
Entries == [value : Nat, expires : Nat]
Calls == [pc : Active \cup {"idle", "done"}, method : Methods, week : Weeks \cup {None},
          answer : Nat \cup {None}, asked : Nat]

SeasonTypes == /\ now \in Nat /\ live \in Weeks
               /\ rolled \in [Weeks -> Nat]
               /\ gameweeks \in Entries \cup {None} /\ nextKey \in Entries \cup {None}
               /\ picks \in [Weeks -> Entries \cup {None}]
               /\ op \in [Callers -> Calls]

\* Week g was the current one no longer than ttl before instant t, which is at most that
\* far ahead: an entry that was stored for ttl with what was current then.
Recent(g, t, ttl) == g \in Known /\ t <= now + ttl /\ CurrentWithin(g, t, ttl)

\* The entries.  The derived key may hold what a list said at the end of its own time.
GoodEntries ==
  /\ gameweeks # None => Recent(gameweeks.value, gameweeks.expires, GameweeksTTL)
  /\ nextKey # None => nextKey.value - 1 \in Known
                       /\ nextKey.expires <= now + GameweeksTTL
                       /\ Recent(nextKey.value - 1, nextKey.expires, 2 * GameweeksTTL)
  /\ \A g \in Weeks : picks[g] # None => picks[g].value = g

\* A call in progress takes no time; the week it found was current within a time-to-live.
GoodCall(o) ==
  /\ o.asked <= now
  /\ o.pc \in Active => o.asked = now
  /\ o.pc \in {"derive", "picks"} => Recent(o.week, o.asked, GameweeksTTL) /\ o.answer = None
  /\ o.pc \in {"next", "weeks"} => o.answer = None
  /\ o.pc = "next" => o.method = "next"
  /\ o.pc = "derive" => o.method = "next"
  /\ o.pc = "picks" => o.method = "team"
  /\ o.pc = "done" /\ o.answer # None =>
       IF o.method = "next" THEN Recent(o.answer - 1, o.asked, 2 * GameweeksTTL)
                            ELSE Recent(o.answer, o.asked, GameweeksTTL)

SeasonInv == SeasonTypes /\ GoodEntries /\ \A c \in Callers : GoodCall(op[c])

LEMMA SeasonStarts == SeasonInit => SeasonInv
<1> SUFFICES ASSUME SeasonInit PROVE SeasonInv
  OBVIOUS
<1>1. NoCall \in Calls /\ NoCall.pc = "idle" /\ NoCall.answer = None /\ NoCall.asked = 0
  BY DEF NoCall, Calls, Methods
<1>2. /\ now = 0 /\ live = 1 /\ live \in Weeks /\ gameweeks = None /\ nextKey = None
      /\ picks = [g \in Weeks |-> None] /\ rolled = [g \in Weeks |-> 0]
      /\ op = [c \in Callers |-> NoCall]
  BY GameWeeksAssumption DEF SeasonInit, Weeks
<1>3. SeasonTypes
  BY <1>1, <1>2 DEF SeasonTypes
<1>4. GoodEntries
  BY <1>2 DEF GoodEntries
<1>5. ASSUME NEW c \in Callers PROVE GoodCall(op[c])
  <2>1. op[c].pc = "idle" /\ op[c].answer = None /\ op[c].asked = 0
    BY <1>1, <1>2
  <2> QED  BY <1>2, <2>1 DEF GoodCall, Active
<1> QED  BY <1>3, <1>4, <1>5 DEF SeasonInv

-----------------------------------------------------------------------------
(* Time and the rollover *)

LEMMA LaterStill ==
  ASSUME NEW a \in Nat, NEW b \in Nat, NEW t \in Nat, NEW s \in Nat, a <= b, t <= a + s
  PROVE  t <= b + s
OBVIOUS

\* What is recent stays so, whatever is called, when a week ends and when time passes.
LEMMA StaysRecent ==
  ASSUME SeasonTypes, NEW g \in Int, NEW t \in Nat, NEW ttl \in Nat, Recent(g, t, ttl),
         now' \in Nat, now <= now',
         \/ live' = live /\ rolled' = rolled
         \/ Rollover
  PROVE  Recent(g, t, ttl)'
<1>1. now \in Nat /\ live \in Weeks /\ live \in Nat /\ LastGameweek \in Nat
      /\ rolled \in [Weeks -> Nat] /\ g \in 1 .. live /\ t <= now + ttl
  BY GameWeeksAssumption DEF SeasonTypes, Weeks, Recent, Known
<1>2. g = live \/ t <= rolled[g + 1] + ttl
  BY DEF Recent, CurrentWithin
<1>3. CASE live' = live /\ rolled' = rolled
  <2>1. t <= now' + ttl
    BY <1>1, LaterStill, Zenon
  <2>2. g \in 1 .. live'
    BY <1>1, <1>3
  <2>3. g = live' \/ t <= rolled'[g + 1] + ttl
    BY <1>2, <1>3
  <2> QED  BY <2>1, <2>2, <2>3 DEF Recent, CurrentWithin, Known
<1>4. CASE Rollover
  <2>1. live' = live + 1 /\ live + 1 \in Weeks /\ now' = now
        /\ rolled' = [rolled EXCEPT ![live + 1] = now]
    BY <1>1, <1>4 DEF Rollover, Weeks
  <2>2. rolled'[live + 1] = now /\ \A h \in Weeks : h # live + 1 => rolled'[h] = rolled[h]
    BY <1>1, <2>1
  <2>3. CASE g = live
    BY <1>1, <2>1, <2>2, <2>3 DEF Recent, CurrentWithin, Known
  <2>4. CASE g # live
    <3>1. g + 1 \in Weeks /\ g + 1 # live + 1
      BY <1>1, <2>4 DEF Weeks
    <3> QED  BY <1>1, <1>2, <2>1, <2>2, <2>4, <3>1 DEF Recent, CurrentWithin, Known
  <2> QED  BY <2>3, <2>4
<1> QED  BY <1>3, <1>4

LEMMA StaysGood ==
  ASSUME SeasonTypes, NEW o \in Calls, GoodCall(o), now' \in Nat, now <= now',
         \/ live' = live /\ rolled' = rolled
         \/ Rollover,
         o.pc \in Active => now' = now
  PROVE  GoodCall(o)'
<1>1. now \in Nat /\ o.asked \in Nat /\ o.asked <= now /\ GameweeksTTL \in Nat
  BY GameWeeksAssumption DEF SeasonTypes, Calls, GoodCall
<1>2. ASSUME NEW g, NEW ttl \in Nat, Recent(g, o.asked, ttl)
      PROVE  Recent(g, o.asked, ttl)'
  <2>1. g \in Int
    BY <1>2 DEF Recent, Known
  <2> QED  BY <1>1, <1>2, <2>1, StaysRecent
<1>3. 2 * GameweeksTTL \in Nat
  BY <1>1
<1>4. Recent(o.week, o.asked, GameweeksTTL) => Recent(o.week, o.asked, GameweeksTTL)'
  BY <1>1, <1>2
<1>5. Recent(o.answer, o.asked, GameweeksTTL) => Recent(o.answer, o.asked, GameweeksTTL)'
  BY <1>1, <1>2
<1>6. Recent(o.answer - 1, o.asked, 2 * GameweeksTTL)
        => Recent(o.answer - 1, o.asked, 2 * GameweeksTTL)'
  BY <1>2, <1>3
<1> QED  BY <1>1, <1>4, <1>5, <1>6 DEF GoodCall

LEMMA EntriesStay ==
  ASSUME SeasonTypes, GoodEntries, now' \in Nat, now <= now',
         \/ live' = live /\ rolled' = rolled
         \/ Rollover,
         UNCHANGED <<gameweeks, nextKey, picks>>
  PROVE  GoodEntries'
<1>1. now \in Nat /\ live \in Nat /\ live' \in Nat /\ live <= live' /\ GameweeksTTL \in Nat
  BY GameWeeksAssumption DEF SeasonTypes, Weeks, Rollover
<1>2. ASSUME gameweeks # None
      PROVE  Recent(gameweeks.value, gameweeks.expires, GameweeksTTL)'
  <2>1. gameweeks.value \in Int /\ gameweeks.expires \in Nat
    BY <1>2 DEF SeasonTypes, Entries
  <2>2. Recent(gameweeks.value, gameweeks.expires, GameweeksTTL)
    BY <1>2 DEF GoodEntries
  <2> DEFINE v == gameweeks.value
             t == gameweeks.expires
  <2>3. v' = v /\ t' = t
    OBVIOUS
  <2>4. \A g \in Int, i \in Nat : Recent(g, i, GameweeksTTL) => Recent(g, i, GameweeksTTL)'
    BY <1>1, StaysRecent
  <2> QED  BY <2>1, <2>2, <2>4
<1>3. ASSUME nextKey # None
      PROVE  (/\ nextKey.value - 1 \in Known
              /\ nextKey.expires <= now + GameweeksTTL
              /\ Recent(nextKey.value - 1, nextKey.expires, 2 * GameweeksTTL))'
  <2>1. nextKey.value \in Int /\ nextKey.expires \in Nat
    BY <1>3 DEF SeasonTypes, Entries
  <2>2. /\ nextKey.value - 1 \in Known
        /\ nextKey.expires <= now + GameweeksTTL
        /\ Recent(nextKey.value - 1, nextKey.expires, 2 * GameweeksTTL)
    BY <1>3 DEF GoodEntries
  <2>3. \A g \in Int, i \in Nat :
          Recent(g, i, 2 * GameweeksTTL) => Recent(g, i, 2 * GameweeksTTL)'
    <3>1. 2 * GameweeksTTL \in Nat
      BY <1>1
    <3> QED  BY <1>1, <3>1, StaysRecent
  <2>4. Recent(nextKey.value - 1, nextKey.expires, 2 * GameweeksTTL)'
    <3>1. nextKey.value - 1 \in Int
      BY <2>1
    <3> QED  BY <2>1, <2>2, <2>3, <3>1
  <2>5. (nextKey.value - 1 \in Known)' /\ (nextKey.expires <= now + GameweeksTTL)'
    BY <1>1, <2>1, <2>2 DEF Known
  <2> QED  BY <2>4, <2>5
<1> QED  BY <1>2, <1>3 DEF GoodEntries

-----------------------------------------------------------------------------
(* The steps *)

\* A step of caller c that leaves it as o, whatever it does to the entries.
LEMMA CallerMoves ==
  ASSUME SeasonInv, UNCHANGED <<now, live, rolled>>, NEW c \in Callers, NEW o \in Calls,
         op' = [op EXCEPT ![c] = o], GoodCall(o),
         gameweeks' \in Entries \cup {None}, nextKey' \in Entries \cup {None},
         picks' \in [Weeks -> Entries \cup {None}], GoodEntries'
  PROVE  SeasonInv'
<1>1. op \in [Callers -> Calls] /\ SeasonTypes
  BY DEF SeasonInv, SeasonTypes
<1>2. SeasonTypes'
  <2>1. op' \in [Callers -> Calls]
    BY <1>1
  <2> QED  BY <1>1, <2>1 DEF SeasonTypes
<1>3. ASSUME NEW d \in Callers PROVE GoodCall(op[d])'
  <2>1. op'[d] = op[d] \/ op'[d] = o
    BY <1>1
  <2>2. GoodCall(op[d])
    BY DEF SeasonInv
  <2>3. GoodCall(op'[d])
    BY <2>1, <2>2
  <2> QED  BY <2>3 DEF GoodCall, Recent, Known, CurrentWithin
<1> QED  BY <1>2, <1>3 DEF SeasonInv

LEMMA CallStep == ASSUME SeasonInv, NEW c \in Callers, Call(c) PROVE SeasonInv'
<1>1. SeasonTypes /\ GoodEntries /\ now \in Nat
  BY DEF SeasonInv, SeasonTypes
<1>2. PICK m \in Methods :
        op' = [op EXCEPT ![c] = [NoCall EXCEPT
                 !.method = m, !.pc = IF m = "next" THEN "next" ELSE "weeks", !.asked = now]]
  BY DEF Call
<1> DEFINE o == [NoCall EXCEPT
                   !.method = m, !.pc = IF m = "next" THEN "next" ELSE "weeks", !.asked = now]
<1>3. /\ o \in Calls /\ o.method = m /\ o.pc = (IF m = "next" THEN "next" ELSE "weeks")
      /\ o.asked = now /\ o.answer = None
  BY <1>1 DEF NoCall, Calls, Active
<1>4. GoodCall(o)
  BY <1>1, <1>3 DEF GoodCall, Active
<1>5. op' = [op EXCEPT ![c] = o] /\ UNCHANGED <<now, live, rolled, gameweeks, nextKey, picks>>
  BY <1>2 DEF Call
<1>6. GoodEntries'
  BY <1>1, <1>5, EntriesStay
<1> HIDE DEF o
<1> QED  BY <1>1, <1>3, <1>4, <1>5, <1>6, CallerMoves DEF SeasonTypes

LEMMA FailStep == ASSUME SeasonInv, NEW c \in Callers, Fail(c) PROVE SeasonInv'
<1>1. SeasonTypes /\ GoodEntries /\ now \in Nat /\ op[c] \in Calls /\ GoodCall(op[c])
  BY DEF SeasonInv, SeasonTypes
<1> DEFINE o == [op[c] EXCEPT !.pc = "done"]
<1>2. /\ o \in Calls /\ o.pc = "done" /\ o.answer = op[c].answer /\ o.asked = op[c].asked
  BY <1>1 DEF Calls
<1>3. o.answer = None
  BY <1>1, <1>2 DEF Fail, GoodCall, Active
<1>4. GoodCall(o)
  BY <1>1, <1>2, <1>3 DEF GoodCall, Active
<1>5. op' = [op EXCEPT ![c] = o] /\ UNCHANGED <<now, live, rolled, gameweeks, nextKey, picks>>
  BY DEF Fail
<1>6. GoodEntries'
  BY <1>1, <1>5, EntriesStay
<1> HIDE DEF o
<1> QED  BY <1>1, <1>2, <1>4, <1>5, <1>6, CallerMoves DEF SeasonTypes

LEMMA SoonerStill ==
  ASSUME NEW a \in Nat, NEW t \in Nat, NEW u \in Nat, NEW s \in Nat, t <= u, u <= a + s
  PROVE  t <= a + s
OBVIOUS

LEMMA RecentSooner ==
  ASSUME SeasonTypes, NEW g, NEW t \in Nat, NEW u \in Nat, NEW ttl \in Nat,
         Recent(g, u, ttl), t <= u
  PROVE  Recent(g, t, ttl)
<1>1. /\ g \in Int /\ g \in Known /\ u <= now + ttl /\ now \in Nat
      /\ g # live => rolled[g + 1] \in Nat /\ u <= rolled[g + 1] + ttl
  <2>1. g \in 1 .. live /\ live \in 1 .. LastGameweek /\ LastGameweek \in Nat
    BY GameWeeksAssumption DEF SeasonTypes, Weeks, Recent, Known
  <2>2. g # live => g + 1 \in Weeks
    BY <2>1 DEF Weeks
  <2> QED  BY <2>1, <2>2 DEF SeasonTypes, Recent, CurrentWithin, Known
<1>2. t <= now + ttl
  BY <1>1, SoonerStill
<1>3. g = live \/ t <= rolled[g + 1] + ttl
  BY <1>1, SoonerStill
<1> QED  BY <1>1, <1>2, <1>3 DEF Recent, CurrentWithin

LEMMA LookNextStep == ASSUME SeasonInv, NEW c \in Callers, LookNext(c) PROVE SeasonInv'
<1>1. /\ SeasonTypes /\ GoodEntries /\ now \in Nat /\ op[c] \in Calls /\ GoodCall(op[c])
      /\ UNCHANGED <<now, live, rolled, gameweeks, nextKey, picks>>
  BY DEF SeasonInv, SeasonTypes, LookNext
<1>2. op[c].pc = "next" /\ op[c].method = "next" /\ op[c].asked = now /\ op[c].answer = None
  BY <1>1 DEF LookNext, GoodCall, Active
<1>3. GoodEntries'
  BY <1>1, EntriesStay
<1>4. CASE Fresh(nextKey)
  <2> DEFINE o == [op[c] EXCEPT !.pc = "done", !.answer = nextKey.value]
  <2>1. nextKey \in Entries /\ nextKey.value \in Nat /\ nextKey.expires \in Nat
        /\ now <= nextKey.expires
    BY <1>1, <1>4 DEF Fresh, SeasonTypes, Entries
  <2>2. /\ o \in Calls /\ o.pc = "done" /\ o.answer = nextKey.value /\ o.asked = now
        /\ o.method = "next"
    BY <1>1, <1>2, <2>1 DEF Calls
  <2>3. Recent(nextKey.value - 1, now, 2 * GameweeksTTL)
    <3>1. Recent(nextKey.value - 1, nextKey.expires, 2 * GameweeksTTL)
      BY <1>1, <1>4 DEF GoodEntries, Fresh
    <3>2. 2 * GameweeksTTL \in Nat
      BY GameWeeksAssumption
    <3> QED  BY <1>1, <2>1, <3>1, <3>2, RecentSooner
  <2>4. GoodCall(o)
    BY <1>1, <2>2, <2>3 DEF GoodCall, Active
  <2>5. op' = [op EXCEPT ![c] = o]
    BY <1>4 DEF LookNext
  <2> HIDE DEF o
  <2> QED  BY <1>1, <1>3, <2>2, <2>4, <2>5, CallerMoves DEF SeasonTypes
<1>5. CASE ~Fresh(nextKey)
  <2> DEFINE o == [op[c] EXCEPT !.pc = "weeks"]
  <2>1. /\ o \in Calls /\ o.pc = "weeks" /\ o.answer = None /\ o.asked = now
    BY <1>1, <1>2 DEF Calls, Active
  <2>2. GoodCall(o)
    BY <1>1, <2>1 DEF GoodCall, Active
  <2>3. op' = [op EXCEPT ![c] = o]
    BY <1>5 DEF LookNext
  <2> HIDE DEF o
  <2> QED  BY <1>1, <1>3, <2>1, <2>2, <2>3, CallerMoves DEF SeasonTypes
<1> QED  BY <1>4, <1>5

LEMMA NewEntry == ASSUME NEW v \in Nat, NEW ttl \in Nat, now \in Nat
                  PROVE  /\ Entry(v, ttl) \in Entries /\ Entry(v, ttl) # None
                         /\ Entry(v, ttl).value = v /\ Entry(v, ttl).expires = now + ttl
<1>1. now + ttl \in Nat
  OBVIOUS
<1>2. Entry(v, ttl) \in [value : Nat, expires : Nat]
  BY <1>1 DEF Entry
<1> QED  BY <1>2, GameWeeksAssumption DEF Entry, Entries

\* What the section of the gameweeks leads to: an answer, or a step with the week found.
LEMMA AfterWeeksMoves ==
  ASSUME SeasonInv, NEW c \in Callers, op[c].pc = "weeks",
         NEW g \in Nat, Recent(g, now, GameweeksTTL), AfterWeeks(c, g),
         UNCHANGED <<now, live, rolled, nextKey, picks>>,
         gameweeks' \in Entries \cup {None}, GoodEntries'
  PROVE  SeasonInv'
<1>1. SeasonTypes /\ now \in Nat /\ op[c] \in Calls /\ GoodCall(op[c])
  BY DEF SeasonInv, SeasonTypes
<1>2. op[c].asked = now /\ op[c].answer = None /\ op[c].method \in Methods
  BY <1>1 DEF GoodCall, Active, Calls
<1>3. g \in Weeks
  BY <1>1, GameWeeksAssumption DEF SeasonTypes, Weeks, Recent, Known
<1>4. ASSUME NEW m \in Methods, op[c].method = m, NEW place \in {"done", "derive", "picks"},
             place = (CASE m = "current" -> "done" [] m = "next" -> "derive"
                        [] m = "team" -> "picks")
      PROVE  SeasonInv'
  <2> DEFINE o == [op[c] EXCEPT !.week = g, !.pc = place,
                                !.answer = IF m = "current" THEN g ELSE None]
  <2>1. /\ o \in Calls /\ o.pc = place /\ o.asked = now /\ o.method = m /\ o.week = g
        /\ o.answer = (IF m = "current" THEN g ELSE None)
    BY <1>1, <1>2, <1>3, <1>4 DEF Calls, Active
  <2>2. \/ m = "current" /\ place = "done"
        \/ m = "next" /\ place = "derive"
        \/ m = "team" /\ place = "picks"
    BY <1>4 DEF Methods
  <2>3. GoodCall(o)
    BY <1>1, <2>1, <2>2 DEF GoodCall, Active
  <2>4. op' = [op EXCEPT ![c] = o]
    <3>1. op' = [op EXCEPT ![c].week = g, ![c].pc = place,
                           ![c].answer = IF m = "current" THEN g ELSE None]
      BY <1>4 DEF AfterWeeks
    <3> QED  BY <3>1
  <2> HIDE DEF o
  <2> QED  BY <1>1, <2>1, <2>3, <2>4, CallerMoves DEF SeasonTypes
<1>5. \E place \in {"done", "derive", "picks"} :
        place = (CASE op[c].method = "current" -> "done" [] op[c].method = "next" -> "derive"
                   [] op[c].method = "team" -> "picks")
  BY <1>2 DEF Methods
<1> QED  BY <1>2, <1>4, <1>5

LEMMA LookWeeksStep == ASSUME SeasonInv, NEW c \in Callers, LookWeeks(c) PROVE SeasonInv'
<1>1. /\ SeasonTypes /\ GoodEntries /\ now \in Nat /\ live \in Nat /\ live \in Known
      /\ GameweeksTTL \in Nat /\ gameweeks \in Entries \cup {None}
      /\ op[c].pc = "weeks" /\ UNCHANGED <<now, live, nextKey, picks, rolled>>
  BY GameWeeksAssumption DEF SeasonInv, SeasonTypes, LookWeeks, Weeks, Known
<1>2. CASE Fresh(gameweeks)
  <2>1. /\ gameweeks # None /\ now <= gameweeks.expires
        /\ gameweeks.value \in Nat /\ gameweeks.expires \in Nat
    BY <1>1, <1>2 DEF Fresh, Entries
  <2>2. Recent(gameweeks.value, now, GameweeksTTL)
    BY <1>1, <2>1, RecentSooner DEF GoodEntries
  <2>3. AfterWeeks(c, gameweeks.value) /\ gameweeks' = gameweeks
    BY <1>2 DEF LookWeeks
  <2>4. GoodEntries'
    BY <1>1, <2>3, EntriesStay
  <2> QED  BY <1>1, <2>1, <2>2, <2>3, <2>4, AfterWeeksMoves
<1>3. CASE ~Fresh(gameweeks)
  <2>1. AfterWeeks(c, live) /\ gameweeks' \in {gameweeks, Entry(live, GameweeksTTL)}
    BY <1>3 DEF LookWeeks
  <2>2. /\ Entry(live, GameweeksTTL) \in Entries
        /\ Entry(live, GameweeksTTL).value = live
        /\ Entry(live, GameweeksTTL).expires = now + GameweeksTTL
    BY <1>1, NewEntry
  <2>3. Recent(live, now, GameweeksTTL) /\ Recent(live, now + GameweeksTTL, GameweeksTTL)
    BY <1>1 DEF Recent, CurrentWithin
  <2>4. GoodEntries'
    <3>1. CASE gameweeks' = gameweeks
      BY <1>1, <3>1, EntriesStay
    <3>2. CASE gameweeks' = Entry(live, GameweeksTTL)
      BY <1>1, <2>2, <2>3, <3>2 DEF GoodEntries, Recent, Known, CurrentWithin
    <3> QED  BY <2>1, <3>1, <3>2
  <2>5. gameweeks' \in Entries \cup {None}
    BY <1>1, <2>1, <2>2
  <2> QED  BY <1>1, <2>1, <2>3, <2>4, <2>5, AfterWeeksMoves
<1> QED  BY <1>2, <1>3

LEMMA DeriveStep == ASSUME SeasonInv, NEW c \in Callers, Derive(c) PROVE SeasonInv'
<1>1. /\ SeasonTypes /\ GoodEntries /\ now \in Nat /\ op[c] \in Calls /\ GoodCall(op[c])
      /\ GameweeksTTL \in Nat /\ nextKey \in Entries \cup {None}
      /\ UNCHANGED <<now, live, gameweeks, picks, rolled>>
  BY GameWeeksAssumption DEF SeasonInv, SeasonTypes, Derive
<1> DEFINE g == op[c].week
<1>2. /\ op[c].pc = "derive" /\ op[c].asked = now /\ op[c].method = "next"
      /\ Recent(g, now, GameweeksTTL) /\ g \in Known
  BY <1>1 DEF Derive, GoodCall, Active, Recent
<1>3. g \in Nat /\ g + 1 \in Nat /\ (g + 1) - 1 = g
  BY <1>1, <1>2 DEF Known, SeasonTypes, Weeks
<1>4. /\ Recent(g, now, 2 * GameweeksTTL)
      /\ Recent(g, now + GameweeksTTL, 2 * GameweeksTTL)
      /\ now + GameweeksTTL <= now + GameweeksTTL
  <2>1. g \in Known /\ (g = live \/ now <= rolled[g + 1] + GameweeksTTL)
    BY <1>2 DEF Recent, CurrentWithin
  <2>2. g # live => rolled[g + 1] \in Nat
    <3>1. g \in 1 .. live /\ live \in 1 .. LastGameweek /\ LastGameweek \in Nat
      BY <1>1, <1>2, GameWeeksAssumption DEF SeasonTypes, Weeks, Known
    <3>2. g # live => g + 1 \in Weeks
      BY <3>1 DEF Weeks
    <3> QED  BY <1>1, <3>2 DEF SeasonTypes
  <2> QED  BY <1>1, <1>3, <2>1, <2>2 DEF Recent, CurrentWithin
<1> DEFINE o == [op[c] EXCEPT !.pc = "done", !.answer = g + 1]
           e == Entry(g + 1, GameweeksTTL)
<1>5. /\ o \in Calls /\ o.pc = "done" /\ o.answer = g + 1 /\ o.asked = now /\ o.method = "next"
  BY <1>1, <1>2, <1>3 DEF Calls
<1>6. e \in Entries /\ e.value = g + 1 /\ e.expires = now + GameweeksTTL
  BY <1>1, <1>3, NewEntry
<1>7. op' = [op EXCEPT ![c] = o] /\ nextKey' \in {nextKey, e}
  BY DEF Derive
<1> HIDE DEF g, o, e
<1>8. GoodCall(o)
  BY <1>1, <1>3, <1>4, <1>5 DEF GoodCall, Active
<1>9. GoodEntries'
  <2>1. CASE nextKey' = nextKey
    BY <1>1, <2>1, EntriesStay
  <2>2. CASE nextKey' = e
    <3>1. /\ nextKey'.value - 1 = g /\ nextKey'.expires = now + GameweeksTTL
      BY <1>3, <1>6, <2>2
    <3>2. (/\ nextKey.value - 1 \in Known
           /\ nextKey.expires <= now + GameweeksTTL
           /\ Recent(nextKey.value - 1, nextKey.expires, 2 * GameweeksTTL))'
      BY <1>1, <1>2, <1>4, <3>1 DEF Recent, Known, CurrentWithin
    <3> QED  BY <1>1, <3>2 DEF GoodEntries, Recent, Known, CurrentWithin
  <2> QED  BY <1>7, <2>1, <2>2
<1> QED  BY <1>1, <1>5, <1>6, <1>7, <1>8, <1>9, CallerMoves DEF SeasonTypes

LEMMA LookPicksStep == ASSUME SeasonInv, NEW c \in Callers, LookPicks(c) PROVE SeasonInv'
<1>1. /\ SeasonTypes /\ GoodEntries /\ now \in Nat /\ op[c] \in Calls /\ GoodCall(op[c])
      /\ ManagerTTL \in Nat /\ picks \in [Weeks -> Entries \cup {None}]
      /\ UNCHANGED <<now, live, gameweeks, nextKey, rolled>>
  BY GameWeeksAssumption DEF SeasonInv, SeasonTypes, LookPicks
<1> DEFINE g == op[c].week
           o == [op[c] EXCEPT !.pc = "done", !.answer = g]
           e == Entry(g, ManagerTTL)
<1>2. /\ op[c].pc = "picks" /\ op[c].asked = now /\ op[c].method = "team"
      /\ Recent(g, now, GameweeksTTL)
  BY <1>1 DEF LookPicks, GoodCall, Active
<1>3. g \in Weeks /\ g \in Nat
  BY <1>1, <1>2, GameWeeksAssumption DEF Recent, Known, SeasonTypes, Weeks
<1>4. /\ o \in Calls /\ o.pc = "done" /\ o.answer = g /\ o.asked = now /\ o.method = "team"
  BY <1>1, <1>2, <1>3 DEF Calls
<1>5. e \in Entries /\ e.value = g
  BY <1>1, <1>3, NewEntry
<1>6. /\ op' = [op EXCEPT ![c] = o]
      /\ picks' \in {picks, [picks EXCEPT ![g] = e]}
  <2>1. Fresh(picks[g]) => picks[g].value = g
    BY <1>1, <1>3 DEF GoodEntries, Fresh
  <2> QED  BY <2>1 DEF LookPicks, PicksKey
<1> HIDE DEF g, o, e
<1>7. GoodCall(o)
  BY <1>1, <1>2, <1>4 DEF GoodCall, Active
<1>8. /\ picks' \in [Weeks -> Entries \cup {None}]
      /\ \A h \in Weeks : picks'[h] = picks[h] \/ (picks'[h] = e /\ h = g)
  BY <1>1, <1>3, <1>5, <1>6
<1>9. GoodEntries'
  BY <1>1, <1>5, <1>8 DEF GoodEntries, Recent, Known, CurrentWithin
<1> QED  BY <1>1, <1>4, <1>6, <1>7, <1>8, <1>9, CallerMoves DEF SeasonTypes

\* The rollover and the clock.
LEMMA WorldStep == ASSUME SeasonInv, Rollover \/ Tick PROVE SeasonInv'
<1>1. /\ SeasonTypes /\ GoodEntries /\ now \in Nat /\ now' \in Nat /\ now <= now'
      /\ UNCHANGED <<gameweeks, nextKey, picks, op>>
  BY DEF SeasonInv, SeasonTypes, Rollover, Tick
<1>2. (live' = live /\ rolled' = rolled) \/ Rollover
  BY DEF Tick
<1>3. SeasonTypes'
  <2>1. live' \in Weeks /\ rolled' \in [Weeks -> Nat]
    <3>1. CASE Rollover
      <4>1. live + 1 \in Weeks /\ rolled' = [rolled EXCEPT ![live + 1] = now] /\ live' = live + 1
        BY <1>1, <3>1, GameWeeksAssumption DEF Rollover, SeasonTypes, Weeks
      <4> QED  BY <1>1, <4>1 DEF SeasonTypes
    <3>2. CASE live' = live /\ rolled' = rolled
      BY <1>1, <3>2 DEF SeasonTypes
    <3> QED  BY <1>2, <3>1, <3>2
  <2> QED  BY <1>1, <2>1 DEF SeasonTypes
<1>4. GoodEntries'
  BY <1>1, <1>2, EntriesStay
<1>5. ASSUME NEW c \in Callers PROVE GoodCall(op[c])'
  <2>1. op[c].pc \in Active => now' = now
    BY DEF Rollover, Tick
  <2>2. op[c] \in Calls /\ GoodCall(op[c])
    BY DEF SeasonInv, SeasonTypes
  <2>3. \A o \in Calls : GoodCall(o) /\ (o.pc \in Active => now' = now) => GoodCall(o)'
    BY <1>1, <1>2, StaysGood
  <2> QED  BY <1>1, <2>1, <2>2, <2>3
<1> QED  BY <1>3, <1>4, <1>5 DEF SeasonInv

LEMMA SeasonInductive == SeasonInv /\ [SeasonNext]_seasonVars => SeasonInv'
<1> SUFFICES ASSUME SeasonInv, [SeasonNext]_seasonVars PROVE SeasonInv'
  OBVIOUS
<1>1. CASE UNCHANGED seasonVars
  BY <1>1 DEF seasonVars, SeasonInv, SeasonTypes, GoodEntries, GoodCall, Recent, Known,
              CurrentWithin
<1>2. CASE SeasonNext
  BY <1>2, CallStep, FailStep, LookNextStep, LookWeeksStep, DeriveStep, LookPicksStep, WorldStep
     DEF SeasonNext
<1> QED  BY <1>1, <1>2

\* However long the picks stay fresh and whichever calls filled the cache, a caller is told
\* of a rollover within the time-to-live of the gameweeks, and within two of them by
\* GetNextGameWeek, whose entry is filled from a list at the end of its own.
THEOREM RolloverSeen == SeasonSpec => []RolloverDetected
<1>1. SeasonInv => RolloverDetected
  <2> SUFFICES ASSUME SeasonInv, NEW c \in Callers
               PROVE  /\ Told(c, {"current", "team"}) =>
                           CurrentWithin(op[c].answer, op[c].asked, GameweeksTTL)
                      /\ Told(c, {"next"}) =>
                           CurrentWithin(op[c].answer - 1, op[c].asked, 2 * GameweeksTTL)
    BY DEF RolloverDetected
  <2> QED  BY DEF SeasonInv, GoodCall, Told, Recent
<1> QED  BY <1>1, SeasonStarts, SeasonInductive, PTL DEF SeasonSpec
=============================================================================
