---------------------------- MODULE BootstrapProofs ----------------------------
(***************************************************************************)
(* Proofs about Bootstrap.tla, for every number of callers, stores,        *)
(* sections and downloads: one caller at a time holds the gate, data never *)
(* goes back, in a store or for a caller, and what one caller downloaded   *)
(* the others do not download again.  Everything rests on the gate: only   *)
(* its owner downloads and writes.                                         *)
(***************************************************************************)
EXTENDS Bootstrap, TLAPS

\* The calls that still use their section and their store.
Running == Active \ {"release"}

\* A call in progress knows what it looks for and where.
Located == \A c \in Callers : op[c].pc \in Running => /\ op[c].section \in Sections
                                                      /\ op[c].store \in Stores

\* Only the owner of the gate downloads: what it warms with is the newest payload.
Newest == \A c \in Callers : op[c].pc = "warm" => op[c].payload = downloads /\ downloads > 0

TypeInv == TypeOK /\ Located /\ GateOwned /\ Newest

-----------------------------------------------------------------------------
LEMMA RecordTypes == ASSUME BootstrapAssumption
                     PROVE  /\ NoCall \in CallRecord
                            /\ None \notin Numbers
                            /\ Len(SectionOrder) \in Nat
                            /\ \A i \in 1 .. Len(SectionOrder) : SectionOrder[i] \in Sections
<1>1. Len(SectionOrder) \in Nat /\ DOMAIN SectionOrder = 1 .. Len(SectionOrder)
  BY DEF BootstrapAssumption
<1>2. NoCall \in CallRecord
  BY <1>1 DEF NoCall, CallRecord, PCs, BootstrapAssumption
<1>3. None \notin Numbers
  BY DEF Numbers, BootstrapAssumption
<1> QED
  BY <1>1, <1>2, <1>3 DEF Sections

\* What returning leaves behind.
LEMMA ReturnEffect ==
  ASSUME BootstrapAssumption, op \in [Callers -> CallRecord], NEW c \in Callers,
         NEW v \in Numbers \cup {None}, NEW place \in {"release", "done"}, Return(c, v, place)
  PROVE  /\ op' \in [Callers -> CallRecord]
         /\ op'[c].pc = place /\ op'[c].value = v
         /\ op'[c].floor = (IF v = None THEN None ELSE op[c].floor)
         /\ \A d \in Callers \ {c} : op'[d] = op[d]
<1> DEFINE f == IF v = None THEN None ELSE op[c].floor
           r == [NoCall EXCEPT !.pc = place, !.value = v, !.floor = f]
<1>1. f \in Numbers \cup {None} /\ place \in PCs
  BY DEF CallRecord, PCs, Active, Holding
<1>0. op' = [op EXCEPT ![c] = r] /\ f = (IF v = None THEN None ELSE op[c].floor)
  BY DEF Return
<1> HIDE DEF f
<1>2. r \in CallRecord /\ r.pc = place /\ r.value = v /\ r.floor = f
  <2>1. NoCall \in CallRecord
    BY RecordTypes
  <2> QED
    BY <1>1, <2>1 DEF CallRecord
<1> HIDE DEF r
<1> QED
  BY <1>0, <1>2

LEMMA TypeInit == ASSUME BootstrapAssumption PROVE Init => TypeInv
<1> SUFFICES ASSUME Init PROVE TypeInv
  OBVIOUS
<1>1. op \in [Callers -> CallRecord] /\ \A c \in Callers : op[c].pc = "idle"
  BY RecordTypes DEF Init, NoCall
<1>2. TypeOK
  BY <1>1, RecordTypes DEF Init, TypeOK, BootstrapAssumption
<1> QED
  BY <1>1, <1>2 DEF Init, TypeInv, Located, GateOwned, Newest, Running, Active, Holding

-----------------------------------------------------------------------------
\* A step of one caller that neither takes nor frees the gate, nor ends a download.
LEMMA Moved ==
  ASSUME TypeInv, NEW c \in Callers, op' \in [Callers -> CallRecord],
         \A d \in Callers \ {c} : op'[d] = op[d],
         gate' = gate, downloads' = downloads,
         op'[c].pc \in Holding <=> op[c].pc \in Holding,
         op'[c].pc \in Running => op'[c].section \in Sections /\ op'[c].store \in Stores,
         op'[c].pc = "warm" => op'[c].payload = downloads /\ downloads > 0
  PROVE  Located' /\ GateOwned' /\ Newest'
<1>1. Located'
  BY DEF TypeInv, Located
<1>2. Newest'
  BY DEF TypeInv, Newest
<1>3. \A d \in Callers : op'[d].pc \in Holding <=> op[d].pc \in Holding
  OBVIOUS
<1>4. GateOwned'
  BY <1>3 DEF TypeInv, GateOwned
<1> QED
  BY <1>1, <1>2, <1>4

\* Calling: a new record, with a section and a store.
LEMMA CallStep == ASSUME BootstrapAssumption, TypeInv, NEW c \in Callers, Call(c) PROVE TypeInv'
<1>1. PICK s \in Sections, done \in BOOLEAN :
        op' = [op EXCEPT ![c] = [NoCall EXCEPT
                 !.pc = "first", !.section = s, !.store = CacheFor(c),
                 !.cancelled = done, !.floor = items[CacheFor(c)][s]]]
  BY DEF Call
<1> DEFINE r == [NoCall EXCEPT !.pc = "first", !.section = s, !.store = CacheFor(c),
                               !.cancelled = done, !.floor = items[CacheFor(c)][s]]
<1>2. CacheFor(c) \in Stores
  BY DEF CacheFor, BootstrapAssumption, TypeInv, TypeOK
<1>3. items[CacheFor(c)][s] \in Numbers \cup {None}
  BY <1>2 DEF TypeInv, TypeOK
<1>4. NoCall \in CallRecord /\ "first" \in PCs
  BY RecordTypes DEF PCs, Active
<1>5. r \in CallRecord /\ r.pc = "first" /\ r.section = s /\ r.store = CacheFor(c)
  <2> HIDE DEF CacheFor
  <2> QED
    BY <1>2, <1>3, <1>4 DEF CallRecord
<1> HIDE DEF r
<1>6. op[c].pc \notin Active /\ UNCHANGED <<items, shared, gate, downloads>>
  BY DEF Call
<1>7. op' \in [Callers -> CallRecord] /\ op'[c] = r /\ \A d \in Callers \ {c} : op'[d] = op[d]
  BY <1>1, <1>5 DEF TypeInv, TypeOK, r
<1>8. TypeOK'
  BY <1>6, <1>7 DEF TypeInv, TypeOK
<1>9. Located' /\ GateOwned' /\ Newest'
  BY <1>2, <1>5, <1>6, <1>7, Moved DEF Holding, Active
<1> QED
  BY <1>8, <1>9 DEF TypeInv

\* Leaving without the gate, or going to its release.
LEMMA ReturnStep ==
  ASSUME BootstrapAssumption, TypeInv, NEW c \in Callers, NEW v \in Numbers \cup {None},
         \/ op[c].pc \in {"first", "gate"} /\ Return(c, v, "done")
         \/ op[c].pc \in Holding /\ Return(c, v, "release"),
         shared' = shared, gate' = gate, downloads' = downloads,
         items' \in [Stores -> [Sections -> Numbers \cup {None}]]
  PROVE  TypeInv'
<1>1. PICK place \in {"release", "done"} :
        Return(c, v, place) /\ (place \in Holding <=> op[c].pc \in Holding)
  BY DEF Holding
<1>2. /\ op' \in [Callers -> CallRecord] /\ op'[c].pc = place
      /\ \A d \in Callers \ {c} : op'[d] = op[d]
  BY <1>1, ReturnEffect DEF TypeInv, TypeOK
<1>3. TypeOK'
  BY <1>2 DEF TypeInv, TypeOK
<1>4. Located' /\ GateOwned' /\ Newest'
  BY <1>1, <1>2, Moved DEF Running, Active, Holding
<1> QED
  BY <1>3, <1>4 DEF TypeInv

\* A call goes on: it keeps its section and its store, and the gate if it has it.
LEMMA GoOnStep ==
  ASSUME BootstrapAssumption, TypeInv, NEW c \in Callers,
         op' \in [Callers -> CallRecord], \A d \in Callers \ {c} : op'[d] = op[d],
         op[c].pc \in Running, op'[c].pc \in Running,
         op'[c].pc \in Holding <=> op[c].pc \in Holding,
         op'[c].section = op[c].section, op'[c].store = op[c].store,
         op'[c].pc = "warm" => op[c].pc = "warm" /\ op'[c].payload = op[c].payload,
         shared' = shared, gate' = gate, downloads' = downloads,
         items' \in [Stores -> [Sections -> Numbers \cup {None}]]
  PROVE  TypeInv'
<1>1. TypeOK'
  BY DEF TypeInv, TypeOK
<1>2. /\ op[c].section \in Sections /\ op[c].store \in Stores
      /\ op[c].pc = "warm" => op[c].payload = downloads /\ downloads > 0
  BY DEF TypeInv, Located, Newest
<1>3. Located' /\ GateOwned' /\ Newest'
  BY <1>2, Moved
<1> QED
  BY <1>1, <1>3 DEF TypeInv

LEMMA AcquireStep == ASSUME BootstrapAssumption, TypeInv, NEW c \in Callers, Acquire(c)
                     PROVE TypeInv'
<1> DEFINE r == [op[c] EXCEPT !.pc = "recheck"]
<1>0. /\ op \in [Callers -> CallRecord] /\ op[c] \in CallRecord
      /\ op' = [op EXCEPT ![c] = r] /\ "recheck" \in PCs
  BY DEF Acquire, TypeInv, TypeOK, PCs, Active, Holding
<1>1. r \in CallRecord /\ r.pc = "recheck" /\ r.section = op[c].section /\ r.store = op[c].store
  BY <1>0 DEF CallRecord
<1> HIDE DEF r
<1>2. /\ op' \in [Callers -> CallRecord] /\ \A d \in Callers \ {c} : op'[d] = op[d]
      /\ op'[c].pc = "recheck" /\ op'[c].section = op[c].section /\ op'[c].store = op[c].store
  BY <1>0, <1>1
<1>3. TypeOK'
  BY <1>2 DEF Acquire, TypeInv, TypeOK
<1>4. \A d \in Callers : op[d].pc \notin Holding
  BY DEF Acquire, TypeInv, GateOwned
<1>5. GateOwned'
  BY <1>2, <1>4 DEF Acquire, GateOwned, Holding
<1>6. Located' /\ Newest'
  BY <1>2 DEF TypeInv, Acquire, At, Located, Newest, Running, Active
<1> QED
  BY <1>3, <1>5, <1>6 DEF TypeInv

LEMMA ReleaseStep == ASSUME BootstrapAssumption, TypeInv, NEW c \in Callers, Release(c)
                     PROVE TypeInv'
<1> DEFINE r == [op[c] EXCEPT !.pc = "done"]
<1>0. /\ op \in [Callers -> CallRecord] /\ op[c] \in CallRecord
      /\ op' = [op EXCEPT ![c] = r] /\ "done" \in PCs
  BY DEF Release, TypeInv, TypeOK, PCs
<1>a. r \in CallRecord /\ r.pc = "done"
  BY <1>0 DEF CallRecord
<1> HIDE DEF r
<1>1. /\ op' \in [Callers -> CallRecord] /\ \A d \in Callers \ {c} : op'[d] = op[d]
      /\ op'[c].pc = "done"
  BY <1>0, <1>a
<1>2. op[c].pc \in Holding /\ gate = 1 /\ gate' = 0
  BY DEF Release, At, Holding, TypeInv, GateOwned
<1>3. \A d \in Callers : op'[d].pc \notin Holding
  BY <1>1, <1>2 DEF TypeInv, GateOwned, Holding
<1>4. TypeOK'
  BY <1>1, <1>2 DEF Release, TypeInv, TypeOK
<1>5. GateOwned'
  BY <1>2, <1>3 DEF GateOwned
<1>6. Located' /\ Newest'
  BY <1>1 DEF TypeInv, Release, Located, Newest, Running, Active, Holding
<1> QED
  BY <1>4, <1>5, <1>6 DEF TypeInv

LEMMA FetchedStep == ASSUME BootstrapAssumption, TypeInv, NEW c \in Callers, Fetched(c)
                     PROVE TypeInv'
<1>0. op[c].pc = "inflight" /\ op \in [Callers -> CallRecord]
  BY DEF Fetched, At, TypeInv, TypeOK
<1>1. downloads \in Nat /\ downloads' \in 1 .. MaxDownloads /\ downloads' = downloads + 1
      /\ shared' = shared /\ gate' = gate /\ items' = items
  BY DEF Fetched, TypeInv, TypeOK, BootstrapAssumption
<1>2. \A d \in Callers \ {c} : op[d].pc \notin Holding
  BY <1>0 DEF TypeInv, GateOwned, Holding
<1>3. /\ op' \in [Callers -> CallRecord] /\ \A d \in Callers \ {c} : op'[d] = op[d]
      /\ op'[c].pc \in {"warm", "release"}
      /\ op'[c].pc = "warm" => /\ op'[c].payload = downloads'
                               /\ op'[c].section = op[c].section /\ op'[c].store = op[c].store
  <2>1. PICK present \in SUBSET Sections :
          IF op[c].section \in present
          THEN op' = [op EXCEPT ![c].pc = "warm", ![c].payload = downloads', ![c].present = present]
          ELSE Return(c, None, "release")
    BY DEF Fetched
  <2>2. CASE op[c].section \in present
    <3> DEFINE r == [op[c] EXCEPT !.pc = "warm", !.payload = downloads', !.present = present]
    <3>1. op' = [op EXCEPT ![c] = r]
      BY <2>1, <2>2, <1>0
    <3>2. "warm" \in PCs /\ downloads' \in 0 .. MaxDownloads /\ op[c] \in CallRecord
      BY <1>0, <1>1 DEF PCs, Active, Holding
    <3>3. /\ r \in CallRecord /\ r.pc = "warm" /\ r.payload = downloads'
          /\ r.section = op[c].section /\ r.store = op[c].store
      BY <3>2 DEF CallRecord
    <3> HIDE DEF r
    <3> QED
      BY <3>1, <3>3, <1>0
  <2>3. CASE op[c].section \notin present
    BY <2>1, <2>3, <1>0, ReturnEffect
  <2> QED
    BY <2>2, <2>3
<1>4. TypeOK'
  BY <1>1, <1>3 DEF TypeInv, TypeOK
<1>5. Located'
  BY <1>0, <1>3 DEF TypeInv, Located, Running, Active, Holding
<1>6. Newest'
  BY <1>1, <1>2, <1>3 DEF Newest, Holding
<1>7. GateOwned'
  <2>1. \A d \in Callers : op'[d].pc \in Holding <=> op[d].pc \in Holding
    BY <1>0, <1>3 DEF Holding
  <2> QED
    BY <2>1, <1>1 DEF TypeInv, GateOwned
<1> QED
  BY <1>4, <1>5, <1>6, <1>7 DEF TypeInv
-----------------------------------------------------------------------------
\* Moving on without a return changes the place and at most a counter or a flag.
LEMMA MoveOn ==
  ASSUME BootstrapAssumption, TypeInv, NEW c \in Callers,
         NEW place \in PCs, NEW failed \in BOOLEAN, NEW next \in 1 .. Len(SectionOrder) + 1,
         NEW gone \in BOOLEAN,
         op' = [op EXCEPT ![c] = [op[c] EXCEPT !.pc = place, !.readFailed = failed,
                                               !.next = next, !.cancelled = gone]],
         op[c].pc \in Running, place \in Running,
         place \in Holding <=> op[c].pc \in Holding, place = "warm" => op[c].pc = "warm",
         shared' = shared, gate' = gate, downloads' = downloads,
         items' \in [Stores -> [Sections -> Numbers \cup {None}]]
  PROVE  TypeInv'
<1> DEFINE r == [op[c] EXCEPT !.pc = place, !.readFailed = failed, !.next = next,
                              !.cancelled = gone]
<1>1. op \in [Callers -> CallRecord] /\ op[c] \in CallRecord
  BY DEF TypeInv, TypeOK
<1>2. /\ r \in CallRecord /\ r.pc = place /\ r.section = op[c].section
      /\ r.store = op[c].store /\ r.payload = op[c].payload
  BY <1>1 DEF CallRecord
<1> HIDE DEF r
<1>3. op' = [op EXCEPT ![c] = r]
  BY DEF r
<1>4. op' \in [Callers -> CallRecord] /\ op'[c] = r /\ \A d \in Callers \ {c} : op'[d] = op[d]
  BY <1>1, <1>2, <1>3
<1> QED
  BY <1>2, <1>4, GoOnStep

\* A round of the warming loop: it writes what the caller downloaded, and stays or returns.
LEMMA WarmStep == ASSUME BootstrapAssumption, TypeInv, NEW c \in Callers, Warm(c) PROVE TypeInv'
<1> DEFINE numbers == [Stores -> [Sections -> Numbers \cup {None}]]
<1>1. /\ op \in [Callers -> CallRecord] /\ op[c] \in CallRecord /\ items \in numbers
      /\ op[c].pc = "warm" /\ op[c].store \in Stores
      /\ op[c].next \in 1 .. Len(SectionOrder) /\ Len(SectionOrder) \in Nat
      /\ UNCHANGED <<shared, gate, downloads>>
  <2>1. op \in [Callers -> CallRecord] /\ op[c] \in CallRecord /\ items \in numbers
    BY DEF TypeInv, TypeOK
  <2>2. op[c].pc = "warm" /\ op[c].next <= Len(SectionOrder) /\ UNCHANGED <<shared, gate, downloads>>
    BY DEF Warm, At
  <2>3. Len(SectionOrder) \in Nat /\ op[c].next \in 1 .. Len(SectionOrder) + 1
    BY <2>1, RecordTypes DEF CallRecord
  <2>4. op[c].store \in Stores
    BY <2>2 DEF TypeInv, Located, Running, Active, Holding
  <2> QED
    BY <2>1, <2>2, <2>3, <2>4
<1>2. op[c].payload \in Numbers /\ SectionOrder[op[c].next] \in Sections
  <2>1. op[c].payload \in Numbers
    BY <1>1 DEF TypeInv, TypeOK, Newest, Numbers, BootstrapAssumption
  <2> QED
    BY <1>1, <2>1, RecordTypes
<1>3. /\ items' \in {items, [items EXCEPT ![op[c].store][SectionOrder[op[c].next]] = op[c].payload]}
      /\ Return(c, None, "release") \/ op' = [op EXCEPT ![c].next = @ + 1]
  BY DEF Warm
<1>4. items' \in numbers
  BY <1>1, <1>2, <1>3
<1>5. CASE Return(c, None, "release")
  BY <1>1, <1>4, <1>5, ReturnStep DEF Holding
<1>6. CASE op' = [op EXCEPT ![c].next = @ + 1]
  <2>1. op' = [op EXCEPT ![c] = [op[c] EXCEPT !.pc = "warm", !.readFailed = op[c].readFailed,
                                              !.next = op[c].next + 1,
                                              !.cancelled = op[c].cancelled]]
    BY <1>1, <1>6 DEF CallRecord
  <2>2. op[c].readFailed \in BOOLEAN /\ op[c].cancelled \in BOOLEAN
    BY <1>1 DEF CallRecord
  <2>3. op[c].next + 1 \in 1 .. Len(SectionOrder) + 1
    BY <1>1
  <2>4. "warm" \in PCs /\ "warm" \in Running
    BY DEF PCs, Running, Active, Holding
  <2> HIDE DEF numbers
  <2> QED
    BY <1>1, <1>4, <2>1, <2>2, <2>3, <2>4, MoveOn DEF numbers
<1> QED
  BY <1>3, <1>5, <1>6

LEMMA TypeStep == ASSUME BootstrapAssumption, TypeInv, [Next]_vars PROVE TypeInv'
<1> DEFINE same == UNCHANGED <<items, shared, gate, downloads>>
<1>0. /\ op \in [Callers -> CallRecord] /\ None \in Numbers \cup {None}
      /\ items \in [Stores -> [Sections -> Numbers \cup {None}]]
  BY DEF TypeInv, TypeOK
<1>1. \A c \in Callers : op[c].pc \in Running => Found(c) \subseteq Numbers \cup {None}
  BY <1>0 DEF TypeInv, Located, Found
<1>2. \A c \in Callers : /\ op[c].readFailed \in BOOLEAN /\ op[c].cancelled \in BOOLEAN
                         /\ op[c].next \in 1 .. Len(SectionOrder) + 1
                         /\ op[c].payload \in 0 .. MaxDownloads
  BY <1>0 DEF CallRecord
<1>a. /\ {"gate", "fetch", "inflight", "hung"} \subseteq PCs \cap Running
      /\ "gate" \notin Holding /\ "first" \notin Holding
      /\ {"fetch", "inflight", "hung"} \subseteq Holding
  BY DEF PCs, Running, Active, Holding
<1>3. ASSUME NEW c \in Callers, Call(c) PROVE TypeInv'
  BY <1>3, CallStep
<1>4. ASSUME NEW c \in Callers, Cancel(c) PROVE TypeInv'
  <2>1. /\ op' = [op EXCEPT ![c] = [op[c] EXCEPT !.pc = op[c].pc, !.readFailed = op[c].readFailed,
                                                 !.next = op[c].next, !.cancelled = TRUE]]
        /\ op[c].pc \in Running /\ op[c].pc \in PCs /\ same
    BY <1>0, <1>4 DEF Cancel, Running, PCs, CallRecord
  <2> QED
    BY <1>0, <1>2, <2>1, MoveOn
<1>5. ASSUME NEW c \in Callers, FirstLook(c) PROVE TypeInv'
  <2>0. op[c].pc = "first" /\ op[c].pc \in Running /\ same
    BY <1>5 DEF FirstLook, At, Running, Active
  <2>1. CASE Return(c, None, "done") \/ \E v \in Found(c) : Return(c, v, "done")
    BY <1>0, <1>1, <2>0, <2>1, ReturnStep
  <2>2. CASE op' = [op EXCEPT ![c].pc = "gate"]
    <3>1. op' = [op EXCEPT ![c] = [op[c] EXCEPT !.pc = "gate", !.readFailed = op[c].readFailed,
                                                !.next = op[c].next, !.cancelled = op[c].cancelled]]
      BY <1>0, <2>2 DEF CallRecord
    <3> QED
      BY <1>0, <1>2, <2>0, <3>1, <1>a, MoveOn
  <2> QED
    BY <1>5, <2>1, <2>2 DEF FirstLook
<1>6. ASSUME NEW c \in Callers, SecondLook(c) PROVE TypeInv'
  <2>0. op[c].pc = "recheck" /\ op[c].pc \in Running /\ op[c].pc \in Holding /\ same
    BY <1>6 DEF SecondLook, At, Running, Active, Holding
  <2>1. CASE Return(c, None, "release") \/ \E v \in Found(c) : Return(c, v, "release")
    BY <1>0, <1>1, <2>0, <2>1, ReturnStep
  <2>2. CASE op' = [op EXCEPT ![c].pc = "fetch",
                              ![c].readFailed = items[op[c].store][op[c].section] # None]
    <3> DEFINE failed == items[op[c].store][op[c].section] # None
    <3>1. op' = [op EXCEPT ![c] = [op[c] EXCEPT !.pc = "fetch", !.readFailed = failed,
                                                !.next = op[c].next, !.cancelled = op[c].cancelled]]
      BY <1>0, <2>2 DEF CallRecord
    <3>2. failed \in BOOLEAN
      OBVIOUS
    <3> HIDE DEF failed
    <3> QED
      BY <1>0, <1>2, <2>0, <3>1, <3>2, <1>a, MoveOn
  <2> QED
    BY <1>6, <2>1, <2>2 DEF SecondLook
<1>7. ASSUME NEW c \in Callers, Request(c) PROVE TypeInv'
  <2>0. op[c].pc = "fetch" /\ op[c].pc \in Running /\ op[c].pc \in Holding /\ same
    BY <1>7 DEF Request, At, Running, Active, Holding
  <2>1. CASE Return(c, None, "release")
    BY <1>0, <2>0, <2>1, ReturnStep
  <2>2. CASE op' = [op EXCEPT ![c].pc = "inflight", ![c].readFailed = FALSE]
    <3>1. op' = [op EXCEPT ![c] = [op[c] EXCEPT !.pc = "inflight", !.readFailed = FALSE,
                                                !.next = op[c].next, !.cancelled = op[c].cancelled]]
      BY <1>0, <2>2 DEF CallRecord
    <3> QED
      BY <1>0, <1>2, <2>0, <3>1, <1>a, MoveOn
  <2> QED
    BY <1>7, <2>1, <2>2 DEF Request
<1>8. ASSUME NEW c \in Callers, Hang(c) PROVE TypeInv'
  <2>0. op[c].pc = "inflight" /\ op[c].pc \in Running /\ op[c].pc \in Holding /\ same
    BY <1>8 DEF Hang, At, Running, Active, Holding
  <2>1. op' = [op EXCEPT ![c] = [op[c] EXCEPT !.pc = "hung", !.readFailed = op[c].readFailed,
                                              !.next = op[c].next, !.cancelled = op[c].cancelled]]
    BY <1>0, <1>8 DEF Hang, CallRecord
  <2> QED
    BY <1>0, <1>2, <2>0, <2>1, <1>a, MoveOn
<1>9. ASSUME NEW c \in Callers, LeaveQueue(c) \/ FetchFails(c) \/ HangEnds(c) PROVE TypeInv'
  <2>1. /\ \/ op[c].pc \in {"first", "gate"} /\ Return(c, None, "done")
           \/ op[c].pc \in Holding /\ Return(c, None, "release")
        /\ same
    BY <1>9 DEF LeaveQueue, FetchFails, HangEnds, At, Holding
  <2> QED
    BY <1>0, <2>1, ReturnStep
<1>10. ASSUME NEW c \in Callers, Warm(c) PROVE TypeInv'
  BY <1>0, <1>2, <1>10, WarmStep
<1>11. ASSUME NEW c \in Callers, Warmed(c) PROVE TypeInv'
  <2>1. op[c].pc = "warm" /\ Return(c, op[c].payload, "release") /\ same
    BY <1>11 DEF Warmed, At
  <2>2. op[c].payload \in Numbers /\ op[c].pc \in Holding
    BY <2>1 DEF TypeInv, TypeOK, Newest, Numbers, Holding, BootstrapAssumption
  <2> QED
    BY <1>0, <2>1, <2>2, ReturnStep
<1>12. ASSUME NEW c \in Callers, Acquire(c) \/ Release(c) \/ Fetched(c) PROVE TypeInv'
  BY <1>12, AcquireStep, ReleaseStep, FetchedStep
<1>13. CASE Expire
  <2>1. items' \in [Stores -> [Sections -> Numbers \cup {None}]]
    BY <1>0, <1>13 DEF Expire
  <2> QED
    BY <1>13, <2>1 DEF Expire, TypeInv, TypeOK, Located, GateOwned, Newest
<1>14. CASE SetSharedCache
  BY <1>14 DEF SetSharedCache, TypeInv, TypeOK, Located, GateOwned, Newest
<1>15. CASE UNCHANGED vars
  BY <1>15 DEF vars, TypeInv, TypeOK, Located, GateOwned, Newest
<1> HIDE DEF same
<1> QED
  BY <1>3, <1>4, <1>5, <1>6, <1>7, <1>8, <1>9, <1>10, <1>11, <1>12, <1>13, <1>14, <1>15
  DEF Next, GoOn

LEMMA TypeAlways == Spec => []TypeInv
<1>1. Init => TypeInv
  BY BootstrapAssumption, TypeInit
<1>2. TypeInv /\ [Next]_vars => TypeInv'
  BY BootstrapAssumption, TypeStep
<1> QED
  BY <1>1, <1>2, PTL DEF Spec

\* The gate of bootstrapSection is full exactly while one caller is past its acquisition,
\* for every number of callers, stores and sections: no error path and no cancellation
\* strands it, and two downloads are never in flight.
THEOREM GateSafe == Spec => [](TypeOK /\ GateOwned)
<1>1. TypeInv => TypeOK /\ GateOwned
  BY DEF TypeInv
<1> QED
  BY <1>1, TypeAlways, PTL

-----------------------------------------------------------------------------
\* What is stored comes from the downloads so far; a running call would be served nothing
\* older than what its store held when it was made, and one that is over was not.
Fresh ==
  /\ \A st \in Stores, s \in Sections : items[st][s] # None => items[st][s] <= downloads
  /\ \A c \in Callers : op[c].pc \in Running /\ op[c].floor # None =>
       /\ op[c].floor <= downloads
       /\ items[op[c].store][op[c].section] # None
            => items[op[c].store][op[c].section] >= op[c].floor
  /\ \A c \in Callers :
       op[c].pc \in {"release", "done"} /\ op[c].value # None /\ op[c].floor # None
         => op[c].value >= op[c].floor

\* What a step can do to the stores: nothing, removals, or data of the newest download.
Written == /\ downloads' \in Nat /\ downloads' >= downloads
           /\ \A st \in Stores, s \in Sections : items'[st][s] \in {items[st][s], None, downloads}

\* What a step can do to a call: it goes on, starts, returns, or stays over.
Stays(c) == /\ op[c].pc \in Running /\ op'[c].pc \in Running
            /\ op'[c].section = op[c].section /\ op'[c].store = op[c].store
            /\ op'[c].floor = op[c].floor
Starts(c) == /\ op'[c].pc = "first" /\ op'[c].store \in Stores /\ op'[c].section \in Sections
             /\ op'[c].floor = items[op'[c].store][op'[c].section]
             /\ items' = items
Returns(c) == /\ op[c].pc \in Running /\ op'[c].pc \in {"release", "done"}
              /\ op'[c].floor \in {None, op[c].floor}
              /\ op'[c].value \in {None, items[op[c].store][op[c].section]} \cup
                                  {n \in {op[c].payload} : op[c].pc = "warm"}
IsOver(c) == /\ op'[c].pc \notin Running
             /\ op'[c].pc \in {"release", "done"} => op[c].pc \in {"release", "done"}
             /\ op'[c].value = op[c].value /\ op'[c].floor = op[c].floor
Effect(c) == Stays(c) \/ Starts(c) \/ Returns(c) \/ IsOver(c)

LEMMA WrittenStep == ASSUME BootstrapAssumption, TypeInv, [Next]_vars PROVE Written
<1>0. downloads \in Nat /\ items \in [Stores -> [Sections -> Numbers \cup {None}]]
  BY DEF TypeInv, TypeOK, BootstrapAssumption
<1>1. ASSUME NEW c \in Callers, Warm(c) PROVE Written
  <2>1. /\ op[c].payload = downloads /\ downloads' = downloads
        /\ items' \in {items, [items EXCEPT ![op[c].store][SectionOrder[op[c].next]] = op[c].payload]}
    BY <1>1 DEF Warm, At, TypeInv, Newest
  <2> QED
    BY <1>0, <2>1 DEF Written
<1>2. ASSUME NEW c \in Callers, Fetched(c) PROVE Written
  BY <1>0, <1>2 DEF Written, Fetched
<1>3. CASE Expire
  BY <1>0, <1>3 DEF Written, Expire
<1>4. ASSUME items' = items, downloads' = downloads PROVE Written
  BY <1>0, <1>4 DEF Written
<1>5. CASE SetSharedCache \/ UNCHANGED vars
  BY <1>4, <1>5 DEF SetSharedCache, vars
<1>6. ASSUME NEW c \in Callers,
             \/ Call(c) \/ Cancel(c) \/ FirstLook(c) \/ SecondLook(c) \/ Request(c) \/ HangEnds(c)
             \/ Warmed(c) \/ Release(c) \/ Acquire(c) \/ LeaveQueue(c) \/ FetchFails(c) \/ Hang(c)
      PROVE  items' = items /\ downloads' = downloads
  BY <1>6 DEF Call, Cancel, FirstLook, SecondLook, Request, HangEnds, Warmed, Release, Acquire,
              LeaveQueue, FetchFails, Hang
<1> QED
  BY <1>1, <1>2, <1>3, <1>4, <1>5, <1>6 DEF Next, GoOn

\* Whoever is left alone stays as it is.
LEMMA Alone == ASSUME NEW d \in Callers, op'[d] = op[d] PROVE Effect(d)
<1> QED
  BY DEF Effect, Stays, IsOver

\* A running call that changes neither its section, its store nor its floor goes on.
LEMMA EffectOfMove ==
  ASSUME TypeInv, NEW c \in Callers, NEW r \in CallRecord, op' = [op EXCEPT ![c] = r],
         op[c].pc \in Running, r.pc \in Running, r.section = op[c].section,
         r.store = op[c].store, r.floor = op[c].floor
  PROVE  \A d \in Callers : Effect(d)
<1>1. op'[c] = r /\ \A d \in Callers \ {c} : op'[d] = op[d]
  BY DEF TypeInv, TypeOK
<1> QED
  BY <1>1, Alone DEF Effect, Stays

LEMMA EffectOfReturn ==
  ASSUME BootstrapAssumption, TypeInv, NEW c \in Callers, op[c].pc \in Running,
         NEW v \in {None, items[op[c].store][op[c].section]} \cup
                   {n \in {op[c].payload} : op[c].pc = "warm"},
         NEW place \in {"release", "done"}, Return(c, v, place)
  PROVE  \A d \in Callers : Effect(d)
<1>0. op \in [Callers -> CallRecord]
  BY DEF TypeInv, TypeOK
<1>1. v \in Numbers \cup {None}
  <2>1. items[op[c].store][op[c].section] \in Numbers \cup {None}
    BY DEF TypeInv, TypeOK, Located
  <2>2. op[c].pc = "warm" => op[c].payload \in Numbers
    BY DEF TypeInv, TypeOK, Newest, Numbers, BootstrapAssumption
  <2> QED
    BY <2>1, <2>2
<1>2. /\ op'[c].pc = place /\ op'[c].value = v
      /\ op'[c].floor \in {None, op[c].floor}
      /\ \A d \in Callers \ {c} : op'[d] = op[d]
  BY <1>0, <1>1, ReturnEffect
<1>3. Returns(c)
  BY <1>2 DEF Returns
<1> QED
  BY <1>2, <1>3, Alone DEF Effect

\* One field or a few: what moves a running call without returning from it.
LEMMA EffectOfFields ==
  ASSUME TypeInv, NEW c \in Callers, op[c].pc \in Running,
         NEW place \in PCs \cap Running,
         \/ op' = [op EXCEPT ![c].cancelled = TRUE]
         \/ op' = [op EXCEPT ![c].pc = place]
         \/ \E failed \in BOOLEAN : op' = [op EXCEPT ![c].pc = place, ![c].readFailed = failed]
         \/ op[c].next + 1 \in 1 .. Len(SectionOrder) + 1 /\ op' = [op EXCEPT ![c].next = @ + 1]
         \/ \E present \in SUBSET Sections, n \in 0 .. MaxDownloads :
              op' = [op EXCEPT ![c].pc = place, ![c].payload = n, ![c].present = present]
  PROVE  \A d \in Callers : Effect(d)
<1> DEFINE Kept(r) == /\ r.pc \in Running /\ r.section = op[c].section
                      /\ r.store = op[c].store /\ r.floor = op[c].floor
<1>1. op \in [Callers -> CallRecord] /\ op[c] \in CallRecord
  BY DEF TypeInv, TypeOK
<1>2. CASE op' = [op EXCEPT ![c].cancelled = TRUE]
  <2> DEFINE r == [op[c] EXCEPT !.cancelled = TRUE]
  <2>1. r \in CallRecord /\ Kept(r)
    BY <1>1 DEF CallRecord
  <2>2. op' = [op EXCEPT ![c] = r]
    BY <1>1, <1>2
  <2> HIDE DEF r
  <2> QED
    BY <2>1, <2>2, EffectOfMove
<1>3. CASE op' = [op EXCEPT ![c].pc = place]
  <2> DEFINE r == [op[c] EXCEPT !.pc = place]
  <2>1. r \in CallRecord /\ Kept(r)
    BY <1>1 DEF CallRecord
  <2>2. op' = [op EXCEPT ![c] = r]
    BY <1>1, <1>3
  <2> HIDE DEF r
  <2> QED
    BY <2>1, <2>2, EffectOfMove
<1>4. ASSUME NEW failed \in BOOLEAN, op' = [op EXCEPT ![c].pc = place, ![c].readFailed = failed]
      PROVE  \A d \in Callers : Effect(d)
  <2> DEFINE r == [op[c] EXCEPT !.pc = place, !.readFailed = failed]
  <2>1. r \in CallRecord /\ Kept(r)
    BY <1>1 DEF CallRecord
  <2>2. op' = [op EXCEPT ![c] = r]
    BY <1>1, <1>4
  <2> HIDE DEF r
  <2> QED
    BY <2>1, <2>2, EffectOfMove
<1>5. ASSUME op[c].next + 1 \in 1 .. Len(SectionOrder) + 1, op' = [op EXCEPT ![c].next = @ + 1]
      PROVE  \A d \in Callers : Effect(d)
  <2> DEFINE r == [op[c] EXCEPT !.next = op[c].next + 1]
  <2>1. r \in CallRecord /\ Kept(r)
    BY <1>1, <1>5 DEF CallRecord
  <2>2. op' = [op EXCEPT ![c] = r]
    BY <1>1, <1>5
  <2> HIDE DEF r
  <2> QED
    BY <2>1, <2>2, EffectOfMove
<1>6. ASSUME NEW present \in SUBSET Sections, NEW n \in 0 .. MaxDownloads,
             op' = [op EXCEPT ![c].pc = place, ![c].payload = n, ![c].present = present]
      PROVE  \A d \in Callers : Effect(d)
  <2> DEFINE r == [op[c] EXCEPT !.pc = place, !.payload = n, !.present = present]
  <2>1. r \in CallRecord /\ Kept(r)
    BY <1>1 DEF CallRecord
  <2>2. op' = [op EXCEPT ![c] = r]
    BY <1>1, <1>6
  <2> HIDE DEF r
  <2> QED
    BY <2>1, <2>2, EffectOfMove
<1> QED
  BY <1>2, <1>3, <1>4, <1>5, <1>6

LEMMA EffectStep == ASSUME BootstrapAssumption, TypeInv, [Next]_vars
                    PROVE  \A d \in Callers : Effect(d)
<1> DEFINE Goal == \A d \in Callers : Effect(d)
<1>0. op \in [Callers -> CallRecord]
  BY DEF TypeInv, TypeOK
<1>a. {"first", "gate", "fetch", "inflight", "hung", "warm"} \subseteq PCs \cap Running
  BY DEF PCs, Running, Active, Holding
<1>b. Holding \ {"release"} \subseteq Running
  BY DEF Running, Active
<1>1. ASSUME NEW c \in Callers, Call(c) PROVE Goal
  <2>1. PICK s \in Sections, done \in BOOLEAN :
          op' = [op EXCEPT ![c] = [NoCall EXCEPT
                   !.pc = "first", !.section = s, !.store = CacheFor(c),
                   !.cancelled = done, !.floor = items[CacheFor(c)][s]]]
    BY <1>1 DEF Call
  <2>2. CacheFor(c) \in Stores /\ items' = items
    BY <1>1 DEF Call, CacheFor, BootstrapAssumption, TypeInv, TypeOK
  <2>3. Starts(c)
    <3> HIDE DEF CacheFor
    <3> QED
      BY <1>0, <2>1, <2>2 DEF Starts, NoCall
  <2>4. \A d \in Callers \ {c} : op'[d] = op[d]
    BY <1>0, <2>1
  <2> QED
    BY <2>3, <2>4, Alone DEF Effect
<1>2. ASSUME NEW c \in Callers, Cancel(c) PROVE Goal
  <2>1. op[c].pc \in Running /\ op' = [op EXCEPT ![c].cancelled = TRUE]
    BY <1>2 DEF Cancel, Running
  <2> QED
    BY <1>a, <2>1, EffectOfFields
<1>3. ASSUME NEW c \in Callers, FirstLook(c) PROVE Goal
  <2>1. /\ op[c].pc \in Running
        /\ \/ Return(c, None, "done") \/ \E v \in Found(c) : Return(c, v, "done")
           \/ op' = [op EXCEPT ![c].pc = "gate"]
    BY <1>3, <1>a DEF FirstLook, At
  <2> QED
    BY <1>a, <2>1, EffectOfFields, EffectOfReturn DEF Found
<1>4. ASSUME NEW c \in Callers, SecondLook(c) PROVE Goal
  <2>1. /\ op[c].pc \in Running
        /\ \/ Return(c, None, "release") \/ \E v \in Found(c) : Return(c, v, "release")
           \/ \E failed \in BOOLEAN :
                op' = [op EXCEPT ![c].pc = "fetch", ![c].readFailed = failed]
    BY <1>4, <1>b DEF SecondLook, At, Holding
  <2> QED
    BY <1>a, <2>1, EffectOfFields, EffectOfReturn DEF Found
<1>5. ASSUME NEW c \in Callers, Request(c) PROVE Goal
  <2>1. /\ op[c].pc \in Running
        /\ \/ Return(c, None, "release")
           \/ \E failed \in BOOLEAN :
                op' = [op EXCEPT ![c].pc = "inflight", ![c].readFailed = failed]
    BY <1>5, <1>a DEF Request, At
  <2> QED
    BY <1>a, <2>1, EffectOfFields, EffectOfReturn
<1>6. ASSUME NEW c \in Callers, Hang(c) PROVE Goal
  <2>1. op[c].pc \in Running /\ op' = [op EXCEPT ![c].pc = "hung"]
    BY <1>6, <1>a DEF Hang, At
  <2> QED
    BY <1>a, <2>1, EffectOfFields
<1>7. ASSUME NEW c \in Callers, LeaveQueue(c) \/ FetchFails(c) \/ HangEnds(c) PROVE Goal
  <2>1. op[c].pc \in Running /\ \E place \in {"release", "done"} : Return(c, None, place)
    BY <1>7, <1>a DEF LeaveQueue, FetchFails, HangEnds, At
  <2> QED
    BY <2>1, EffectOfReturn
<1>8. ASSUME NEW c \in Callers, Fetched(c) PROVE Goal
  <2>1. PICK present \in SUBSET Sections :
          IF op[c].section \in present
          THEN op' = [op EXCEPT ![c].pc = "warm", ![c].payload = downloads', ![c].present = present]
          ELSE Return(c, None, "release")
    BY <1>8 DEF Fetched
  <2>2. op[c].pc \in Running /\ downloads' \in 0 .. MaxDownloads
    BY <1>8, <1>a DEF Fetched, At, TypeInv, TypeOK, BootstrapAssumption
  <2> QED
    BY <1>a, <2>1, <2>2, EffectOfFields, EffectOfReturn
<1>9. ASSUME NEW c \in Callers, Warm(c) PROVE Goal
  <2>1. /\ op[c].pc \in Running /\ op[c].next <= Len(SectionOrder)
        /\ Return(c, None, "release") \/ op' = [op EXCEPT ![c].next = @ + 1]
    BY <1>9, <1>a DEF Warm, At
  <2>2. op[c].next + 1 \in 1 .. Len(SectionOrder) + 1
    <3>1. op[c].next \in 1 .. Len(SectionOrder) + 1 /\ Len(SectionOrder) \in Nat
      BY <1>0, RecordTypes DEF CallRecord
    <3> QED
      BY <2>1, <3>1
  <2> QED
    BY <1>a, <2>1, <2>2, EffectOfFields, EffectOfReturn
<1>10. ASSUME NEW c \in Callers, Warmed(c) PROVE Goal
  <2>1. op[c].pc = "warm" /\ op[c].pc \in Running /\ Return(c, op[c].payload, "release")
    BY <1>10, <1>a DEF Warmed, At
  <2> QED
    BY <2>1, EffectOfReturn
<1>11. ASSUME NEW c \in Callers, Acquire(c) PROVE Goal
  <2>1. "recheck" \in PCs \cap Running /\ op[c].pc \in Running
        /\ op' = [op EXCEPT ![c].pc = "recheck"]
    BY <1>11, <1>a DEF Acquire, At, PCs, Running, Active, Holding
  <2> QED
    BY <2>1, EffectOfFields
<1>12. ASSUME NEW c \in Callers, Release(c) PROVE Goal
  <2>1. op[c].pc = "release" /\ op[c] \in CallRecord /\ op' = [op EXCEPT ![c].pc = "done"]
    BY <1>0, <1>12 DEF Release, At
  <2>2. /\ op'[c].pc = "done" /\ op'[c].value = op[c].value /\ op'[c].floor = op[c].floor
        /\ \A d \in Callers \ {c} : op'[d] = op[d]
    BY <1>0, <2>1 DEF CallRecord
  <2>3. IsOver(c)
    BY <2>1, <2>2 DEF IsOver, Running, Active, Holding
  <2> QED
    BY <2>2, <2>3, Alone DEF Effect
<1>13. CASE Expire \/ SetSharedCache \/ UNCHANGED vars
  BY <1>13, Alone DEF Expire, SetSharedCache, vars
<1> HIDE DEF Goal
<1> QED
  BY <1>1, <1>2, <1>3, <1>4, <1>5, <1>6, <1>7, <1>8, <1>9, <1>10, <1>11, <1>12, <1>13
  DEF Next, GoOn, Goal

-----------------------------------------------------------------------------
LEMMA FreshInit == ASSUME BootstrapAssumption, Init PROVE Fresh
<1>1. \A c \in Callers : op[c].pc = "idle"
  BY DEF Init, NoCall
<1> QED
  BY <1>1 DEF Init, Fresh, Running, Active, Holding

LEMMA FreshStep == ASSUME BootstrapAssumption, TypeInv, TypeInv', Fresh, Written,
                          \A d \in Callers : Effect(d)
                   PROVE  Fresh'
<1>0. /\ items \in [Stores -> [Sections -> Numbers \cup {None}]]
      /\ items' \in [Stores -> [Sections -> Numbers \cup {None}]]
      /\ op \in [Callers -> CallRecord] /\ op' \in [Callers -> CallRecord]
      /\ downloads \in Nat /\ downloads' \in Nat /\ downloads' >= downloads
      /\ None \notin Numbers /\ Numbers \subseteq Nat
  BY RecordTypes DEF TypeInv, TypeOK, Written, Numbers, BootstrapAssumption
<1>1. \A st \in Stores, s \in Sections : items'[st][s] # None => items'[st][s] <= downloads'
  <2> SUFFICES ASSUME NEW st \in Stores, NEW s \in Sections, items'[st][s] # None
               PROVE  items'[st][s] <= downloads'
    OBVIOUS
  <2>1. items'[st][s] \in {items[st][s], None, downloads} /\ items[st][s] \in Numbers \cup {None}
    BY <1>0 DEF Written
  <2>2. items[st][s] # None => items[st][s] <= downloads
    BY DEF Fresh
  <2>3. CASE items'[st][s] = downloads
    BY <1>0, <2>3
  <2>4. CASE items'[st][s] = items[st][s] /\ items[st][s] # None
    <3>1. items[st][s] \in Nat
      BY <1>0, <2>1, <2>4
    <3> QED
      BY <1>0, <2>2, <2>4, <3>1
  <2> QED
    BY <2>1, <2>3, <2>4
<1>2. ASSUME NEW c \in Callers, op'[c].pc \in Running, op'[c].floor # None
      PROVE  /\ op'[c].floor <= downloads'
             /\ items'[op'[c].store][op'[c].section] # None
                  => items'[op'[c].store][op'[c].section] >= op'[c].floor
  <2> DEFINE st == op'[c].store
             s == op'[c].section
             fl == op'[c].floor
  <2>1. st \in Stores /\ s \in Sections /\ fl \in Numbers
    BY <1>0, <1>2 DEF TypeInv, Located, CallRecord
  <2>2. /\ items'[st][s] \in {items[st][s], None, downloads}
        /\ items[st][s] \in Numbers \cup {None}
    BY <1>0, <2>1 DEF Written
  <2>3. CASE Starts(c)
    <3>1. fl = items[st][s] /\ items' = items
      BY <2>3 DEF Starts
    <3>2. fl <= downloads
      BY <1>2, <2>1, <3>1 DEF Fresh
    <3> HIDE DEF st, s, fl
    <3>3. fl <= downloads' /\ (items'[st][s] # None => items'[st][s] >= fl)
      BY <1>0, <2>1, <3>1, <3>2
    <3> QED
      BY <3>3 DEF st, s, fl
  <2>4. CASE Stays(c)
    <3>1. op[c].store = st /\ op[c].section = s /\ op[c].floor = fl /\ op[c].pc \in Running
      BY <2>4 DEF Stays
    <3>2. fl <= downloads /\ (items[st][s] # None => items[st][s] >= fl)
      BY <1>2, <3>1 DEF Fresh
    <3> HIDE DEF st, s, fl
    <3>3. fl <= downloads' /\ (items'[st][s] # None => items'[st][s] >= fl)
      BY <1>0, <2>1, <2>2, <3>2
    <3> QED
      BY <3>3 DEF st, s, fl
  <2>5. ~Returns(c) /\ ~IsOver(c)
    BY <1>2 DEF Returns, IsOver, Running, Active, Holding
  <2> QED
    BY <2>3, <2>4, <2>5 DEF Effect
<1>3. ASSUME NEW c \in Callers, op'[c].pc \in {"release", "done"},
             op'[c].value # None, op'[c].floor # None
      PROVE  op'[c].value >= op'[c].floor
  <2>1. CASE Returns(c)
    <3>1. /\ op[c].pc \in Running /\ op[c].floor = op'[c].floor /\ op[c].floor # None
          /\ \/ op'[c].value = items[op[c].store][op[c].section]
             \/ op[c].pc = "warm" /\ op'[c].value = op[c].payload
      BY <1>3, <2>1 DEF Returns
    <3>2. /\ op[c].floor <= downloads
          /\ items[op[c].store][op[c].section] # None
               => items[op[c].store][op[c].section] >= op[c].floor
      BY <3>1 DEF Fresh
    <3>3. CASE op'[c].value = items[op[c].store][op[c].section]
      BY <1>3, <3>1, <3>2, <3>3
    <3>4. CASE op[c].pc = "warm" /\ op'[c].value = op[c].payload
      <4>1. op'[c].value = downloads /\ op[c].floor \in Nat
        BY <1>0, <3>1, <3>4 DEF TypeInv, Newest, CallRecord
      <4> QED
        BY <1>0, <3>1, <3>2, <4>1
    <3> QED
      BY <3>1, <3>3, <3>4
  <2>2. CASE IsOver(c)
    BY <1>3, <2>2 DEF IsOver, Fresh
  <2>3. ~Starts(c) /\ ~Stays(c)
    BY <1>3 DEF Starts, Stays, Running, Active, Holding
  <2> QED
    BY <2>1, <2>2, <2>3 DEF Effect
<1> QED
  BY <1>1, <1>2, <1>3 DEF Fresh

LEMMA FreshAlways == Spec => [](TypeInv /\ Fresh)
<1>1. Init => TypeInv /\ Fresh
  BY BootstrapAssumption, TypeInit, FreshInit
<1>2. TypeInv /\ Fresh /\ [Next]_vars => (TypeInv /\ Fresh)'
  BY BootstrapAssumption, TypeStep, WrittenStep, EffectStep, FreshStep
<1> QED
  BY <1>1, <1>2, PTL DEF Spec

\* No call returns data older than what its store held when it was made, whichever of the
\* two looks or the download served it: in particular a caller that waited for the gate is
\* never handed a value that was replaced while it queued.
THEOREM ServesNothingOlder == Spec => []NotOlderThanAtCall
<1>1. Fresh => NotOlderThanAtCall
  BY DEF Fresh, NotOlderThanAtCall, At
<1> QED
  BY <1>1, FreshAlways, PTL

\* Warming never replaces the sections of a later download by those of an earlier one:
\* the gate is held until the last cacheSet, so the writer's payload is the newest.
THEOREM DataForward == Spec => DataNeverGoesBack
<1> DEFINE Forward == \A st \in Stores, s \in Sections :
              items[st][s] # None /\ items'[st][s] # None => items'[st][s] >= items[st][s]
<1>1. TypeInv /\ Fresh /\ [Next]_vars => [Forward]_vars
  <2> SUFFICES ASSUME TypeInv, Fresh, [Next]_vars PROVE Forward
    OBVIOUS
  <2>1. Written
    BY BootstrapAssumption, WrittenStep
  <2>2. /\ items \in [Stores -> [Sections -> Numbers \cup {None}]]
        /\ downloads \in Nat /\ Numbers \subseteq Nat
    BY BootstrapAssumption DEF TypeInv, TypeOK, Numbers, BootstrapAssumption
  <2>3. ASSUME NEW st \in Stores, NEW s \in Sections, items[st][s] # None, items'[st][s] # None
        PROVE  items'[st][s] >= items[st][s]
    <3>1. items'[st][s] \in {items[st][s], None, downloads} /\ items[st][s] <= downloads
      BY <2>1, <2>3 DEF Written, Fresh
    <3>2. items[st][s] \in Numbers
      BY <2>2, <2>3
    <3>3. items[st][s] \in Nat /\ items'[st][s] \in {items[st][s], downloads}
      BY <2>2, <2>3, <3>1, <3>2
    <3> QED
      BY <2>2, <3>1, <3>3
  <2> QED
    BY <2>3
<1>2. [][Forward]_vars => DataNeverGoesBack
  BY DEF DataNeverGoesBack
<1> QED
  BY <1>1, <1>2, FreshAlways, PTL DEF Spec

-----------------------------------------------------------------------------
\* Between the second look and the request, the section stays missing.
Missing == \A c \in Callers :
             At(c, "fetch") => items[op[c].store][op[c].section] = None \/ op[c].readFailed

\* How a call that is about to request got there: it was, or it has just looked.
Waits(c) == /\ At(c, "fetch")
            /\ op'[c].store = op[c].store /\ op'[c].section = op[c].section
            /\ op'[c].readFailed = op[c].readFailed
Looked(c) == /\ At(c, "recheck") /\ items' = items
             /\ op'[c].store = op[c].store /\ op'[c].section = op[c].section
             /\ op'[c].readFailed = (items[op[c].store][op[c].section] # None)

LEMMA ToFetch ==
  ASSUME TypeInv, [Next]_vars, NEW c \in Callers, op'[c].pc = "fetch"
  PROVE  Waits(c) \/ Looked(c)
<1>0. op \in [Callers -> CallRecord] /\ op[c] \in CallRecord
  BY DEF TypeInv, TypeOK
<1>1. CASE op'[c] = op[c]
  BY <1>1 DEF Waits, At
<1>2. ASSUME NEW d \in Callers, NEW v, NEW place \in {"release", "done"}, Return(d, v, place)
      PROVE  op'[c] = op[c]
  BY <1>0, <1>2 DEF Return
<1>3. ASSUME NEW d \in Callers, Cancel(d) PROVE Waits(c) \/ Looked(c)
  <2>1. op' = [op EXCEPT ![d].cancelled = TRUE]
    BY <1>3 DEF Cancel
  <2>2. op'[c].pc = op[c].pc /\ op'[c].store = op[c].store /\ op'[c].section = op[c].section
        /\ op'[c].readFailed = op[c].readFailed
    BY <1>0, <2>1 DEF CallRecord
  <2> QED
    BY <2>2 DEF Waits, At
<1>4. ASSUME NEW d \in Callers, SecondLook(d) PROVE Waits(c) \/ Looked(c)
  <2>1. CASE \E v, place : place \in {"release", "done"} /\ Return(d, v, place)
    BY <1>1, <1>2, <2>1
  <2>2. CASE /\ At(d, "recheck") /\ items' = items
             /\ op' = [op EXCEPT ![d].pc = "fetch",
                                 ![d].readFailed = items[op[d].store][op[d].section] # None]
    <3>1. d # c => op'[c] = op[c]
      BY <1>0, <2>2
    <3>2. d = c => /\ op'[c].store = op[c].store /\ op'[c].section = op[c].section
                   /\ op'[c].readFailed = (items[op[c].store][op[c].section] # None)
      BY <1>0, <2>2 DEF CallRecord
    <3> QED
      BY <1>1, <2>2, <3>1, <3>2 DEF Looked
  <2> QED
    BY <1>4, <2>1, <2>2 DEF SecondLook
<1>5. ASSUME NEW d \in Callers, Call(d) \/ Hang(d) \/ Acquire(d) \/ Release(d) PROVE op'[c] = op[c]
  <2>1. CASE Call(d)
    <3>1. PICK s \in Sections, done \in BOOLEAN :
            op' = [op EXCEPT ![d] = [NoCall EXCEPT
                     !.pc = "first", !.section = s, !.store = CacheFor(d),
                     !.cancelled = done, !.floor = items[CacheFor(d)][s]]]
      BY <2>1 DEF Call
    <3>2. d = c => op'[c].pc = "first"
      BY <1>0, <3>1 DEF NoCall
    <3> QED
      BY <1>0, <3>1, <3>2
  <2>2. CASE Hang(d) \/ Acquire(d) \/ Release(d)
    <3>1. \E place \in {"hung", "recheck", "done"} : op' = [op EXCEPT ![d].pc = place]
      BY <2>2 DEF Hang, Acquire, Release
    <3> QED
      BY <1>0, <3>1 DEF CallRecord
  <2> QED
    BY <1>5, <2>1, <2>2
<1>6. ASSUME NEW d \in Callers, FirstLook(d) \/ Request(d) PROVE op'[c] = op[c]
  <2>1. CASE \E v, place : place \in {"release", "done"} /\ Return(d, v, place)
    BY <1>2, <2>1
  <2>2. CASE \/ op' = [op EXCEPT ![d].pc = "gate"]
             \/ op' = [op EXCEPT ![d].pc = "inflight", ![d].readFailed = FALSE]
    BY <1>0, <2>2 DEF CallRecord
  <2> QED
    BY <1>6, <2>1, <2>2 DEF FirstLook, Request
<1>7. ASSUME NEW d \in Callers, LeaveQueue(d) \/ FetchFails(d) \/ HangEnds(d) \/ Warmed(d)
      PROVE  op'[c] = op[c]
  BY <1>2, <1>7 DEF LeaveQueue, FetchFails, HangEnds, Warmed
<1>8. ASSUME NEW d \in Callers, Fetched(d) \/ Warm(d) PROVE op'[c] = op[c]
  <2>1. CASE \E v, place : place \in {"release", "done"} /\ Return(d, v, place)
    BY <1>2, <2>1
  <2>2. CASE \E present \in SUBSET Sections :
               op' = [op EXCEPT ![d].pc = "warm", ![d].payload = downloads', ![d].present = present]
    BY <1>0, <2>2 DEF CallRecord
  <2>3. CASE At(d, "warm") /\ op' = [op EXCEPT ![d].next = @ + 1]
    BY <1>0, <2>3 DEF CallRecord, At
  <2> QED
    BY <1>8, <2>1, <2>2, <2>3 DEF Fetched, Warm
<1>9. CASE Expire \/ SetSharedCache \/ UNCHANGED vars
  BY <1>1, <1>9 DEF Expire, SetSharedCache, vars
<1> QED
  BY <1>1, <1>3, <1>4, <1>5, <1>6, <1>7, <1>8, <1>9 DEF Next, GoOn

\* Only the owner of the gate writes, so nothing is written before its request.
LEMMA NoWriter ==
  ASSUME BootstrapAssumption, TypeInv, [Next]_vars, NEW c \in Callers, At(c, "fetch"),
         NEW st \in Stores, NEW s \in Sections
  PROVE  items'[st][s] \in {items[st][s], None}
<1>0. items \in [Stores -> [Sections -> Numbers \cup {None}]]
  BY DEF TypeInv, TypeOK
<1>1. \A d \in Callers : ~At(d, "warm")
  BY DEF TypeInv, GateOwned, At, Holding
<1>2. \A d \in Callers : ~Warm(d)
  BY <1>1 DEF Warm
<1>3. CASE Expire
  BY <1>0, <1>3 DEF Expire
<1>4. CASE SetSharedCache \/ UNCHANGED vars
  BY <1>4 DEF SetSharedCache, vars
<1>5. ASSUME NEW d \in Callers,
             \/ Call(d) \/ Cancel(d) \/ FirstLook(d) \/ SecondLook(d) \/ Request(d) \/ HangEnds(d)
             \/ Warmed(d) \/ Release(d) \/ Acquire(d) \/ LeaveQueue(d) \/ FetchFails(d) \/ Hang(d)
             \/ Fetched(d)
      PROVE  items' = items
  BY <1>5 DEF Call, Cancel, FirstLook, SecondLook, Request, HangEnds, Warmed, Release, Acquire,
              LeaveQueue, FetchFails, Hang, Fetched
<1> QED
  BY <1>2, <1>3, <1>4, <1>5 DEF Next, GoOn

LEMMA MissingStep ==
  ASSUME BootstrapAssumption, TypeInv, Missing, [Next]_vars PROVE Missing'
<1> SUFFICES ASSUME NEW c \in Callers, op'[c].pc = "fetch"
             PROVE  items'[op'[c].store][op'[c].section] = None \/ op'[c].readFailed
  BY DEF Missing, At
<1>1. CASE Waits(c)
  <2>1. op[c].store \in Stores /\ op[c].section \in Sections
    BY <1>1 DEF Waits, At, TypeInv, Located, Running, Active, Holding
  <2>2. items'[op[c].store][op[c].section] \in {items[op[c].store][op[c].section], None}
    BY <1>1, <2>1, NoWriter DEF Waits
  <2>3. items[op[c].store][op[c].section] = None \/ op[c].readFailed
    BY <1>1 DEF Waits, Missing
  <2> QED
    BY <1>1, <2>2, <2>3 DEF Waits
<1>2. CASE Looked(c)
  BY <1>2 DEF Looked
<1> QED
  BY <1>1, <1>2, ToFetch

\* Misses of several callers share one download: whoever requests has seen, while it holds
\* the gate of bootstrapSection, that its section is missing, and it still is; only a read
\* that the store failed leads to a download of what is there.
THEOREM SharedDownload == Spec => NoRedundantDownload
<1> DEFINE Needed == \A c \in Callers :
              At(c, "fetch") /\ op'[c].pc = "inflight"
                => items[op[c].store][op[c].section] = None \/ op[c].readFailed
<1>1. Init => Missing
  BY DEF Init, Missing, At, NoCall
<1>2. TypeInv /\ Missing /\ [Next]_vars => Missing'
  BY BootstrapAssumption, MissingStep
<1>3. Spec => []Missing
  BY <1>1, <1>2, TypeAlways, PTL DEF Spec
<1>4. Missing => [Needed]_vars
  BY DEF Missing
<1>5. [][Needed]_vars => NoRedundantDownload
  BY DEF NoRedundantDownload
<1> QED
  BY <1>3, <1>4, <1>5, PTL
=============================================================================
