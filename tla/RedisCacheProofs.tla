--------------------------- MODULE RedisCacheProofs ---------------------------
(***************************************************************************)
(* For every set of caches, prefixes, names and keys of other programs,    *)
(* every batch size and number of calls: what Clear, Set and Delete do to  *)
(* the server, with commands that are applied late or never.               *)
(*                                                                         *)
(* The invariant follows a command from its operation to the server.  Its  *)
(* number tells whose it is (Numbered); that of a Set is on the wire or    *)
(* applied, at most once (Once); and what a Clear that met no error has    *)
(* still to delete is to be scanned or in its batch (Clearing).            *)
(***************************************************************************)
EXTENDS RedisCache, TLAPS

\* The keys that the caches may touch.
Own == Keys \ Foreign

Places == {"idle", "send", "wait", "reply", "scan"}
Commands(K) == [by : Callers, n : Nat, kind : Kinds, keys : SUBSET K]
Operations(K) ==
  [pc : Places, kind : Kinds, key : K \cup {<<>>}, n : Nat, done : BOOLEAN, todo : SUBSET K,
   batch : SUBSET K, last : BOOLEAN, old : SUBSET K, result : {"none", "ok", "error", "cleared"}]

Types == /\ prefix \in PrefixChoices
         /\ store \in [Keys -> Int]
         /\ wire \in SUBSET Commands(Own)
         /\ op \in [Callers -> Operations(Own)]
         /\ calls \in 0 .. MaxCalls
         /\ applied \in [1 .. MaxCalls -> Nat]

\* The keys of an operation, and what guards a Clear.
Guarded(c, r) == /\ r.pc # "idle" /\ r.kind # "clear" => r.key \in Own
                 /\ r.kind = "clear" => prefix[c] # <<>>
                 /\ r.pc = "scan" => r.kind = "clear"

Numbered ==
  /\ \A m \in wire : m.n \in 1 .. calls
  /\ \A c \in Callers : op[c].n <= calls /\ (op[c].pc = "idle" <=> op[c].n = 0)
  /\ \A c, d \in Callers : c # d /\ op[c].pc # "idle" => op[c].n # op[d].n
  /\ \A m \in wire, c \in Callers : m.n = op[c].n => m.by = c /\ m.kind = op[c].kind

Once ==
  /\ \A n \in 1 .. MaxCalls : /\ applied[n] <= 1
                              /\ n \in settled => applied[n] = 1
                              /\ n > calls => applied[n] = 0
  /\ \A m \in wire : m.kind = "set" => /\ applied[m.n] = 0
                                       /\ \A o \in wire : o.n = m.n => o = m
  /\ \A c \in Callers : op[c].kind = "set" =>
       /\ op[c].pc = "send" => applied[op[c].n] = 0 /\ \A m \in wire : m.n # op[c].n
       /\ op[c].pc = "reply" => applied[op[c].n] = 1

\* A Clear that met no error, under way or ended.
Clearing(r) ==
  /\ r.kind = "clear" /\ r.result # "error" =>
       /\ r.last => r.todo = {}
       /\ r.pc \in {"scan", "send", "wait"} => r.old \subseteq r.todo \cup r.batch
       /\ r.pc = "reply" => r.old \subseteq r.todo
       /\ \A m \in wire : m.n = r.n => r.pc = "wait" /\ m.keys = r.batch
  /\ r.pc = "idle" /\ r.result = "cleared" => r.old = {}

IInv == /\ Types /\ ForeignKept /\ Numbered /\ Once
        /\ \A c \in Callers : Guarded(c, op[c]) /\ Clearing(op[c])

-----------------------------------------------------------------------------
(* What the lemmas share *)

LEMMA SameKeys ==
  ASSUME prefix' = prefix
  PROVE  Keys' = Keys /\ Own' = Own
BY DEF Keys, Own, prefixedKey

\* A cache touches no key of another program: not one it names, nor one that it matches.
LEMMA OwnKeys ==
  ASSUME Types, NEW c \in Callers
  PROVE  /\ \A name \in Names : prefixedKey(prefix[c], name) \in Own
         /\ prefix[c] # <<>> => Matching(prefix[c]) \subseteq Own
BY ForeignAssumption DEF Types, Own, Keys, Matching

LEMMA IdleTyped == Idle \in Operations(Own)
BY DEF Idle, Operations, Places, Kinds

\* Steps of one caller that write to the server nothing and send it nothing.
LEMMA CallerStep ==
  ASSUME IInv, NEW c \in Callers, NEW r \in Operations(Own),
         op' = [op EXCEPT ![c] = r],
         UNCHANGED <<prefix, store, calls, applied>>,
         wire' \subseteq wire,
         settled' \subseteq settled \cup {n \in 1 .. MaxCalls : applied[n] = 1},
         \/ r.pc = "idle" /\ r.n = 0 /\ r.kind = "get"
         \/ /\ op[c].pc # "idle" /\ r.pc # "idle"
            /\ r.n = op[c].n /\ r.kind = op[c].kind /\ r.key = op[c].key
            /\ r.pc = "scan" => r.kind = "clear"
            /\ r.kind = "set" => \/ r.pc = op[c].pc
                                 \/ r.pc \notin {"send", "reply"},
         Clearing(r)
  PROVE  IInv'
<1> USE DEF IInv
<1>0. Keys' = Keys /\ Own' = Own  BY SameKeys
<1> HIDE DEF Own, Keys
<1>t. op[c] \in Operations(Own) /\ op'[c] = r /\ \A d \in Callers : d # c => op'[d] = op[d]
  BY DEF Types
<1>1. Types'
  <2>1. op' \in [Callers -> Operations(Own)]
    BY <1>t DEF Types
  <2> QED  BY <2>1, <1>0 DEF Types, Commands
<1>2. ForeignKept'
  BY DEF ForeignKept
<1>3. Numbered'
  <2>1. r.n <= calls /\ (r.pc = "idle" <=> r.n = 0)
    <3>1. calls \in Nat /\ op[c].n <= calls /\ (op[c].pc = "idle" <=> op[c].n = 0)
      BY RedisAssumption DEF Types, Numbered
    <3> QED  BY <3>1
  <2>2. \A m \in wire' : m.n = r.n => m.by = c /\ m.kind = r.kind
    BY RedisAssumption DEF Numbered, Types
  <2>3. \A e, d \in Callers : e # d /\ op'[e].pc # "idle" => op'[e].n # op'[d].n
    <3> SUFFICES ASSUME NEW e \in Callers, NEW d \in Callers, e # d, op'[e].pc # "idle"
                 PROVE  op'[e].n # op'[d].n
      OBVIOUS
    <3>1. CASE e = c
      BY <3>1, <1>t DEF Numbered
    <3>2. CASE d = c
      BY <3>2, <1>t DEF Numbered
    <3>3. CASE e # c /\ d # c
      BY <3>3, <1>t DEF Numbered
    <3> QED  BY <3>1, <3>2, <3>3
  <2> QED  BY <1>t, <2>1, <2>2, <2>3 DEF Numbered
<1>4. Once'
  <2>1. r.kind = "set" =>
          /\ r.pc = "send" => applied[r.n] = 0 /\ \A m \in wire : m.n # r.n
          /\ r.pc = "reply" => applied[r.n] = 1
    BY DEF Once
  <2>2. \A n \in 1 .. MaxCalls : n \in settled' => applied[n] = 1
    BY DEF Once
  <2> QED  BY <1>t, <2>1, <2>2 DEF Once
<1>5. ASSUME NEW d \in Callers
      PROVE  Guarded(d, op[d])' /\ Clearing(op[d])'
  <2>1. CASE d = c
    BY <2>1, <1>0, <1>t DEF Guarded, Clearing
  <2>2. CASE d # c
    BY <1>0, <2>2, <1>t DEF Guarded, Clearing
  <2> QED  BY <2>1, <2>2
<1> QED  BY <1>1, <1>2, <1>3, <1>4, <1>5

LEMMA Start == ASSUME Init PROVE IInv
<1> USE DEF Init, IInv
<1>1. \A c \in Callers : op[c] = Idle
  OBVIOUS
<1>2. Types
  <2>1. op \in [Callers -> Operations(Own)]
    BY IdleTyped
  <2>2. store \in [Keys -> Int] /\ calls \in 0 .. MaxCalls /\ applied \in [1 .. MaxCalls -> Nat]
    BY RedisAssumption DEF Earlier, Absent
  <2> QED  BY <2>1, <2>2 DEF Types
<1>3. ForeignKept
  BY DEF ForeignKept, Keys
<1>4. Numbered
  BY <1>1 DEF Numbered, Idle
<1>5. Once
  BY <1>1 DEF Once, Idle
<1>6. \A c \in Callers : Guarded(c, op[c]) /\ Clearing(op[c])
  BY <1>1 DEF Guarded, Clearing, Idle
<1> QED  BY <1>2, <1>3, <1>4, <1>5, <1>6

LEMMA DeadlineStep ==
  ASSUME IInv, NEW c \in Callers, Deadline(c)
  PROVE  IInv'
<1> DEFINE r == [op[c] EXCEPT !.done = TRUE]
<1>1. op[c] \in Operations(Own)
  BY DEF IInv, Types
<1>2. r \in Operations(Own)
  BY <1>1 DEF Operations
<1>3. r.pc = op[c].pc /\ r.n = op[c].n /\ r.kind = op[c].kind /\ r.key = op[c].key
  BY <1>1 DEF Operations
<1>4. Clearing(r)
  BY <1>1 DEF IInv, Clearing, Operations
<1>5. op' = [op EXCEPT ![c] = r]
  BY DEF Deadline
<1>6. op[c].pc = "scan" => op[c].kind = "clear"
  BY DEF IInv, Guarded
<1> QED
  <2> HIDE DEF r
  <2> QED  BY <1>2, <1>3, <1>4, <1>5, <1>6, CallerStep DEF Deadline, At

\* An operation ends, cleared only if it was a Clear that is through.
LEMMA EndedStep ==
  ASSUME IInv, NEW c \in Callers, NEW result \in {"none", "ok", "error", "cleared"},
         op' = Ended(c, result),
         UNCHANGED <<prefix, store, calls, applied>>,
         wire' \subseteq wire,
         settled' \subseteq settled \cup {n \in 1 .. MaxCalls : applied[n] = 1},
         result = "cleared" => op[c].old = {}
  PROVE  IInv'
<1> DEFINE r == [Idle EXCEPT !.old = IF result = "cleared" THEN op[c].old ELSE {},
                             !.result = result]
<1>1. op[c] \in Operations(Own)
  BY DEF IInv, Types
<1>2. r \in Operations(Own) /\ r.pc = "idle" /\ r.n = 0 /\ r.kind = "get"
  BY <1>1 DEF Operations, Idle, Places, Kinds
<1>3. Clearing(r)
  BY <1>1, <1>2 DEF Clearing, Operations, Idle
<1>4. op' = [op EXCEPT ![c] = r]
  BY DEF Ended
<1> QED
  <2> HIDE DEF r
  <2> QED  BY <1>2, <1>3, <1>4, CallerStep

\* The loop of a Clear goes on or ends; without an error its batch is deleted.
LEMMA FlushedStep ==
  ASSUME IInv, NEW c \in Callers, NEW result \in {"none", "ok", "error", "cleared"},
         op' = Flushed(c, result),
         op[c].kind = "clear", op[c].pc # "idle",
         result = "error" \/ (result = op[c].result /\ op[c].pc = "reply"),
         UNCHANGED <<prefix, store, calls, applied, settled>>,
         wire' \subseteq wire
  PROVE  IInv'
<1> DEFINE r == [op[c] EXCEPT !.pc = "scan", !.batch = {}, !.result = result]
<1>1. op[c] \in Operations(Own) /\ Clearing(op[c])
  BY DEF IInv, Types
<1>2. CASE op[c].last
  <2>1. op' = Ended(c, result)
    BY <1>2 DEF Flushed
  <2>2. result = "cleared" => op[c].old = {}
    BY <1>1, <1>2 DEF Clearing
  <2> QED  BY <2>1, <2>2, EndedStep
<1>3. CASE ~op[c].last
  <2>1. r \in Operations(Own)
    BY <1>1 DEF Operations, Places
  <2>2. r.pc = "scan" /\ r.n = op[c].n /\ r.kind = op[c].kind /\ r.key = op[c].key
    BY <1>1 DEF Operations
  <2>3. Clearing(r)
    BY <1>1, <1>3 DEF Clearing, Operations
  <2>4. op' = [op EXCEPT ![c] = r]
    BY <1>3 DEF Flushed
  <2> HIDE DEF r
  <2> QED  BY <2>1, <2>2, <2>3, <2>4, CallerStep
<1> QED  BY <1>2, <1>3

LEMMA FailStep ==
  ASSUME IInv, NEW c \in Callers, Fail(c)
  PROVE  IInv'
<1>1. wire' \subseteq wire /\ op[c].pc # "idle"
  BY DEF Fail, At
<1>2. CASE op[c].kind = "clear"
  BY <1>1, <1>2, FlushedStep DEF Fail
<1>3. CASE op[c].kind # "clear"
  BY <1>1, <1>3, EndedStep DEF Fail
<1> QED  BY <1>2, <1>3

\* A Set that returns nil had its reply, which the server sends when it applies it.
LEMMA ReturnStep ==
  ASSUME IInv, NEW c \in Callers, Return(c)
  PROVE  IInv'
<1> USE DEF Return, At
<1>1. PICK result \in {"ok", "error"} :
        /\ op' = Ended(c, result)
        /\ settled' = IF op[c].kind = "set" /\ result = "ok" THEN settled \cup {op[c].n} ELSE settled
  OBVIOUS
<1>2. op[c].kind = "set" => op[c].n \in 1 .. MaxCalls /\ applied[op[c].n] = 1
  BY RedisAssumption DEF IInv, Numbered, Once, Types, Operations
<1>3. settled' \subseteq settled \cup {n \in 1 .. MaxCalls : applied[n] = 1}
  BY <1>1, <1>2
<1> QED  BY <1>1, <1>3, EndedStep

LEMMA ScanStep ==
  ASSUME IInv, NEW c \in Callers, Scan(c)
  PROVE  IInv'
<1>1. PICK k \in Matching(prefix[c]) \ op[c].batch :
        op' = [op EXCEPT ![c].todo = @ \ {k}, ![c].batch = op[c].batch \cup {k},
                         ![c].pc = IF Cardinality(op[c].batch \cup {k}) >= BatchSize
                                   THEN "send" ELSE "scan"]
  BY DEF Scan
<1> DEFINE pc == IF Cardinality(op[c].batch \cup {k}) >= BatchSize THEN "send" ELSE "scan"
           r == [op[c] EXCEPT !.todo = @ \ {k}, !.batch = @ \cup {k}, !.pc = pc]
<1>2. op[c] \in Operations(Own) /\ Clearing(op[c]) /\ Guarded(c, op[c]) /\ op[c].pc = "scan"
  BY DEF IInv, Types, Scan, At
<1>3. op[c].kind = "clear"
  BY <1>2 DEF Guarded
<1>4. k \in Own
  BY <1>2, <1>3, OwnKeys DEF Guarded, IInv
<1>5. pc \in Places /\ pc \in {"send", "scan"}
  BY DEF Places
<1>6. op' = [op EXCEPT ![c] = r]
  BY <1>1, <1>2 DEF Operations
<1> HIDE DEF pc
<1>7. r \in Operations(Own)
  BY <1>2, <1>4, <1>5 DEF Operations
<1>8. r.pc = pc /\ r.n = op[c].n /\ r.kind = op[c].kind /\ r.key = op[c].key
  BY <1>2 DEF Operations
<1>9. Clearing(r)
  BY <1>2, <1>5 DEF Clearing, Operations
<1> HIDE DEF r
<1> QED  BY <1>2, <1>3, <1>5, <1>6, <1>7, <1>8, <1>9, CallerStep DEF Scan

\* The end of the iterator: only a Clear without error has found that nothing is to do.
LEMMA ScanEndsStep ==
  ASSUME IInv, NEW c \in Callers, ScanEnds(c)
  PROVE  IInv'
<1>1. PICK result \in (IF op[c].todo = {} /\ ~op[c].done /\ op[c].result # "error"
                       THEN {"cleared", "error"} ELSE {"error"}) :
        op' = IF op[c].batch = {} THEN Ended(c, result)
              ELSE [op EXCEPT ![c].pc = "send", ![c].last = TRUE, ![c].result = result]
  BY DEF ScanEnds
<1>2. /\ result \in {"cleared", "error"}
      /\ result = "cleared" => op[c].todo = {} /\ op[c].result # "error"
  OBVIOUS
<1>3. op[c] \in Operations(Own) /\ Clearing(op[c]) /\ op[c].pc = "scan" /\ op[c].kind = "clear"
  BY DEF IInv, Types, ScanEnds, At, Guarded
<1>4. CASE op[c].batch = {}
  <2>1. result = "cleared" => op[c].old = {}
    BY <1>2, <1>3, <1>4 DEF Clearing
  <2> QED  BY <1>1, <1>2, <1>4, <2>1, EndedStep DEF ScanEnds
<1>5. CASE op[c].batch # {}
  <2> DEFINE r == [op[c] EXCEPT !.pc = "send", !.last = TRUE, !.result = result]
  <2>1. r \in Operations(Own)
    BY <1>2, <1>3 DEF Operations, Places
  <2>2. r.pc = "send" /\ r.n = op[c].n /\ r.kind = op[c].kind /\ r.key = op[c].key
    BY <1>3 DEF Operations
  <2>3. Clearing(r)
    BY <1>2, <1>3 DEF Clearing, Operations
  <2>4. op' = [op EXCEPT ![c] = r]
    BY <1>1, <1>5
  <2> HIDE DEF r
  <2> QED  BY <1>3, <2>1, <2>2, <2>3, <2>4, CallerStep DEF ScanEnds
<1> QED  BY <1>4, <1>5

LEMMA DeletedStep ==
  ASSUME IInv, NEW c \in Callers, Deleted(c)
  PROVE  IInv'
<1>1. op[c].result \in {"none", "ok", "error", "cleared"}
  BY DEF IInv, Types, Operations
<1> QED  BY <1>1, FlushedStep DEF Deleted, At

-----------------------------------------------------------------------------
(* New numbers, commands sent and applied *)

LEMMA CallStep ==
  ASSUME IInv, NEW c \in Callers, NEW kind \in Kinds, NEW name \in Names,
         Call(c, kind, name)
  PROVE  IInv'
<1> USE DEF IInv
<1> DEFINE key == IF kind = "clear" THEN <<>> ELSE prefixedKey(prefix[c], name)
           pc == IF kind = "clear" THEN "scan" ELSE "send"
           old == IF kind = "clear" THEN Matching(prefix[c]) ELSE {}
           r == [Idle EXCEPT !.kind = kind, !.n = calls + 1, !.key = key, !.pc = pc,
                             !.todo = old, !.old = old]
<1>0. Keys' = Keys /\ Own' = Own  BY SameKeys DEF Call
<1>a. kind = "clear" => prefix[c] # <<>>
  BY DEF Call
<1>b. /\ key \in Own \cup {<<>>} /\ (kind # "clear" => key \in Own)
      /\ old \in SUBSET Own
      /\ pc \in Places /\ pc \in {"send", "scan"} /\ (pc = "scan" => kind = "clear")
  BY <1>a, OwnKeys DEF Places
<1>c. op' = [op EXCEPT ![c] = r] /\ calls' = calls + 1 /\ op[c].pc = "idle"
      /\ UNCHANGED <<prefix, store, wire, applied, settled>>
      /\ calls \in Nat /\ MaxCalls \in Nat /\ calls + 1 \in 1 .. MaxCalls
  BY RedisAssumption DEF Call, At, Types
<1> HIDE DEF Own, Keys, key, pc, old
<1>d. r \in Operations(Own)
  <2>1. calls + 1 \in Nat
    BY <1>c
  <2> QED  BY <2>1, <1>b, IdleTyped DEF Operations
<1>e. /\ r.pc = pc /\ r.n = calls + 1 /\ r.kind = kind /\ r.key = key /\ r.todo = old
      /\ r.old = old /\ ~r.last
  BY <1>b, <1>c, IdleTyped DEF Operations, Idle
<1> HIDE DEF r
<1>t. op[c] \in Operations(Own) /\ op'[c] = r /\ \A d \in Callers : d # c => op'[d] = op[d]
  BY <1>c DEF Types
<1>n. \A d \in Callers : op[d].n \in Nat /\ op[d].n <= calls
  BY DEF Types, Numbered, Operations
<1>m. \A m \in wire : m.n \in 1 .. calls
  BY DEF Numbered
<1>1. Types'
  <2>1. op' \in [Callers -> Operations(Own)]
    BY <1>c, <1>d DEF Types
  <2>2. calls' \in 0 .. MaxCalls
    BY <1>c
  <2> QED  BY <1>0, <1>c, <2>1, <2>2 DEF Types, Commands
<1>2. ForeignKept'
  BY <1>c DEF ForeignKept
<1>3. Numbered'
  <2>1. \A m \in wire' : m.n \in 1 .. calls' /\ m.n # r.n
    BY <1>c, <1>e, <1>m
  <2>2. \A d \in Callers : op'[d].n <= calls' /\ (op'[d].pc = "idle" <=> op'[d].n = 0)
    <3> TAKE d \in Callers
    <3>1. CASE d = c
      BY <3>1, <1>b, <1>c, <1>e, <1>t
    <3>2. CASE d # c
      BY <3>2, <1>c, <1>n, <1>t DEF Numbered
    <3> QED  BY <3>1, <3>2
  <2>3. \A d \in Callers : r.n # op[d].n
    BY <1>c, <1>e, <1>n
  <2>4. \A d, f \in Callers : d # f /\ op'[d].pc # "idle" => op'[d].n # op'[f].n
    BY <2>3, <1>t DEF Numbered
  <2>5. \A m \in wire', d \in Callers : m.n = op'[d].n => m.by = d /\ m.kind = op'[d].kind
    BY <2>1, <1>c, <1>t DEF Numbered
  <2> QED  BY <2>1, <2>2, <2>4, <2>5 DEF Numbered
<1>4. Once'
  <2>1. \A n \in 1 .. MaxCalls : /\ applied'[n] <= 1
                                 /\ n \in settled' => applied'[n] = 1
                                 /\ n > calls' => applied'[n] = 0
    BY <1>c DEF Once
  <2>2. \A m \in wire : m.n # r.n
    BY <1>c, <1>e, <1>m
  <2>3. applied[r.n] = 0
    BY <1>c, <1>e DEF Once
  <2>4. r.pc # "reply"
    BY <1>b, <1>e
  <2>5. \A d \in Callers : op'[d].kind = "set" =>
          /\ op'[d].pc = "send" => applied'[op'[d].n] = 0 /\ \A m \in wire' : m.n # op'[d].n
          /\ op'[d].pc = "reply" => applied'[op'[d].n] = 1
    BY <2>2, <2>3, <2>4, <1>c, <1>t DEF Once
  <2> QED  BY <2>1, <2>5, <1>c DEF Once
<1>5. ASSUME NEW d \in Callers
      PROVE  Guarded(d, op[d])' /\ Clearing(op[d])'
  <2>1. CASE d = c
    <3>1. \A m \in wire : m.n # r.n
      BY <1>c, <1>e, <1>m
    <3> QED  BY <2>1, <3>1, <1>0, <1>a, <1>b, <1>c, <1>e, <1>t DEF Guarded, Clearing
  <2>2. CASE d # c
    BY <1>0, <2>2, <1>c, <1>t DEF Guarded, Clearing
  <2> QED  BY <2>1, <2>2
<1> QED  BY <1>1, <1>2, <1>3, <1>4, <1>5

LEMMA SendStep ==
  ASSUME IInv, NEW c \in Callers, Send(c)
  PROVE  IInv'
<1> USE DEF IInv
<1> DEFINE r == [op[c] EXCEPT !.pc = "wait"]
           m0 == Command(c)
<1>0. Keys' = Keys /\ Own' = Own  BY SameKeys DEF Send
<1> HIDE DEF Own, Keys
<1>c. /\ op' = [op EXCEPT ![c] = r] /\ op[c].pc = "send" /\ wire' = wire \cup {m0}
      /\ UNCHANGED <<prefix, store, calls, applied, settled>>
  BY DEF Send, At
<1>t. /\ op[c] \in Operations(Own) /\ op'[c] = r /\ r \in Operations(Own)
      /\ \A d \in Callers : d # c => op'[d] = op[d]
  BY <1>c DEF Types, Operations, Places
<1>r. /\ r.pc = "wait" /\ r.n = op[c].n /\ r.kind = op[c].kind /\ r.key = op[c].key
      /\ r.last = op[c].last /\ r.todo = op[c].todo /\ r.batch = op[c].batch
      /\ r.old = op[c].old /\ r.result = op[c].result
  BY <1>t DEF Operations
<1>m. /\ m0 \in Commands(Own) /\ m0.by = c /\ m0.n = op[c].n /\ m0.kind = op[c].kind
      /\ op[c].kind = "clear" => m0.keys = op[c].batch
  <2>1. Guarded(c, op[c])
    OBVIOUS
  <2> QED  BY <1>c, <1>t, <2>1 DEF Command, Commands, Operations, Guarded
<1> HIDE DEF r, m0
<1>n. m0.n \in 1 .. calls
  BY <1>c, <1>t, <1>m, RedisAssumption DEF Numbered, Types, Operations
<1>d. \A d \in Callers : d # c => op[d].n # m0.n
  BY <1>c, <1>m DEF Numbered
<1>1. Types'
  <2>1. op' \in [Callers -> Operations(Own)]
    BY <1>c, <1>t DEF Types
  <2>2. wire' \in SUBSET Commands(Own)
    BY <1>c, <1>m DEF Types
  <2> QED  BY <2>1, <2>2, <1>0, <1>c DEF Types
<1>2. ForeignKept'
  BY <1>c DEF ForeignKept
<1>3. Numbered'
  <2>1. \A m \in wire' : m.n \in 1 .. calls'
    BY <1>c, <1>n DEF Numbered
  <2>2. \A d \in Callers : op'[d].n = op[d].n /\ op'[d].kind = op[d].kind
                           /\ (op'[d].pc = "idle" <=> op[d].pc = "idle")
    BY <1>c, <1>t, <1>r
  <2>3. \A m \in wire', d \in Callers : m.n = op'[d].n => m.by = d /\ m.kind = op'[d].kind
    BY <2>2, <1>c, <1>d, <1>m DEF Numbered
  <2> QED  BY <2>1, <2>2, <2>3, <1>c DEF Numbered
<1>4. Once'
  <2>1. op[c].kind = "set" => applied[m0.n] = 0 /\ \A m \in wire : m.n # m0.n
    BY <1>c, <1>m DEF Once
  <2>2. \A m \in wire : m.n = m0.n => m.kind = op[c].kind
    BY <1>m DEF Numbered
  <2>3. \A m \in wire' : m.kind = "set" => /\ applied'[m.n] = 0
                                           /\ \A o \in wire' : o.n = m.n => o = m
    BY <2>1, <2>2, <1>c, <1>m DEF Once
  <2>4. \A d \in Callers : op'[d].kind = "set" =>
          /\ op'[d].pc = "send" => applied'[op'[d].n] = 0 /\ \A m \in wire' : m.n # op'[d].n
          /\ op'[d].pc = "reply" => applied'[op'[d].n] = 1
    BY <1>c, <1>d, <1>r, <1>t DEF Once
  <2> QED  BY <2>3, <2>4, <1>c DEF Once
<1>5. ASSUME NEW d \in Callers
      PROVE  Guarded(d, op[d])' /\ Clearing(op[d])'
  <2>1. CASE d = c
    BY <2>1, <1>0, <1>c, <1>m, <1>r, <1>t DEF Guarded, Clearing
  <2>2. CASE d # c
    BY <2>2, <1>0, <1>c, <1>d, <1>t DEF Guarded, Clearing
  <2> QED  BY <2>1, <2>2
<1> QED  BY <1>1, <1>2, <1>3, <1>4, <1>5

\* What Apply(m) does to the operations: m.keys are off the lists, one caller has its reply.
Served(m, r, q, c) ==
  /\ q \in Operations(Own)
  /\ q.n = r.n /\ q.kind = r.kind /\ q.key = r.key /\ q.batch = r.batch
  /\ q.last = r.last /\ q.result = r.result
  /\ \/ q.pc = r.pc
     \/ c = m.by /\ r.n = m.n /\ r.pc = "wait" /\ q.pc = "reply"
  /\ q.todo = IF m.kind \in {"delete", "clear"} THEN r.todo \ m.keys ELSE r.todo
  /\ q.old = IF m.kind = "get" THEN r.old ELSE r.old \ m.keys

LEMMA ApplyServes ==
  ASSUME IInv, NEW m \in wire, Apply(m)
  PROVE  /\ op' \in [Callers -> Operations(Own)]
         /\ \A c \in Callers : Served(m, op[c], op'[c], c)
<1> DEFINE gone == IF m.kind \in {"delete", "clear"} THEN m.keys ELSE {}
           fresh == IF m.kind = "set" THEN m.keys ELSE {}
           seen == Seen(gone, fresh)
           s(c) == [op[c] EXCEPT !.todo = @ \ gone, !.old = @ \ (gone \cup fresh)]
<1>1. m \in Commands(Own) /\ op \in [Callers -> Operations(Own)]
  BY DEF IInv, Types
<1>2. m.kind \in Kinds /\ m.by \in Callers
  BY <1>1 DEF Commands
<1>3. \/ op' = seen
      \/ At(m.by, "wait") /\ op[m.by].n = m.n /\ op' = [seen EXCEPT ![m.by].pc = "reply"]
  BY DEF Apply
<1>4. seen = [c \in Callers |-> s(c)]
  BY DEF Seen
<1>5. ASSUME NEW c \in Callers
      PROVE  s(c) \in Operations(Own) /\ Served(m, op[c], s(c), c)
  <2>1. op[c] \in Operations(Own)
    BY <1>1
  <2>2. gone \cup fresh = IF m.kind = "get" THEN {} ELSE m.keys
    BY <1>2 DEF Kinds
  <2>3. s(c) \in Operations(Own)
    BY <2>1 DEF Operations
  <2>4. s(c).todo = op[c].todo \ gone /\ s(c).old = op[c].old \ (gone \cup fresh)
    BY <2>1 DEF Operations
  <2>5. /\ s(c).n = op[c].n /\ s(c).kind = op[c].kind /\ s(c).key = op[c].key
        /\ s(c).batch = op[c].batch /\ s(c).last = op[c].last /\ s(c).result = op[c].result
        /\ s(c).pc = op[c].pc
    BY <2>1 DEF Operations
  <2>6. s(c).todo = IF m.kind \in {"delete", "clear"} THEN op[c].todo \ m.keys ELSE op[c].todo
    BY <2>4
  <2>7. s(c).old = IF m.kind = "get" THEN op[c].old ELSE op[c].old \ m.keys
    BY <2>2, <2>4
  <2> HIDE DEF s, gone, fresh
  <2> QED  BY <2>3, <2>5, <2>6, <2>7 DEF Served
<1> HIDE DEF s, gone, fresh
<1>6. CASE op' = seen
  BY <1>4, <1>5, <1>6
<1>7. CASE op' = [seen EXCEPT ![m.by].pc = "reply"] /\ op[m.by].pc = "wait" /\ op[m.by].n = m.n
  <2> DEFINE q == [s(m.by) EXCEPT !.pc = "reply"]
  <2>1. op' = [c \in Callers |-> IF c = m.by THEN q ELSE s(c)]
    BY <1>2, <1>4, <1>7
  <2>2. q \in Operations(Own) /\ Served(m, op[m.by], q, m.by)
    <3>1. s(m.by) \in Operations(Own) /\ Served(m, op[m.by], s(m.by), m.by)
      BY <1>2, <1>5
    <3>2. q \in Operations(Own)
      BY <3>1 DEF Operations, Places
    <3>3. /\ q.n = s(m.by).n /\ q.kind = s(m.by).kind /\ q.key = s(m.by).key
          /\ q.batch = s(m.by).batch /\ q.last = s(m.by).last /\ q.result = s(m.by).result
          /\ q.todo = s(m.by).todo /\ q.old = s(m.by).old /\ q.pc = "reply"
      BY <3>1 DEF Operations
    <3> HIDE DEF q
    <3> QED  BY <1>7, <3>1, <3>2, <3>3 DEF Served
  <2> HIDE DEF q
  <2> QED  BY <1>5, <2>1, <2>2
<1> QED  BY <1>3, <1>6, <1>7 DEF At

LEMMA ApplyStep ==
  ASSUME IInv, NEW m \in wire, Apply(m)
  PROVE  IInv'
<1> USE DEF IInv
<1>0. Keys' = Keys /\ Own' = Own  BY SameKeys DEF Apply
<1>k. Foreign \subseteq Keys /\ \A k \in Own : k \in Keys /\ k \notin Foreign
  BY DEF Keys, Own
<1> HIDE DEF Own, Keys
<1>c. /\ wire' = wire \ {m}
      /\ UNCHANGED <<prefix, calls, settled>>
      /\ applied' = IF m.kind = "set" THEN [applied EXCEPT ![m.n] = @ + 1] ELSE applied
  BY DEF Apply
<1>m. /\ m \in Commands(Own) /\ m.n \in 1 .. calls /\ m.n \in 1 .. MaxCalls /\ m.n \in Int
      /\ m.kind \in Kinds /\ m.keys \subseteq Own
  BY RedisAssumption DEF Types, Numbered, Commands
<1>s. /\ op' \in [Callers -> Operations(Own)]
      /\ \A c \in Callers : Served(m, op[c], op'[c], c)
  BY ApplyServes
<1>w. \A n \in 1 .. MaxCalls : applied'[n] = IF m.kind = "set" /\ n = m.n THEN 1 ELSE applied[n]
  <2>1. m.kind = "set" => applied[m.n] = 0
    BY DEF Once
  <2> QED  BY <2>1, <1>c, <1>m DEF Types
<1>1. Types'
  <2>1. store' \in [Keys -> Int]
    <3>1. store \in [Keys -> Int] /\ Absent \in Int
      BY DEF Types, Absent
    <3>2. CASE m.kind = "set"
      BY <3>1, <3>2, <1>m DEF Apply
    <3>3. CASE m.kind \in {"delete", "clear"}
      BY <3>1, <3>3, <1>m DEF Apply
    <3>4. CASE m.kind = "get"
      BY <3>1, <3>4, <1>m DEF Apply
    <3> QED  BY <3>2, <3>3, <3>4, <1>m DEF Kinds
  <2>2. applied' \in [1 .. MaxCalls -> Nat]
    <3>1. applied \in [1 .. MaxCalls -> Nat] /\ applied[m.n] + 1 \in Nat
      BY <1>m DEF Types
    <3> QED  BY <3>1, <1>c
  <2> QED  BY <2>1, <2>2, <1>0, <1>c, <1>s DEF Types, Commands
<1>2. ForeignKept'
  <2> SUFFICES ASSUME NEW k \in Foreign PROVE store'[k] = store[k]
    BY DEF ForeignKept, Earlier
  <2>1. k \in Keys /\ k \notin m.keys
    BY <1>k, <1>m
  <2>2. CASE m.kind = "set"
    BY <2>1, <2>2 DEF Apply
  <2>3. CASE m.kind \in {"delete", "clear"}
    BY <2>1, <2>3 DEF Apply
  <2>4. CASE m.kind = "get"
    BY <2>1, <2>4 DEF Apply
  <2> QED  BY <2>2, <2>3, <2>4, <1>m DEF Kinds
<1>3. Numbered'
  <2>1. \A c \in Callers : op'[c].n = op[c].n /\ op'[c].kind = op[c].kind
                           /\ (op'[c].pc = "idle" <=> op[c].pc = "idle")
    BY <1>s DEF Served
  <2> QED  BY <2>1, <1>c DEF Numbered
<1>4. Once'
  <2>1. \A n \in 1 .. MaxCalls : /\ applied'[n] <= 1
                                 /\ n \in settled' => applied'[n] = 1
                                 /\ n > calls' => applied'[n] = 0
    <3> TAKE n \in 1 .. MaxCalls
    <3>1. n = m.n => ~(n > calls)
      BY <1>m, RedisAssumption DEF Types
    <3> QED  BY <3>1, <1>c, <1>w DEF Once
  <2>2. \A o \in wire' : o.kind = "set" => /\ applied'[o.n] = 0
                                           /\ \A p \in wire' : p.n = o.n => p = o
    <3> SUFFICES ASSUME NEW o \in wire', o.kind = "set"
                 PROVE  applied'[o.n] = 0 /\ \A p \in wire' : p.n = o.n => p = o
      OBVIOUS
    <3>1. o \in wire /\ o # m /\ o.n \in 1 .. MaxCalls
      BY <1>c, RedisAssumption DEF Numbered, Types
    <3>2. o.n # m.n
      BY <3>1 DEF Once
    <3> QED  BY <3>1, <3>2, <1>c, <1>w DEF Once
  <2>3. ASSUME NEW c \in Callers, op'[c].kind = "set"
        PROVE  /\ op'[c].pc = "send" =>
                    applied'[op'[c].n] = 0 /\ \A o \in wire' : o.n # op'[c].n
               /\ op'[c].pc = "reply" => applied'[op'[c].n] = 1
    <3>1. Served(m, op[c], op'[c], c)
      BY <1>s
    <3>2. op[c].kind = "set" /\ op'[c].n = op[c].n
      BY <2>3, <3>1 DEF Served
    <3>3. ASSUME op'[c].pc = "send"
          PROVE  applied'[op'[c].n] = 0 /\ \A o \in wire' : o.n # op'[c].n
      <4>1. op[c].pc = "send"
        BY <3>1, <3>3 DEF Served
      <4>2. applied[op[c].n] = 0 /\ (\A o \in wire : o.n # op[c].n) /\ op[c].n \in 1 .. MaxCalls
        BY <3>2, <4>1, RedisAssumption DEF Once, Numbered, Types, Operations
      <4> QED  BY <3>2, <4>2, <1>c, <1>w
    <3>4. ASSUME op'[c].pc = "reply"
          PROVE  applied'[op'[c].n] = 1
      <4>1. op[c].n \in 1 .. MaxCalls
        BY <3>1, <3>4, RedisAssumption DEF Numbered, Types, Operations, Served
      <4>2. CASE op[c].pc = "reply"
        BY <3>2, <4>1, <4>2, <1>w DEF Once
      <4>3. CASE op[c].n = m.n
        <5>1. m.kind = "set"
          BY <3>2, <4>3 DEF Numbered
        <5> QED  BY <3>2, <4>1, <4>3, <5>1, <1>w
      <4> QED  BY <3>1, <3>4, <4>2, <4>3 DEF Served
    <3> QED  BY <3>3, <3>4
  <2> QED  BY <2>1, <2>2, <2>3 DEF Once
<1>5. ASSUME NEW d \in Callers
      PROVE  Guarded(d, op[d])' /\ Clearing(op[d])'
  <2>1. Served(m, op[d], op'[d], d) /\ Guarded(d, op[d]) /\ Clearing(op[d])
    BY <1>s
  <2>2. Guarded(d, op[d])'
    BY <2>1, <1>0, <1>c DEF Guarded, Served
  <2>c. op'[d].pc = "idle" /\ op'[d].result = "cleared" => op'[d].old = {}
    BY <2>1 DEF Served, Clearing
  <2>3. CASE op'[d].kind = "clear" /\ op'[d].result # "error"
    <3>1. op[d].kind = "clear" /\ op[d].result # "error"
      BY <2>1, <2>3 DEF Served
    <3>2. op'[d].todo \subseteq op[d].todo /\ op'[d].old \subseteq op[d].old
      BY <2>1 DEF Served
    <3>3. op'[d].last => op'[d].todo = {}
      <4>1. op'[d].last = op[d].last
        BY <2>1 DEF Served
      <4>2. op[d].last => op[d].todo = {}
        BY <2>1, <3>1 DEF Clearing
      <4> QED  BY <3>2, <4>1, <4>2
    <3>4. \A k \in op'[d].old : k \in op[d].todo => k \in op'[d].todo
      BY <2>1, <1>m DEF Served, Kinds
    <3>5. op'[d].pc \in {"scan", "send", "wait"} => op'[d].old \subseteq op'[d].todo \cup op'[d].batch
      <4>1. op'[d].pc \in {"scan", "send", "wait"} => op[d].old \subseteq op[d].todo \cup op[d].batch
        BY <2>1, <3>1 DEF Clearing, Served
      <4>2. op'[d].batch = op[d].batch
        BY <2>1 DEF Served
      <4> QED  BY <3>2, <3>4, <4>1, <4>2
    <3>6. op'[d].pc = "reply" => op'[d].old \subseteq op'[d].todo
      <4>1. CASE op[d].pc = "reply"
        BY <2>1, <3>1, <3>2, <3>4, <4>1 DEF Clearing
      <4>2. CASE op'[d].pc = "reply" /\ op[d].pc = "wait" /\ op[d].n = m.n
        <5>1. m.keys = op[d].batch /\ op[d].old \subseteq op[d].todo \cup op[d].batch
          BY <2>1, <3>1, <4>2 DEF Clearing
        <5>2. m.kind = "clear"
          BY <3>1, <4>2 DEF Numbered
        <5>3. op'[d].old = op[d].old \ m.keys
          BY <2>1, <5>2 DEF Served
        <5> QED  BY <3>4, <5>1, <5>3
      <4> QED  BY <2>1, <4>1, <4>2 DEF Served
    <3>7. ASSUME NEW o \in wire', o.n = op'[d].n
          PROVE  op'[d].pc = "wait" /\ o.keys = op'[d].batch
      <4>1. o \in wire /\ o # m /\ o.n = op[d].n
        BY <2>1, <3>7, <1>c DEF Served
      <4>2. op[d].pc = "wait" /\ o.keys = op[d].batch
        BY <2>1, <3>1, <4>1 DEF Clearing
      <4>3. op[d].n # m.n
        <5> SUFFICES ASSUME op[d].n = m.n PROVE o = m
          BY <4>1
        <5>1. m.keys = o.keys /\ m.n = o.n
          BY <2>1, <3>1, <4>1, <4>2 DEF Clearing
        <5>2. m.by = o.by /\ m.kind = o.kind
          BY <4>1 DEF Numbered
        <5>3. o \in Commands(Own)
          BY <4>1 DEF Types
        <5> QED  BY <5>1, <5>2, <5>3, <1>m DEF Commands
      <4>4. op'[d].pc = "wait"
        BY <2>1, <4>2, <4>3 DEF Served
      <4> QED  BY <2>1, <4>2, <4>4 DEF Served
    <3> QED  BY <2>2, <2>3, <2>c, <3>3, <3>5, <3>6, <3>7 DEF Clearing
  <2>4. CASE ~(op'[d].kind = "clear" /\ op'[d].result # "error")
    BY <2>2, <2>4, <2>c DEF Clearing
  <2> QED  BY <2>3, <2>4
<1> QED  BY <1>1, <1>2, <1>3, <1>4, <1>5

-----------------------------------------------------------------------------
(* The theorems *)

LEMMA Invariance == Spec => []IInv
<1>1. ASSUME IInv, [Next]_vars PROVE IInv'
  <2>1. CASE UNCHANGED vars
    <3>1. UNCHANGED <<prefix, store, wire, op, calls, applied, settled>>
      BY <2>1 DEF vars
    <3>2. Keys' = Keys /\ Own' = Own
      BY <3>1, SameKeys
    <3> HIDE DEF Own, Keys
    <3>3. Types' /\ ForeignKept'
      BY <1>1, <3>1, <3>2 DEF IInv, Types, ForeignKept, Commands
    <3>4. Numbered' /\ Once'
      BY <1>1, <3>1 DEF IInv, Numbered, Once
    <3>5. \A c \in Callers : Guarded(c, op[c])' /\ Clearing(op[c])'
      BY <1>1, <3>1, <3>2 DEF IInv, Guarded, Clearing
    <3> QED  BY <3>3, <3>4, <3>5 DEF IInv
  <2>2. CASE Next
    BY <1>1, <2>2, CallStep, DeadlineStep, SendStep, FailStep, ReturnStep, ScanStep, ScanEndsStep,
       DeletedStep, ApplyStep DEF Next, Step
  <2> QED  BY <1>1, <2>1, <2>2
<1> QED  BY <1>1, Start, PTL DEF Spec

\* No cache ever writes or deletes a key of another program, whatever the prefixes, one of
\* the caches without, and however late its commands are applied.
THEOREM ForeignUntouched == Spec => []ForeignKept
<1>1. IInv => ForeignKept  BY DEF IInv
<1> QED  BY <1>1, Invariance, PTL

\* The value of a Set is stored at most once, and exactly once before a Set returns nil.
THEOREM SetOnce == Spec => []WritesOnce
<1>1. ASSUME IInv PROVE WritesOnce
  <2>1. \A n \in 1 .. calls : n \in 1 .. MaxCalls
    BY <1>1, RedisAssumption DEF IInv, Types
  <2> QED  BY <1>1, <2>1 DEF IInv, Once, WritesOnce
<1> QED  BY <1>1, Invariance, PTL

\* A Clear without error removes every entry that was there when it was called, in any
\* number of batches of any size.
THEOREM ClearRemovesAll == Spec => []ClearCompletes
<1>1. IInv => ClearCompletes  BY DEF IInv, ClearCompletes, Clearing, At
<1> QED  BY <1>1, Invariance, PTL
=============================================================================
