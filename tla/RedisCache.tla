------------------------------ MODULE RedisCache ------------------------------
(***************************************************************************)
(* internal/cache/redis_cache.go: several SDK caches over one Redis        *)
(* server.  A command that was sent may be applied, with or without its    *)
(* reply getting back, or never, and also after its caller gave up.  Clear *)
(* walks the keys under its prefix with SCAN and deletes them in batches   *)
(* while others write.  Entries do not expire here: for the operations, an *)
(* expiry is a Delete by somebody else.                                    *)
(* A prefix is a sequence of parts, "a:b" being <<"a", "b">>; a key on the *)
(* server is the prefix with the name appended.                            *)
(***************************************************************************)
EXTENDS Integers, SequencesExt

CONSTANTS Callers,
          PrefixChoices,  \* the assignments of prefixes to callers
          Names,      \* the keys the SDK uses
          Foreign,    \* keys on the server that other programs use
          BatchSize,  \* of Clear: 100 in the code
          MaxCalls    \* bound of the model: calls

ASSUME RedisAssumption == BatchSize \in Nat \ {0} /\ MaxCalls \in Nat

VARIABLES prefix,   \* per caller
          store,    \* the server: key -> number of the call that wrote it
          wire,     \* commands sent and not applied; one that stays here is lost
          op,       \* the operation each caller is in
          calls,    \* calls so far, which number them
          applied,  \* history: how often each call's value was stored
          settled   \* history: the calls of Set that returned nil

vars == <<prefix, store, wire, op, calls, applied, settled>>

Absent == -1
Earlier == 0   \* the number of entries that were there before

prefixedKey(p, name) == Append(p, name)
Keys == {prefixedKey(prefix[c], name) : c \in Callers, name \in Names} \cup Foreign

\* Other programs keep to keys of their own: none is under a prefix that is used, nor one
\* of those of a cache without.
ASSUME ForeignAssumption ==
  \A p \in PrefixChoices, c \in Callers :
    /\ \A name \in Names : prefixedKey(p[c], name) \notin Foreign
    /\ p[c] # <<>> => \A k \in Foreign : ~IsStrictPrefix(p[c], k)

\* The keys that match the pattern prefix:*, however many parts follow.
Matching(p) == {k \in DOMAIN store : IsStrictPrefix(p, k) /\ store[k] # Absent}

Kinds == {"get", "set", "delete", "clear"}

\* pc: "send", "wait" for the reply, "reply" with it in hand, "scan" in the loop of Clear.
Idle == [pc |-> "idle", kind |-> "get", key |-> <<>>, n |-> 0,
         done |-> FALSE,                      \* the context is
         todo |-> {}, batch |-> {}, last |-> FALSE,
         old |-> {},                          \* history: entries older than the Clear
         result |-> "none"]

At(c, place) == op[c].pc = place

Init == /\ prefix \in PrefixChoices
        /\ store \in {[k \in Keys |-> Earlier],
                      [k \in Keys |-> IF k \in Foreign THEN Earlier ELSE Absent]}
        /\ wire = {}
        /\ op = [c \in Callers |-> Idle]
        /\ calls = 0
        /\ applied = [n \in 1 .. MaxCalls |-> 0]
        /\ settled = {}

\* Mutant of the call: a Clear without prefix is not stopped.
CallUnguarded(c, kind, name) ==
  /\ At(c, "idle")
  /\ calls < MaxCalls
  /\ calls' = calls + 1
  /\ op' = [op EXCEPT ![c] =
       [Idle EXCEPT !.kind = kind, !.n = calls',
                    !.key = IF kind = "clear" THEN <<>> ELSE prefixedKey(prefix[c], name),
                    !.pc = IF kind = "clear" THEN "scan" ELSE "send",
                    !.todo = IF kind = "clear" THEN Matching(prefix[c]) ELSE {},
                    !.old = IF kind = "clear" THEN Matching(prefix[c]) ELSE {}]]
  /\ UNCHANGED <<prefix, store, wire, applied, settled>>

\* SetContext, GetContext, Delete or Clear is called.  Clear does nothing without a prefix.
Call(c, kind, name) ==
  /\ At(c, "idle")
  /\ calls < MaxCalls
  /\ kind = "clear" => prefix[c] # <<>>
  /\ calls' = calls + 1
  /\ op' = [op EXCEPT ![c] =
       [Idle EXCEPT !.kind = kind, !.n = calls',
                    !.key = IF kind = "clear" THEN <<>> ELSE prefixedKey(prefix[c], name),
                    !.pc = IF kind = "clear" THEN "scan" ELSE "send",
                    !.todo = IF kind = "clear" THEN Matching(prefix[c]) ELSE {},
                    !.old = IF kind = "clear" THEN Matching(prefix[c]) ELSE {}]]
  /\ UNCHANGED <<prefix, store, wire, applied, settled>>

-----------------------------------------------------------------------------
(* The context: a child of the caller's with a ceiling of its own *)

\* Mutant of the deadline: only what takes the caller's context has one.
DeadlineOfCallers(c) == /\ ~At(c, "idle") /\ ~op[c].done
                        /\ op[c].kind \in {"get", "set"}
                        /\ op' = [op EXCEPT ![c].done = TRUE]
                        /\ UNCHANGED <<prefix, store, wire, calls, applied, settled>>

\* The deadline passes, or the caller of a Get or Set cancels: its own context is done.
Deadline(c) == /\ ~At(c, "idle") /\ ~op[c].done
               /\ op' = [op EXCEPT ![c].done = TRUE]
               /\ UNCHANGED <<prefix, store, wire, calls, applied, settled>>

-----------------------------------------------------------------------------
(* Commands *)

Command(c) == [by |-> c, n |-> op[c].n, kind |-> op[c].kind,
               keys |-> IF op[c].kind = "clear" THEN op[c].batch ELSE {op[c].key}]

Send(c) == /\ At(c, "send")
           /\ ~op[c].done
           /\ wire' = wire \cup {Command(c)}
           /\ op' = [op EXCEPT ![c].pc = "wait"]
           /\ UNCHANGED <<prefix, store, calls, applied, settled>>

\* The keys of gone vanish, those of fresh are written: what the running Clears see.
Seen(gone, fresh) == [c \in Callers |-> [op[c] EXCEPT !.todo = @ \ gone, !.old = @ \ (gone \cup fresh)]]

\* The server applies a command; the reply gets back to its caller, if that still waits.
Apply(m) ==
  /\ m \in wire
  /\ wire' = wire \ {m}
  /\ store' = CASE m.kind = "set" -> [k \in Keys |-> IF k \in m.keys THEN m.n ELSE store[k]]
                [] m.kind \in {"delete", "clear"} ->
                     [k \in Keys |-> IF k \in m.keys THEN Absent ELSE store[k]]
                [] m.kind = "get" -> store
  /\ applied' = IF m.kind = "set" THEN [applied EXCEPT ![m.n] = @ + 1] ELSE applied
  /\ LET gone == IF m.kind \in {"delete", "clear"} THEN m.keys ELSE {}
         fresh == IF m.kind = "set" THEN m.keys ELSE {}
         seen == Seen(gone, fresh)
     IN  \/ op' = seen
         \/ At(m.by, "wait") /\ op[m.by].n = m.n /\ op' = [seen EXCEPT ![m.by].pc = "reply"]
  /\ UNCHANGED <<prefix, calls, settled>>

-----------------------------------------------------------------------------
(* Results *)

\* What is kept of an operation that ended.
Ended(c, result) ==
  [op EXCEPT ![c] = [Idle EXCEPT !.old = IF result = "cleared" THEN op[c].old ELSE {},
                                 !.result = result]]

\* The loop of Clear goes on after a batch, or was over before it.
Flushed(c, result) ==
  IF op[c].last THEN Ended(c, result)
  ELSE [op EXCEPT ![c].pc = "scan", ![c].batch = {}, ![c].result = result]

\* Mutant of the failure: go-redis sends the command again (MaxRetries).
FailRetries(c) ==
  /\ At(c, "wait")
  /\ op' = [op EXCEPT ![c].pc = "send"]
  /\ UNCHANGED <<prefix, store, wire, calls, applied, settled>>

\* The socket times out at the deadline, or breaks, or the context was done before the
\* command was sent; redisContextError only adds the context's error to it.  Nobody takes
\* the command back (a read that nobody waits for has no effect), nor sends it again.
Fail(c) ==
  /\ \/ At(c, "send")
     \/ At(c, "wait")
  /\ op' = IF op[c].kind = "clear" THEN Flushed(c, "error") ELSE Ended(c, "error")
  /\ wire' = IF op[c].kind = "get" THEN wire \ {Command(c)} ELSE wire
  /\ UNCHANGED <<prefix, store, calls, applied, settled>>

\* The reply of Set, Get or Delete; a context that is done by then makes it an error, and
\* so does an entry that does not decode.
Return(c) ==
  /\ At(c, "reply") /\ op[c].kind # "clear"
  /\ \E result \in {"ok", "error"} :
       /\ op[c].kind = "set" => result = IF op[c].done THEN "error" ELSE "ok"
       /\ op' = Ended(c, result)
       /\ settled' = IF op[c].kind = "set" /\ result = "ok" THEN settled \cup {op[c].n} ELSE settled
  /\ UNCHANGED <<prefix, store, wire, calls, applied>>

-----------------------------------------------------------------------------
(* Clear *)

\* SCAN returns a key that matches; it returns every key that is there all the time.
Scan(c) == /\ At(c, "scan")
           /\ ~op[c].done
           /\ \E k \in Matching(prefix[c]) \ op[c].batch :
                LET batch == op[c].batch \cup {k}
                IN  op' = [op EXCEPT ![c].todo = @ \ {k}, ![c].batch = batch,
                                     ![c].pc = IF Cardinality(batch) >= BatchSize THEN "send" ELSE "scan"]
           /\ UNCHANGED <<prefix, store, wire, calls, applied, settled>>

\* Mutant of the end: the rest of the last batch is forgotten.
ScanEndsShort(c) == /\ At(c, "scan")
                    /\ op[c].todo = {} /\ ~op[c].done
                    /\ op' = Ended(c, IF op[c].result = "error" THEN "error" ELSE "cleared")
                    /\ UNCHANGED <<prefix, store, wire, calls, applied, settled>>

\* The iterator is through, or fails; what is left in the batch is deleted.
ScanEnds(c) ==
  /\ At(c, "scan")
  /\ \E result \in (IF op[c].todo = {} /\ ~op[c].done /\ op[c].result # "error"
                    THEN {"cleared", "error"} ELSE {"error"}) :
       op' = IF op[c].batch = {} THEN Ended(c, result)
             ELSE [op EXCEPT ![c].pc = "send", ![c].last = TRUE, ![c].result = result]
  /\ UNCHANGED <<prefix, store, wire, calls, applied, settled>>

\* A batch is deleted.
Deleted(c) ==
  /\ At(c, "reply") /\ op[c].kind = "clear"
  /\ op' = Flushed(c, op[c].result)
  /\ UNCHANGED <<prefix, store, wire, calls, applied, settled>>

Step(c) == Send(c) \/ Fail(c) \/ Return(c) \/ Scan(c) \/ ScanEnds(c) \/ Deleted(c)

Next == \/ \E c \in Callers : \/ Step(c) \/ Deadline(c)
                              \/ \E kind \in Kinds, name \in Names : Call(c, kind, name)
        \/ \E m \in wire : Apply(m)

Spec == Init /\ [][Next]_vars

\* Time passes and goroutines go on; the server and the network need not.
FairSpec == /\ Spec
            /\ \A c \in Callers :
                 /\ WF_vars(Deadline(c))
                 /\ WF_vars(op[c].done /\ (Fail(c) \/ Return(c) \/ ScanEnds(c) \/ Deleted(c)))

-----------------------------------------------------------------------------
(* Properties *)

\* A Clear that met no error removed every entry that was there when it was called,
\* however many batches it took and whoever wrote and deleted meanwhile.
ClearCompletes ==
  \A c \in Callers : At(c, "idle") /\ op[c].result = "cleared" => op[c].old = {}

\* What other programs keep on the server stays there, also under a Clear without prefix
\* and under commands that are applied late.
ForeignKept == \A k \in Foreign : store[k] = Earlier

\* A Set that returned nil stored its value exactly once and before it returned, a Set
\* that failed at most once: no value reappears after it was overwritten.
WritesOnce == \A n \in 1 .. calls : applied[n] <= 1 /\ (n \in settled => applied[n] = 1)

\* Every operation ends, a Clear of any length too, although the server never answers.
OperationsEnd == \A c \in Callers : ~At(c, "idle") ~> At(c, "idle")
=============================================================================
