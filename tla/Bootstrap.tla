------------------------------ MODULE Bootstrap ------------------------------
(***************************************************************************)
(* bootstrapSection of endpoints/bootstrap.go: callers that want one       *)
(* section of /bootstrap-static/ and, on a miss, download all of them      *)
(* under the process-wide gate.  The stores are caches seen through        *)
(* cacheGet and cacheSet of endpoints/cache_provider.go: a read or write   *)
(* may fail and is reported, an entry may expire at any time.  The data of *)
(* a download is its number: later downloads hold newer data.              *)
(***************************************************************************)
EXTENDS Naturals, Sequences, FiniteSets

CONSTANTS Callers,       \* goroutines, with any client
          Stores,        \* cache stores
          Explicit,      \* caller -> the explicit store of its client, or None
          SectionOrder,  \* the sections in the order in which they are warmed
          MaxDownloads,  \* bound of the model: responses of the upstream
          None           \* no entry, no value

Sections == {SectionOrder[i] : i \in DOMAIN SectionOrder}

ASSUME BootstrapAssumption == /\ SectionOrder \in Seq(Sections)
                              /\ MaxDownloads \in Nat
                              /\ None \notin Nat
                              /\ Explicit \in [Callers -> Stores \cup {None}]

VARIABLES items,      \* store -> section -> number of the download it came from, or None
          shared,     \* the fallback store of clients without an explicit one
          gate,       \* tokens in bootstrapGate, a channel of capacity 1
          op,         \* the call each goroutine is in
          downloads   \* responses with a payload so far: the number of the newest data

vars == <<items, shared, gate, op, downloads>>

\* pc: "first" before the first cacheGet, "gate" in the select, "recheck" before the
\* second cacheGet, "fetch" before the request, "inflight" in it, "hung" in it without an
\* answer to come, "warm" before the next cacheSet, "release" before the deferred release.
Holding == {"recheck", "fetch", "inflight", "hung", "warm", "release"}
Active == {"first", "gate"} \cup Holding
PCs == {"idle", "done"} \cup Active

NoCall == [pc |-> "idle", section |-> None, store |-> None, cancelled |-> FALSE,
           readFailed |-> FALSE, payload |-> 0, present |-> {}, next |-> 1,
           value |-> None, floor |-> None]

At(c, place) == op[c].pc = place

\* What cacheGet may find under a key: a failed read or decode is reported and a miss.
Found(c) == {items[op[c].store][op[c].section], None}

Init == /\ items = [st \in Stores |-> [s \in Sections |-> None]]
        /\ shared \in Stores
        /\ gate = 0
        /\ op = [c \in Callers |-> NoCall]
        /\ downloads = 0

\* cacheFor: the client's explicit store, or a snapshot of the shared one.
CacheFor(c) == IF Explicit[c] # None THEN Explicit[c] ELSE shared

\* A getter is called; the store it selects is the one it keeps.
Call(c) == /\ op[c].pc \notin Active
           /\ \E s \in Sections, done \in BOOLEAN :
                op' = [op EXCEPT ![c] = [NoCall EXCEPT
                         !.pc = "first", !.section = s, !.store = CacheFor(c),
                         !.cancelled = done, !.floor = items[CacheFor(c)][s]]]
           /\ UNCHANGED <<items, shared, gate, downloads>>

Cancel(c) == /\ op[c].pc \in Active \ {"release"}
             /\ ~op[c].cancelled
             /\ op' = [op EXCEPT ![c].cancelled = TRUE]
             /\ UNCHANGED <<items, shared, gate, downloads>>

\* The call is over, with a value or, for None, with an error; its locals are gone.  At
\* "release" the deferred function has still to run.
Return(c, v, place) ==
  op' = [op EXCEPT ![c] = [NoCall EXCEPT
           !.pc = place, !.value = v, !.floor = IF v = None THEN None ELSE op[c].floor]]

\* The first cacheGet; a context that is done before or after it is an error.
FirstLook(c) ==
  /\ At(c, "first")
  /\ \/ op[c].cancelled /\ Return(c, None, "done")
     \/ /\ ~op[c].cancelled
        /\ \E v \in Found(c) : IF v = None THEN op' = [op EXCEPT ![c].pc = "gate"]
                                           ELSE Return(c, v, "done")
  /\ UNCHANGED <<items, shared, gate, downloads>>

\* Mutant of the gate: a channel with room for everybody.
AcquireAnyway(c) == /\ At(c, "gate")
                    /\ gate' = gate + 1
                    /\ op' = [op EXCEPT ![c].pc = "recheck"]
                    /\ UNCHANGED <<items, shared, downloads>>

\* The select sends into the gate.
Acquire(c) == /\ At(c, "gate")
              /\ gate = 0
              /\ gate' = 1
              /\ op' = [op EXCEPT ![c].pc = "recheck"]
              /\ UNCHANGED <<items, shared, downloads>>

\* Mutant of the queue: the context is looked at only when the gate is free.
LeaveQueueLate(c) == /\ At(c, "gate")
                     /\ gate = 0
                     /\ op[c].cancelled
                     /\ Return(c, None, "done")
                     /\ UNCHANGED <<items, shared, gate, downloads>>

\* The select takes ctx.Done.
LeaveQueue(c) == /\ At(c, "gate")
                 /\ op[c].cancelled
                 /\ Return(c, None, "done")
                 /\ UNCHANGED <<items, shared, gate, downloads>>

\* Mutant of the second look: there is none.
SecondLookNever(c) ==
  /\ At(c, "recheck")
  /\ IF op[c].cancelled THEN Return(c, None, "release") ELSE op' = [op EXCEPT ![c].pc = "fetch"]
  /\ UNCHANGED <<items, shared, gate, downloads>>

\* The second cacheGet, holding the gate.
SecondLook(c) ==
  /\ At(c, "recheck")
  /\ \/ op[c].cancelled /\ Return(c, None, "release")
     \/ /\ ~op[c].cancelled
        /\ \E v \in Found(c) :
             IF v # None THEN Return(c, v, "release")
             ELSE op' = [op EXCEPT ![c].pc = "fetch",
                                   ![c].readFailed = items[op[c].store][op[c].section] # None]
  /\ UNCHANGED <<items, shared, gate, downloads>>

\* The request goes out, unless the context is done.
Request(c) == /\ At(c, "fetch")
              /\ IF op[c].cancelled
                 THEN Return(c, None, "release")
                 ELSE op' = [op EXCEPT ![c].pc = "inflight", ![c].readFailed = FALSE]
              /\ UNCHANGED <<items, shared, gate, downloads>>

\* Mutant of a failed request: it returns without releasing the gate.
FetchFailsStranded(c) == /\ At(c, "inflight")
                         /\ Return(c, None, "done")
                         /\ UNCHANGED <<items, shared, gate, downloads>>

\* Transport error, cancellation, a status that is not 200, a body that does not decode.
FetchFails(c) == /\ At(c, "inflight")
                 /\ Return(c, None, "release")
                 /\ UNCHANGED <<items, shared, gate, downloads>>

\* The upstream never answers and the client has no timeout.
Hang(c) == /\ At(c, "inflight")
           /\ op' = [op EXCEPT ![c].pc = "hung"]
           /\ UNCHANGED <<items, shared, gate, downloads>>

\* Only the context ends such a request.
HangEnds(c) == /\ At(c, "hung")
               /\ op[c].cancelled
               /\ Return(c, None, "release")
               /\ UNCHANGED <<items, shared, gate, downloads>>

\* A payload with some sections; without the requested one it is rejected as a whole.
Fetched(c) ==
  /\ At(c, "inflight")
  /\ downloads < MaxDownloads
  /\ downloads' = downloads + 1
  /\ \E present \in SUBSET Sections :
       IF op[c].section \in present
       THEN op' = [op EXCEPT ![c].pc = "warm", ![c].payload = downloads', ![c].present = present]
       ELSE Return(c, None, "release")
  /\ UNCHANGED <<items, shared, gate>>

\* One round of the warming loop: an absent section is skipped, a failed write reported,
\* a context that is done before or after the write ends the call without the value it
\* had already decoded.
Warm(c) ==
  LET s == SectionOrder[op[c].next]
  IN  /\ At(c, "warm")
      /\ op[c].next <= Len(SectionOrder)
      /\ \/ /\ s \notin op[c].present
            /\ op' = [op EXCEPT ![c].next = @ + 1]
            /\ UNCHANGED items
         \/ /\ s \in op[c].present /\ op[c].cancelled
            /\ Return(c, None, "release")
            /\ UNCHANGED items
         \/ /\ s \in op[c].present /\ ~op[c].cancelled
            /\ op' = [op EXCEPT ![c].next = @ + 1] \/ Return(c, None, "release")
            /\ items' \in {items, [items EXCEPT ![op[c].store][s] = op[c].payload]}
      /\ UNCHANGED <<shared, gate, downloads>>

\* The loop is over: the decoded section is returned.
Warmed(c) == /\ At(c, "warm")
             /\ op[c].next > Len(SectionOrder)
             /\ Return(c, op[c].payload, "release")
             /\ UNCHANGED <<items, shared, gate, downloads>>

\* The deferred receive from the gate, on every path that acquired it.
Release(c) == /\ At(c, "release")
              /\ gate' = gate - 1
              /\ op' = [op EXCEPT ![c].pc = "done"]
              /\ UNCHANGED <<items, shared, downloads>>

\* A time-to-live passes, or an application deletes the entry.
Expire == /\ \E st \in Stores, s \in Sections :
               items[st][s] # None /\ items' = [items EXCEPT ![st][s] = None]
          /\ UNCHANGED <<shared, gate, op, downloads>>

SetSharedCache == /\ shared' \in Stores
                  /\ UNCHANGED <<items, gate, op, downloads>>

GoOn(c) == FirstLook(c) \/ SecondLook(c) \/ Request(c) \/ HangEnds(c)
             \/ Warm(c) \/ Warmed(c) \/ Release(c)

Next == \/ \E c \in Callers : \/ Call(c) \/ Cancel(c) \/ GoOn(c) \/ Acquire(c)
                              \/ LeaveQueue(c) \/ FetchFails(c) \/ Fetched(c) \/ Hang(c)
        \/ Expire
        \/ SetSharedCache

Spec == Init /\ [][Next]_vars

\* Goroutines keep running, a select whose context is done returns, a request that does
\* not hang ends, and senders blocked on a channel are served in the order in which they
\* came.  Nobody has to cancel.
FairSpec == /\ Spec
            /\ \A c \in Callers : /\ WF_vars(GoOn(c)) /\ WF_vars(LeaveQueue(c))
                                  /\ WF_vars(FetchFails(c) \/ Fetched(c) \/ Hang(c))
                                  /\ SF_vars(Acquire(c))

-----------------------------------------------------------------------------
(* Properties *)

Numbers == 1 .. MaxDownloads

CallRecord ==
  [pc : PCs, section : Sections \cup {None}, store : Stores \cup {None}, cancelled : BOOLEAN,
   readFailed : BOOLEAN, payload : 0 .. MaxDownloads, present : SUBSET Sections,
   next : 1 .. Len(SectionOrder) + 1, value : Numbers \cup {None}, floor : Numbers \cup {None}]

TypeOK == /\ items \in [Stores -> [Sections -> Numbers \cup {None}]]
          /\ shared \in Stores /\ gate \in 0 .. 1 /\ downloads \in 0 .. MaxDownloads
          /\ op \in [Callers -> CallRecord]

\* The gate is a lock whatever ends a call: it is full exactly while one caller is past
\* its acquisition, so no cancellation, failed request or rejected payload strands it,
\* and no two requests for the endpoint are in flight.
GateOwned ==
  /\ gate = 1 <=> \E c \in Callers : op[c].pc \in Holding
  /\ \A c, d \in Callers : op[c].pc \in Holding /\ op[d].pc \in Holding => c = d

\* Misses of several callers share one download: a request goes out only for a section
\* that is not in the caller's store at that moment, unless the store failed the caller's
\* second read.  The first look, before the queue, is too old to tell.
NoRedundantDownload ==
  [][\A c \in Callers :
       At(c, "fetch") /\ op'[c].pc = "inflight"
         => items[op[c].store][op[c].section] = None \/ op[c].readFailed]_vars

\* Data never goes back: the sections of a download never replace those of a later one,
\* in any store, however slowly its caller warms them.
DataNeverGoesBack ==
  [][\A st \in Stores, s \in Sections :
       items[st][s] # None /\ items'[st][s] # None => items'[st][s] >= items[st][s]]_vars

\* No caller gets data older than what its store held when it called, through whichever
\* of the two looks or the download it gets them.
NotOlderThanAtCall ==
  \A c \in Callers :
    At(c, "done") /\ op[c].value # None /\ op[c].floor # None => op[c].value >= op[c].floor

\* A caller in the queue gets in or gives up, unless the owner's upstream hangs: no other
\* owner keeps the gate for ever, and the gate is passed on whatever becomes of a request.
WaiterServed ==
  \A c \in Callers : At(c, "gate") ~> ~At(c, "gate") \/ \E d \in Callers : At(d, "hung")

\* "A cancelled waiter leaves the queue without disturbing the owner's fetch": also when
\* that fetch never ends.
CancelledLeavesQueue == \A c \in Callers : At(c, "gate") /\ op[c].cancelled ~> At(c, "done")
=============================================================================
