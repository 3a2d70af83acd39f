------------------------------ MODULE GameWeeks ------------------------------
(***************************************************************************)
(* What callers are told about the gameweek while it rolls over upstream:  *)
(* GetCurrentGameWeek and GetNextGameWeek of endpoints/bootstrap.go and    *)
(* GetCurrentTeam of endpoints/manager.go, which go through the cached     *)
(* gameweeks section, the derived key next_gameweek and the picks keyed by *)
(* manager and gameweek.  A call takes no time at the scale of the         *)
(* times-to-live, but other calls, and the rollover, run between its steps.*)
(* Downloads of the section are one step here; Bootstrap.tla is about them.*)
(* The names of the specification are other than PlayerBatch's:            *)
(* EndpointProofs extends both modules.                                    *)
(***************************************************************************)
EXTENDS Integers

CONSTANTS Callers,
          GameweeksTTL,  \* gameweeksCacheTTL, also used for next_gameweek
          ManagerTTL,    \* managerCacheTTL, used for the picks
          LastGameweek,  \* the season's last gameweek has no next
          Horizon,       \* bound of the model: the clock stops here
          None           \* no entry, no answer

ASSUME GameWeeksAssumption == /\ GameweeksTTL \in Nat /\ ManagerTTL \in Nat
                              /\ LastGameweek \in Nat \ {0} /\ Horizon \in Nat
                              /\ None \notin Nat \cup [value : Nat, expires : Nat]

VARIABLES now,
          live,      \* the gameweek the upstream marks is_current
          gameweeks, \* cache entry "gameweeks": the current gameweek in it, its expiry
          nextKey,   \* cache entry "next_gameweek"
          picks,     \* cache entries "manager_team_<id>_gw<g>", by g
          op,        \* the call each goroutine is in
          rolled     \* history: when each gameweek became current

seasonVars == <<now, live, gameweeks, nextKey, picks, op, rolled>>

Weeks == 1 .. LastGameweek
Entry(v, ttl) == [value |-> v, expires |-> now + ttl]
Fresh(e) == e # None /\ now <= e.expires

Methods == {"current", "next", "team"}
\* pc: "next" before reading next_gameweek, "weeks" before the gameweeks section,
\* "derive" before writing next_gameweek, "picks" before reading the picks.
Active == {"next", "weeks", "derive", "picks"}
NoCall == [pc |-> "idle", method |-> "current", week |-> None, answer |-> None,
           asked |-> 0]

SeasonInit == /\ now = 0
              /\ live = 1
              /\ gameweeks = None
              /\ nextKey = None
              /\ picks = [g \in Weeks |-> None]
              /\ op = [c \in Callers |-> NoCall]
              /\ rolled = [g \in Weeks |-> 0]

Call(c) == /\ op[c].pc \notin Active
           /\ \E m \in Methods :
                op' = [op EXCEPT ![c] = [NoCall EXCEPT
                         !.method = m, !.pc = IF m = "next" THEN "next" ELSE "weeks",
                         !.asked = now]]
           /\ UNCHANGED <<now, live, gameweeks, nextKey, picks, rolled>>

\* A cancelled context, a failed download, a list without the week that is looked for.
Fail(c) == /\ op[c].pc \in Active
           /\ op' = [op EXCEPT ![c].pc = "done"]
           /\ UNCHANGED <<now, live, gameweeks, nextKey, picks, rolled>>

\* GetNextGameWeek reads its own key first.
LookNext(c) == /\ op[c].pc = "next"
               /\ IF Fresh(nextKey)
                  THEN op' = [op EXCEPT ![c].pc = "done", ![c].answer = nextKey.value]
                  ELSE op' = [op EXCEPT ![c].pc = "weeks"]
               /\ UNCHANGED <<now, live, gameweeks, nextKey, picks, rolled>>

AfterWeeks(c, g) ==
  op' = [op EXCEPT ![c].week = g,
                   ![c].pc = CASE op[c].method = "current" -> "done"
                               [] op[c].method = "next" -> "derive"
                               [] op[c].method = "team" -> "picks",
                   ![c].answer = IF op[c].method = "current" THEN g ELSE None]

\* bootstrapSection for the gameweeks: the cached list, or a download, cached if it can be.
LookWeeks(c) ==
  /\ op[c].pc = "weeks"
  /\ IF Fresh(gameweeks)
     THEN AfterWeeks(c, gameweeks.value) /\ UNCHANGED gameweeks
     ELSE AfterWeeks(c, live) /\ gameweeks' \in {gameweeks, Entry(live, GameweeksTTL)}
  /\ UNCHANGED <<now, live, nextKey, picks, rolled>>

\* Mutant of the derived key: it is kept as long as the picks.
DeriveLong(c) == /\ op[c].pc = "derive"
                 /\ op[c].week < LastGameweek
                 /\ nextKey' \in {nextKey, Entry(op[c].week + 1, ManagerTTL)}
                 /\ op' = [op EXCEPT ![c].pc = "done", ![c].answer = op[c].week + 1]
                 /\ UNCHANGED <<now, live, gameweeks, picks, rolled>>

\* The week marked is_next in the list is stored with a time-to-live of its own.
Derive(c) == /\ op[c].pc = "derive"
             /\ op[c].week < LastGameweek
             /\ nextKey' \in {nextKey, Entry(op[c].week + 1, GameweeksTTL)}
             /\ op' = [op EXCEPT ![c].pc = "done", ![c].answer = op[c].week + 1]
             /\ UNCHANGED <<now, live, gameweeks, picks, rolled>>

\* Mutant of the key: the picks of any gameweek under one key.
PicksKeyOfManager(c) == 1

\* The key of the picks names the gameweek, "fresh picks for an old GW must not hide
\* rollover"; a miss downloads them.
PicksKey(c) == op[c].week

LookPicks(c) ==
  LET k == PicksKey(c)
  IN  /\ op[c].pc = "picks"
      /\ IF Fresh(picks[k])
         THEN /\ op' = [op EXCEPT ![c].pc = "done", ![c].answer = picks[k].value]
              /\ UNCHANGED picks
         ELSE /\ op' = [op EXCEPT ![c].pc = "done", ![c].answer = op[c].week]
              /\ picks' \in {picks, [picks EXCEPT ![k] = Entry(op[c].week, ManagerTTL)]}
      /\ UNCHANGED <<now, live, gameweeks, nextKey, rolled>>

Rollover == /\ live < LastGameweek
            /\ live' = live + 1
            /\ rolled' = [rolled EXCEPT ![live'] = now]
            /\ UNCHANGED <<now, gameweeks, nextKey, picks, op>>

Tick == /\ now < Horizon
        /\ \A c \in Callers : op[c].pc \notin Active
        /\ now' = now + 1
        /\ UNCHANGED <<live, gameweeks, nextKey, picks, op, rolled>>

SeasonNext == \/ \E c \in Callers : \/ Call(c) \/ Fail(c) \/ LookNext(c) \/ LookWeeks(c)
                                    \/ Derive(c) \/ LookPicks(c)
              \/ Rollover \/ Tick

SeasonSpec == SeasonInit /\ [][SeasonNext]_seasonVars

-----------------------------------------------------------------------------
(* Properties *)

Told(c, methods) == op[c].pc = "done" /\ op[c].answer # None /\ op[c].method \in methods

\* The current gameweek, of a call made at instant t, was current within ttl before t.
CurrentWithin(g, t, ttl) == g = live \/ t <= rolled[g + 1] + ttl

\* "Detection is still bounded by the unchanged gameweeks metadata TTL": no caller is told
\* a current gameweek, or given its picks, that ended more than that ago, however long
\* the picks themselves stay fresh and whichever callers filled the caches.  A next
\* gameweek was announced at most two of them ago: next_gameweek starts a new one when it
\* is taken from a list at the end of its own.
RolloverDetected ==
  \A c \in Callers :
    /\ Told(c, {"current", "team"}) => CurrentWithin(op[c].answer, op[c].asked, GameweeksTTL)
    /\ Told(c, {"next"}) => CurrentWithin(op[c].answer - 1, op[c].asked, 2 * GameweeksTTL)
=============================================================================
