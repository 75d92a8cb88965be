----------------------------- MODULE RateLimit -----------------------------
(***************************************************************************)
(* check_rate_limit of app/core/ratelimit.py for the uploads of one user:  *)
(* a sliding log in Redis, which counts every request that asks, and a     *)
(* window in the memory of the API process, used when Redis fails, which   *)
(* counts the requests it admits.                                          *)
(*                                                                         *)
(* A request reads the clock once and is counted with that reading         *)
(* whenever it is counted: after others that read it later, or, by a Redis *)
(* that answers too late, after memory has decided.  Redis is not part of  *)
(* src/: its four commands are one transaction, a key is gone when its     *)
(* time to live is over, and a Redis that restarts is empty                *)
(* (docker-compose.yml:20-30 gives it no volume).                          *)
(***************************************************************************)
EXTENDS Naturals, FiniteSets

CONSTANTS Request,       \* the upload requests of the user
          Limit,         \* max_requests
          Window,        \* window_seconds, in ticks of the clock
          MaxTime,       \* bound: when the clock stops
          MaxRestarts    \* bound: restarts of Redis and of the API process

ASSUME WindowAssumption == {Limit, Window, MaxTime, MaxRestarts} \subseteq Nat /\ Window > 0

VARIABLES
  clock,
  ask,       \* each request: its step, its reading of the clock, and whether its
             \* transaction may still reach Redis
  log,       \* the sorted set in Redis: its members are readings of the clock
  written,   \* when a transaction last set its time to live
  memory,    \* _memory_windows of the API process
  life,      \* how often Redis and the API process have restarted
  admitted   \* history: the requests admitted, with their readings, when and by which

rateVars == <<clock, ask, log, written, memory, life, admitted>>

RateInit ==
  /\ clock = 0 /\ written = 0
  /\ ask = [r \in Request |-> [step |-> "new", at |-> 0, sent |-> FALSE]]
  /\ log = {} /\ memory = {} /\ admitted = {}
  /\ life = [redis |-> 0, api |-> 0]

\* now = time.time(), and then the transaction is sent.
ReadClock(r) ==
  /\ ask[r].step = "new"
  /\ ask' = [ask EXCEPT ![r] = [step |-> "stamped", at |-> clock, sent |-> TRUE]]
  /\ UNCHANGED <<clock, log, written, memory, life, admitted>>

Answer(r, step) == ask' = [ask EXCEPT ![r].step = step, ![r].sent = FALSE]
Admit(r, via) == admitted' = admitted \cup {[req |-> r, at |-> ask[r].at, done |-> clock, via |-> via]}

-----------------------------------------------------------------------------
(* Redis *)

\* zremrangebyscore and zadd: the member is the reading, so that requests with
\* the same one have one member.
KeptAll(r) == IF clock < written + Window THEN log ELSE {}
Kept(r) == {t \in log : clock < written + Window /\ t + Window > ask[r].at}
Logged(r) == Kept(r) \cup {ask[r].at}

\* zcard counts the request itself, whether or not it is admitted.
CountedBefore(r) == Kept(r)
Counted(r) == Logged(r)

Write(r) ==
  /\ ask[r].sent
  /\ log' = Logged(r) /\ written' = clock
  /\ UNCHANGED <<clock, memory, life>>

RedisAdmits(r) ==
  /\ ask[r].step = "stamped" /\ Cardinality(Counted(r)) <= Limit
  /\ Write(r)
  /\ Admit(r, <<"redis", life.redis>>) /\ Answer(r, "admitted")

RedisRefuses(r) ==
  /\ ask[r].step = "stamped" /\ Cardinality(Counted(r)) > Limit
  /\ Write(r)
  /\ Answer(r, "refused") /\ UNCHANGED admitted

\* The answer is lost, or comes after the socket's timeout.
AnswerLost(r) ==
  /\ Write(r)
  /\ Answer(r, ask[r].step) /\ UNCHANGED admitted

-----------------------------------------------------------------------------
(* The memory of the API process, when Redis has not answered *)

MemoryKept(r) == {e \in memory : e.at + Window > ask[r].at}

MemoryAdmits(r) ==
  /\ ask[r].step = "stamped" /\ Cardinality(MemoryKept(r)) < Limit
  /\ memory' = MemoryKept(r) \cup {[req |-> r, at |-> ask[r].at]}
  /\ Admit(r, <<"memory", life.api>>)
  /\ ask' = [ask EXCEPT ![r].step = "admitted"]
  /\ UNCHANGED <<clock, log, written, life>>

MemoryRefuses(r) ==
  /\ ask[r].step = "stamped" /\ Cardinality(MemoryKept(r)) >= Limit
  /\ memory' = MemoryKept(r)
  /\ ask' = [ask EXCEPT ![r].step = "refused"]
  /\ UNCHANGED <<clock, log, written, life, admitted>>

-----------------------------------------------------------------------------
(* Restarts, and time *)

RedisRestarts ==
  /\ life.redis + life.api < MaxRestarts
  /\ life' = [life EXCEPT !.redis = @ + 1]
  /\ log' = {} /\ ask' = [r \in Request |-> [ask[r] EXCEPT !.sent = FALSE]]
  /\ UNCHANGED <<clock, written, memory, admitted>>

\* The window is lost with its process, and so are the requests that were asking.
ApiRestarts ==
  /\ life.redis + life.api < MaxRestarts
  /\ life' = [life EXCEPT !.api = @ + 1]
  /\ memory' = {}
  /\ ask' = [r \in Request |-> IF ask[r].step = "stamped" THEN [ask[r] EXCEPT !.step = "lost"]
                                                          ELSE ask[r]]
  /\ UNCHANGED <<clock, log, written, admitted>>

\* Nothing reads the clock once every request has been answered.
Tick ==
  /\ clock < MaxTime /\ \E r \in Request : ask[r].step \in {"new", "stamped"} \/ ask[r].sent
  /\ clock' = clock + 1
  /\ UNCHANGED <<ask, log, written, memory, life, admitted>>

Answers(r) == \/ RedisAdmits(r) \/ RedisRefuses(r) \/ MemoryAdmits(r) \/ MemoryRefuses(r)
Asks(r) == ReadClock(r) \/ Answers(r) \/ AnswerLost(r)
RateNext == (\E r \in Request : Asks(r)) \/ RedisRestarts \/ ApiRestarts \/ Tick
RateSpec == RateInit /\ [][RateNext]_rateVars

-----------------------------------------------------------------------------
(* Properties *)

\* check_rate_limit: of the requests that come and are answered within one window,
\* Redis admits no more than max_requests, and neither does the memory of one API
\* process, in whatever order they are counted, however late, and whatever expires
\* meanwhile.  Redis tells requests apart by their readings only.
AdmittedPerWindow ==
  \A via \in {a.via : a \in admitted}, t \in 0..MaxTime :
    LET inside == {a \in admitted : a.via = via /\ t <= a.at /\ a.done < t + Window}
        entries == IF via[1] = "redis" THEN {a.at : a \in inside} ELSE inside
    IN Cardinality(entries) <= Limit

\* check_rate_limit: a request is refused only when max_requests others have asked
\* less than a window before it, or later; the fallback, an answer that was lost
\* and a restart never refuse one for less.
RefusedOnlyWhenBusy ==
  \A r \in Request : ask[r].step = "refused" =>
    Cardinality({q \in Request \ {r} : ask[q].step # "new" /\ ask[q].at + Window > ask[r].at}) >= Limit
=============================================================================
