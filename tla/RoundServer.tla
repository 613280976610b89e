----------------------------- MODULE RoundServer -----------------------------
(***************************************************************************)
(* The round endpoint of central/httpround.py: the members it believes     *)
(* alive, the state that its handler threads and its driver thread share   *)
(* under one lock, and the driver, which opens a fit and an evaluate phase *)
(* per round, waits, copies the answers, closes the phase and aggregates.  *)
(*                                                                         *)
(* Each critical section of the lock is one step.  Clocks are abstracted:  *)
(* a member may fall out of the liveness window and a deadline may pass at *)
(* any time.  Of the strategy only what the rounds depend on is kept:      *)
(* whether there is a global model yet, and whom it asks.                  *)
(***************************************************************************)
EXTENDS Naturals, FiniteSets

CONSTANTS Cluster,      \* cluster ids
          NumRounds,    \* --num-rounds
          MinClients    \* --min-clients

ASSUME RoundAssumption == /\ NumRounds \in Nat \ {0}
                          /\ MinClients \in Nat \ {0}
                          /\ IsFiniteSet(Cluster)

VARIABLES server,       \* RoundState
          live,         \* HttpClientManager.live(): who was heard of lately
          driver,       \* run_rounds: where it is, and the answers it copied
          seeded        \* the strategy has a global model

serverVars == <<server, live, driver, seeded>>

Kind == {"fit", "evaluate"}
Round == 1 .. NumRounds

(* What a cluster posts to /result. *)
Report == [cluster : Cluster, round : Round, kind : Kind, status : {"ok", "error"}]

RoundState == [round    : 0 .. NumRounds,
               kind     : Kind \cup {""},
               expected : SUBSET Cluster,
               results  : SUBSET Report,
               failures : SUBSET Cluster,
               finished : BOOLEAN,
               stopped  : SUBSET Cluster]

Driver == [at    : {"waiting", "configuring", "collecting", "copying", "closing",
                    "aggregating", "lingering", "down"},
           round : Round,
           kind  : Kind,
           got   : SUBSET Report]

Up == driver.at # "down"
------------------------------------------------------------------------------
(* RoundState: open, close, submit, and the answers of /poll. *)

Opened(s, r, k, asked) ==
  [s EXCEPT !.round = r, !.kind = k, !.expected = asked,
            !.results = {}, !.failures = {}]

Closed(s) == [s EXCEPT !.kind = "", !.expected = {}]

Answered(s) == {r.cluster : r \in s.results} \cup s.failures

(* A report of another round is accepted: no comparison of the rounds. *)
Submitted_(s, r) ==
  IF r.cluster \notin s.expected
  THEN s
  ELSE IF r.status = "ok"
       THEN [s EXCEPT !.results =
               {x \in s.results : x.cluster # r.cluster} \cup {r}]
       ELSE [s EXCEPT !.failures = @ \cup {r.cluster}]

(* A second answer replaces the first; the kind asked for is not compared. *)
Submitted(s, r) ==
  IF r.round # s.round \/ r.cluster \notin s.expected
  THEN s
  ELSE IF r.status = "ok"
       THEN [s EXCEPT !.results =
               {x \in s.results : x.cluster # r.cluster} \cup {r}]
       ELSE [s EXCEPT !.failures = @ \cup {r.cluster}]

(* The poller is given the open phase although it has answered it. *)
HasTask_(s, c) == s.kind # "" /\ c \in s.expected

HasTask(s, c) == s.kind # "" /\ c \in s.expected \ Answered(s)

Touch(c) == live' = live \cup {c}
------------------------------------------------------------------------------
(* The handlers, as seen by the server.  A poll is held open: its touch    *)
(* comes when it arrives (Join does the same), its answer when it is due.  *)

Join(c) == Up /\ Touch(c) /\ UNCHANGED <<server, driver, seeded>>

PollTask(c) ==
  /\ Up
  /\ ~server.finished
  /\ HasTask(server, c)
  /\ UNCHANGED serverVars

PollStop(c) ==
  /\ Up
  /\ server.finished
  /\ server' = [server EXCEPT !.stopped = @ \cup {c}]
  /\ UNCHANGED <<live, driver, seeded>>

Result(r) ==
  /\ Up
  /\ Touch(r.cluster)
  /\ server' = Submitted(server, r)
  /\ UNCHANGED <<driver, seeded>>

(* Nothing was heard of c for liveness_s. *)
FallSilent(c) == c \in live /\ live' = live \ {c} /\ UNCHANGED <<server, driver, seeded>>
------------------------------------------------------------------------------
(* The driver thread, run_rounds. *)

(* One cluster more than was asked for. *)
WaitForClients_ ==
  /\ driver.at = "waiting"
  /\ Cardinality(live) > MinClients
  /\ driver' = [driver EXCEPT !.at = "configuring"]
  /\ UNCHANGED <<server, live, seeded>>

WaitForClients ==
  /\ driver.at = "waiting"
  /\ Cardinality(live) >= MinClients
  /\ driver' = [driver EXCEPT !.at = "configuring"]
  /\ UNCHANGED <<server, live, seeded>>

(* Everyone who is live, or one cluster to seed the model. *)
Samples == IF seeded THEN {live} ELSE {{c} : c \in live}

OpenPhase(asked) ==
  /\ server' = Opened(server, driver.round, driver.kind, asked)
  /\ driver' = [driver EXCEPT !.at = "collecting"]
  /\ UNCHANGED <<live, seeded>>

(* The next round of the loop; after the last one the state is finished. *)
NextRound ==
  IF driver.round < NumRounds
  THEN /\ driver' = [driver EXCEPT !.at = "waiting", !.kind = "fit", !.got = {},
                                   !.round = @ + 1]
       /\ UNCHANGED server
  ELSE /\ driver' = [driver EXCEPT !.at = "lingering", !.got = {}]
       /\ server' = [server EXCEPT !.finished = TRUE]

ConfigureFit ==
  /\ driver.at = "configuring" /\ driver.kind = "fit"
  /\ \/ live # {} /\ \E asked \in Samples : OpenPhase(asked)
     \/ live = {} /\ NextRound /\ UNCHANGED <<live, seeded>>

ConfigureEvaluate ==
  /\ driver.at = "configuring" /\ driver.kind = "evaluate"
  /\ \/ seeded /\ live # {} /\ OpenPhase(live)
     \/ (~seeded \/ live = {}) /\ NextRound /\ UNCHANGED <<live, seeded>>

(* Only an answer from everyone, or the deadline, ends the wait. *)
MayStopWaiting_(s) == s.expected \subseteq Answered(s)

(* wait_for_all: everyone answered, or nobody who did not is still live. *)
MayStopWaiting(s) ==
  LET outstanding == s.expected \ Answered(s)
  IN  outstanding = {} \/ outstanding \cap live = {}

StopWaiting ==
  /\ driver.at = "collecting"
  /\ MayStopWaiting(server)
  /\ driver' = [driver EXCEPT !.at = "copying"]
  /\ UNCHANGED <<server, live, seeded>>

TimeOut ==
  /\ driver.at = "collecting"
  /\ driver' = [driver EXCEPT !.at = "copying"]
  /\ UNCHANGED <<server, live, seeded>>

CopyAnswers ==
  /\ driver.at = "copying"
  /\ driver' = [driver EXCEPT !.at = "closing", !.got = server.results]
  /\ UNCHANGED <<server, live, seeded>>

ClosePhase ==
  /\ driver.at = "closing"
  /\ server' = Closed(server)
  /\ driver' = [driver EXCEPT !.at = "aggregating"]
  /\ UNCHANGED <<live, seeded>>

(* A first merge seeds the model if the cluster that was asked did upload it. *)
AggregateFit ==
  /\ driver.at = "aggregating" /\ driver.kind = "fit"
  /\ seeded' \in IF driver.got = {} THEN {seeded} ELSE {seeded, TRUE}
  /\ driver' = [driver EXCEPT !.at = "configuring", !.kind = "evaluate", !.got = {}]
  /\ UNCHANGED <<server, live>>

AggregateEvaluate ==
  /\ driver.at = "aggregating" /\ driver.kind = "evaluate"
  /\ NextRound
  /\ UNCHANGED <<live, seeded>>

(* serve: until every live cluster has its stop, but no longer than the grace. *)
ShutDown ==
  /\ driver.at = "lingering"
  /\ driver' = [driver EXCEPT !.at = "down"]
  /\ UNCHANGED <<server, live, seeded>>

Drive == \/ WaitForClients    \/ ConfigureFit \/ ConfigureEvaluate
         \/ StopWaiting       \/ TimeOut      \/ CopyAnswers \/ ClosePhase
         \/ AggregateFit      \/ AggregateEvaluate
         \/ ShutDown

ServerInit ==
  /\ server = [round |-> 0, kind |-> "", expected |-> {}, results |-> {},
               failures |-> {}, finished |-> FALSE, stopped |-> {}]
  /\ live = {}
  /\ driver = [at |-> "waiting", round |-> 1, kind |-> "fit", got |-> {}]
  /\ seeded \in BOOLEAN
==============================================================================
