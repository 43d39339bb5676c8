------------------------------- MODULE Server -------------------------------
(***************************************************************************)
(* The life of the process, with the rate limiter and the account requests *)
(* in it: it listens before the database is there, serves, is told to stop *)
(* and drains, or dies at any point, and is started again.  Users outlive  *)
(* it, the limiter does not.                                               *)
(***************************************************************************)
EXTENDS RateLimit, Accounts

CONSTANTS MongoAttempts, \* 12
          Jobs,          \* runs of the cron jobs there may be
          BootJobs,      \* those that the boot starts itself
          MaxStarts,     \* bound on the starts
          Timed          \* the Tasks with time, one start and no signal; a bound as well

ASSUME LifeAssumption ==
  /\ MongoAttempts \in Nat \ {0} /\ MaxStarts \in Nat \ {0}
  /\ BootJobs \subseteq Jobs /\ Timed \subseteq Tasks

VARIABLES phase,   \* "off", "boot", "serving", "drain"
          tried,   \* attempts to connect to the database
          late,    \* the 15 s of the shutdown are over
          jobs,    \* the jobs that run
          starts   \* how often the process was started

lifeVars == <<phase, tried, late, jobs, starts>>
vars == <<limiterVars, accountVars, lifeVars>>

Init ==
  /\ LimiterInit /\ AccountsInit
  /\ phase = "off" /\ tried = 0 /\ late = FALSE /\ jobs = {} /\ starts = 0

-----------------------------------------------------------------------------
(* Lifecycle.                                                              *)

Start ==
  /\ phase = "off" /\ starts < IF task \in Timed THEN 1 ELSE MaxStarts
  /\ phase' = "boot" /\ starts' = starts + 1
  /\ UNCHANGED <<limiterVars, accountVars, tried, late, jobs>>

InFlight == {r \in Reqs : at[r] \in Busy \cup {"limit"}}

(* The end of the process cuts off what still runs in it. *)
Exit ==
  /\ phase' = "off"
  /\ jobs' = {}
  /\ Forget
  /\ at' = [r \in Reqs |-> IF r \in InFlight THEN After(r, "cut") ELSE at[r]]
  /\ tried' = 0 /\ late' = FALSE
  /\ UNCHANGED <<task, users, found, starts>>

(* Mutant of ConnectFails: the last attempt is like the others. *)
ConnectFailsOver ==
  /\ phase = "boot" /\ tried < MongoAttempts
  /\ tried' = tried + 1
  /\ UNCHANGED <<limiterVars, accountVars, phase, late, jobs, starts>>

(* Mutant of ConnectFails: starts over when it should give up. *)
ConnectFailsAgain ==
  /\ phase = "boot"
  /\ tried' = (tried + 1) % MongoAttempts
  /\ UNCHANGED <<limiterVars, accountVars, phase, late, jobs, starts>>

ConnectFails ==
  /\ phase = "boot" /\ tried + 1 < MongoAttempts
  /\ tried' = tried + 1
  /\ UNCHANGED <<limiterVars, accountVars, phase, late, jobs, starts>>

(* The last attempt fails. *)
ConnectGivesUp ==
  /\ phase = "boot" /\ tried + 1 = MongoAttempts
  /\ Exit

(* Connected: the boot refresh begins, the router is swapped in, the crons *)
(* start and signals are taken, one right after the other.                 *)
Connect ==
  /\ phase = "boot"
  /\ phase' = "serving"
  /\ jobs' = BootJobs
  /\ UNCHANGED <<limiterVars, accountVars, tried, late, starts>>

CronFires(j) ==
  /\ phase = "serving" /\ j \notin jobs
  /\ jobs' = jobs \cup {j}
  /\ UNCHANGED <<limiterVars, accountVars, phase, tried, late, starts>>

JobEnds(j) ==
  /\ j \in jobs
  /\ jobs' = jobs \ {j}
  /\ UNCHANGED <<limiterVars, accountVars, phase, tried, late, starts>>

(* SIGTERM: the crons stop, the listener closes. *)
Signal ==
  /\ phase = "serving" /\ task \notin Timed
  /\ phase' = "drain"
  /\ UNCHANGED <<limiterVars, accountVars, tried, late, jobs, starts>>

(* Shutdown's context is over. *)
Deadline ==
  /\ phase = "drain" /\ ~late
  /\ late' = TRUE
  /\ UNCHANGED <<limiterVars, accountVars, phase, tried, jobs, starts>>

(* Mutant of Drained: waits for the jobs as well, and for no deadline. *)
DrainedOfAll ==
  /\ phase = "drain" /\ InFlight = {} /\ jobs = {}
  /\ Exit

(* No request is left, or the time is over; nobody waits for jobs. *)
Drained ==
  /\ phase = "drain" /\ (InFlight = {} \/ late)
  /\ Exit

(* The machine stops, or a signal comes before signals are taken. *)
Crash ==
  /\ phase # "off"
  /\ Exit

-----------------------------------------------------------------------------
(* Requests.                                                               *)

(* Before the router is there every request gets a 503. *)
Unready(r) ==
  /\ phase = "boot" /\ at[r] = "idle"
  /\ Go(r, "refused")
  /\ UNCHANGED <<limiterVars, task, users, found, lifeVars>>

Limited(r) == task[r].kind \in {"register", "login", "lookup", "daily"}

Accept(r) ==
  /\ phase = "serving" /\ at[r] = "idle"
  /\ IF Limited(r)
     THEN ReadClock(r) /\ Go(r, "limit") /\ UNCHANGED <<task, users, found>>
     ELSE Begin(r) /\ UNCHANGED limiterVars
  /\ UNCHANGED lifeVars

(* The limiter's verdict: the handler, or a 429. *)
PassLimiter(r) ==
  /\ at[r] = "limit"
  /\ Count(r)
  /\ IF Passes(Client[r], stamp[r])
     THEN Begin(r)
     ELSE Go(r, "refused") /\ UNCHANGED <<task, users, found>>
  /\ UNCHANGED lifeVars

Serve(r) == Handle(r) /\ UNCHANGED <<limiterVars, lifeVars>>

TimePasses == task \in Timed /\ Tick /\ UNCHANGED <<accountVars, lifeVars>>

(* The process is down, or serves and has nothing left to do. *)
Rest == phase \in {"off", "serving"} /\ InFlight = {} /\ UNCHANGED vars

Next ==
  \/ Start \/ ConnectFails \/ ConnectGivesUp \/ Connect
  \/ \E j \in Jobs : CronFires(j) \/ JobEnds(j)
  \/ Signal \/ Deadline \/ Drained \/ Crash
  \/ \E r \in Reqs : Unready(r) \/ Accept(r) \/ PassLimiter(r) \/ Serve(r)
  \/ TimePasses \/ Rest

Spec == Init /\ [][Next]_vars

(* The boot loop and the shutdown go on: every attempt has a timeout, and  *)
(* so has the shutdown.  A handler may hang.                               *)
Fairness ==
  /\ WF_vars(ConnectFails \/ ConnectGivesUp \/ Connect)
  /\ WF_vars(Deadline) /\ WF_vars(Drained)

FairSpec == Spec /\ Fairness

-----------------------------------------------------------------------------
TypeOK ==
  /\ LimiterTypeOK /\ AccountsTypeOK
  /\ phase \in {"off", "boot", "serving", "drain"}
  /\ tried \in 0..(MongoAttempts - 1)
  /\ late \in BOOLEAN
  /\ jobs \subseteq Jobs
  /\ starts \in 0..MaxStarts

(***************************************************************************)
(* A process that boots serves or exits, however often the database is not *)
(* there.                                                                  *)
(***************************************************************************)
BootEnds == phase = "boot" ~> phase \in {"serving", "off"}

(***************************************************************************)
(* A process that is told to stop ends, with handlers that hang and jobs   *)
(* that nobody waits for.                                                  *)
(***************************************************************************)
DrainEnds == phase = "drain" ~> phase = "off"
=============================================================================
