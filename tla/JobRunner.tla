------------------------------- MODULE JobRunner -------------------------------
(***************************************************************************)
(* The maintenance job that deletes inactive guests.  Every runtime has a  *)
(* runner: the primary's is made by startClusteredServer(), a worker's by  *)
(* the createAgentServer() it calls.  A runner judges guests by the        *)
(* indexes of its own process and locks its job in the lock table of its   *)
(* own process.                                                            *)
(*                                                                         *)
(*   server/jobs/job_runner.js               timers, runs, rescheduling    *)
(*   server/jobs/guest_cleanup_inactive.js   whom a run deletes            *)
(*   server/jobs/guest_collect.js            what it judges them by        *)
(*   server/runtime/state_system.js          acquireLock and releaseLock   *)
(*   server/runtime/cluster.js, app.js       runners, commits, broadcasts  *)
(*                                                                         *)
(* Data abstraction: the changes of a guest's files are numbered.  On disk *)
(* are those up to latest[g], the ones up to cutoff[g] are older than 72   *)
(* hours, and an index has a newest one, 0 when it lists no file of the    *)
(* guest.  A request and its session end with the guest's files.           *)
(* LazyShards says how shards are loaded and copied, StateReplication how  *)
(* the user index is replicated; here a worker starts from the primary's   *)
(* user index, without shards, and applies deltas in order.  Time is       *)
(* relative: how long until a timer fires, which it may do late.  A run    *)
(* fails where the removal of a directory throws.                          *)
(*                                                                         *)
(* Bounds: MaxRequests requests of guests; MaxFaults failed runs and exits *)
(* of workers.                                                             *)
(***************************************************************************)
EXTENDS Integers, Sequences, FiniteSets

CONSTANTS
  Primary, Workers,  \* the runtimes
  Guests,
  Every, Ttl,        \* normalizeSchedule's everyMs and lockTtlMs
  MaxRequests, MaxFaults

ASSUME ScheduleAssumption ==
  /\ Primary \notin Workers
  /\ Every \in Nat \ {0} /\ Ttl \in Nat /\ Ttl >= Every
  /\ MaxRequests \in Nat /\ MaxFaults \in Nat

Runtimes == Workers \union {Primary}

(* With workers the primary serves no requests.                             *)
Servers == IF Workers = {} THEN {Primary} ELSE Workers

VARIABLES
  phase,    \* of each runtime's runner of the job
  due,      \* time until the runner's timer fires
  age,      \* time since lastStartedAt, up to Every
  lock,     \* time until the job's lock record in this process expires
  todo,     \* the run's guests still to be judged, with the run's cutoff
  disk,     \* the guests who have a directory
  latest,   \* the newest change of each guest's files
  cutoff,   \* the newest one that is too long ago
  known,    \* the guests in each runtime's user index
  seen,     \* the newest change in its file index
  up,       \* commits and loads on their way to the primary's queue
  down,     \* the primary's messages to each worker
  lost,     \* ghost: deleted by a worker that exited before it could say so
  requests, faults  \* counters of the bounds

runnerVars == <<phase, due, age, lock, todo>>
diskVars   == <<disk, latest, cutoff>>
indexVars  == <<known, seen>>
wireVars   == <<up, down>>
boundVars  == <<requests, faults>>
vars == <<phase, due, age, lock, todo, disk, latest, cutoff, known, seen,
          up, down, lost, requests, faults>>
-----------------------------------------------------------------------------
Phases == {"down", "scheduled", "running", "committing"}

(* What is sent to the primary's queue: the paths of a request, the sign-in *)
(* files or all files of a guest to be loaded, a directory that was removed.*)
(* What comes back: a change of the user index, or the same with the shard. *)
Kinds  == {"write", "auth", "files", "remove"}
Deltas == {"listed", "unlisted"}

Message(kind, g, n) == [kind |-> kind, guest |-> g, change |-> n]
Is(m, kind, g) == m.kind = kind /\ m.guest = g

Nobody == [g \in {} |-> 0]

Newest(m, n) == IF m < n THEN n ELSE m
Before(n) == IF n > 0 THEN n - 1 ELSE 0
Without(f, S) == [g \in DOMAIN f \ S |-> f[g]]
Send(r, m) == up' = [up EXCEPT ![r] = Append(@, m)]

(* A guest of before the start is on disk and in no index.                  *)
Init ==
  /\ phase = [r \in Runtimes |-> "scheduled"]
  /\ due = [r \in Runtimes |-> Every] /\ age = [r \in Runtimes |-> Every]
  /\ lock = [r \in Runtimes |-> 0] /\ todo = [r \in Runtimes |-> Nobody]
  /\ disk \in SUBSET Guests
  /\ latest = [g \in Guests |-> IF g \in disk THEN 1 ELSE 0]
  /\ cutoff \in [Guests -> 0..1] /\ \A g \in Guests : cutoff[g] <= latest[g]
  /\ known = [r \in Runtimes |-> {}]
  /\ seen = [r \in Runtimes |-> [g \in Guests |-> 0]]
  /\ up = [r \in Runtimes |-> << >>] /\ down = [w \in Workers |-> << >>]
  /\ lost = {} /\ requests = 0 /\ faults = 0
-----------------------------------------------------------------------------
(* Time.                                                                    *)
Tick ==
  /\ due' = [r \in Runtimes |-> Before(due[r])]
  /\ age' = [r \in Runtimes |-> IF age[r] < Every THEN age[r] + 1 ELSE Every]
  /\ lock' = [r \in Runtimes |-> Before(lock[r])]
  /\ UNCHANGED <<phase, todo, diskVars, indexVars, wireVars, lost, boundVars>>

GrowOld(g) ==
  /\ cutoff[g] < latest[g]
  /\ cutoff' = [cutoff EXCEPT ![g] = @ + 1]
  /\ UNCHANGED <<runnerVars, disk, latest, indexVars, wireVars, lost,
                 boundVars>>
-----------------------------------------------------------------------------
(* Requests of guests, in a runtime that serves.                            *)
Request(s) ==
  /\ phase[s] # "down" /\ requests < MaxRequests
  /\ requests' = requests + 1
  /\ UNCHANGED <<runnerVars, cutoff, indexVars, down, lost, faults>>

(* createGuestUser makes a directory under a name never used before.        *)
SignUp(s, g) ==
  /\ Request(s)
  /\ latest[g] = 0
  /\ disk' = disk \union {g} /\ latest' = [latest EXCEPT ![g] = 1]
  /\ Send(s, Message("write", g, 1))

(* A guest with a session changes a file.                                   *)
Write(s, g) ==
  /\ Request(s)
  /\ g \in disk /\ g \in known[s]
  /\ latest' = [latest EXCEPT ![g] = @ + 1] /\ UNCHANGED disk
  /\ Send(s, Message("write", g, latest[g] + 1))

(* ensureUserAuthState and ensureUserFileIndex for the user of a cookie.    *)
Visit(s, g) ==
  /\ Request(s)
  /\ latest[g] > 0
  /\ \E kind \in {"auth", "files"} : Send(s, Message(kind, g, 1))
  /\ UNCHANGED <<disk, latest>>
-----------------------------------------------------------------------------
(* The primary's queue of operations.                                       *)

(* The paths of op are read from the disk: a change that is listed may be a *)
(* later one of the same file, and a whole tree is read when the shard is   *)
(* not loaded yet.  A path of a directory that is gone does not tell the    *)
(* user index so.                                                           *)
Index(op) ==
  \/ /\ op.guest \in disk
     /\ known' = [known EXCEPT ![Primary] = @ \union {op.guest}]
     /\ \E n \in Newest(seen[Primary][op.guest], op.change)..latest[op.guest] :
          seen' = [seen EXCEPT ![Primary][op.guest] = n]
  \/ /\ op.guest \notin disk /\ op.kind # "write"
     /\ known' = [known EXCEPT ![Primary] = @ \ {op.guest}]
     /\ seen' = [seen EXCEPT ![Primary][op.guest] = 0]
  \/ /\ op.guest \notin disk /\ op.kind = "write"
     /\ UNCHANGED <<known, seen>>

(* What happened to the guest in the primary's user index.                  *)
Change(g) ==
  IF g \in known'[Primary] \ known[Primary] THEN <<Message("listed", g, 0)>>
  ELSE IF g \in known[Primary] \ known'[Primary]
       THEN <<Message("unlisted", g, 0)>> ELSE << >>

(* Mutant: only the worker that asked is told.                              *)
TellOnlyTheAsker(r, w, g) == IF w = r THEN Change(g) ELSE << >>

(* The replicated delta goes to every worker ...                            *)
Tell(r, w, g) == Change(g)

(* ... and the answer, with the shard unless sign-in files were loaded, to  *)
(* the one that asked.                                                      *)
Reply(r, w, op) ==
  IF w = r /\ op.kind # "auth"
  THEN <<Message(op.kind, op.guest, seen'[Primary][op.guest])>> ELSE << >>

(* An operation runs.  In the primary a run that awaits it goes on at once. *)
Handle(r) ==
  /\ up[r] # << >>
  /\ up' = [up EXCEPT ![r] = Tail(@)]
  /\ LET op == Head(up[r]) IN
     /\ Index(op)
     /\ down' = [w \in Workers |->
                   IF phase[w] = "down" THEN << >>
                   ELSE down[w] \o (Tell(r, w, op.guest) \o Reply(r, w, op))]
     /\ phase' = IF r = Primary /\ op.kind = "remove"
                 THEN [phase EXCEPT ![r] = "running"] ELSE phase
  /\ UNCHANGED <<due, age, lock, todo, diskVars, lost, boundVars>>

(* A worker applies a delta, or goes on with an answer.                     *)
Receive(w) ==
  /\ down[w] # << >>
  /\ down' = [down EXCEPT ![w] = Tail(@)]
  /\ LET m == Head(down[w]) IN
     \/ /\ m.kind \in Deltas
        /\ known' = [known EXCEPT ![w] = IF m.kind = "listed"
                                         THEN @ \union {m.guest}
                                         ELSE @ \ {m.guest}]
        /\ UNCHANGED <<seen, phase>>
     \/ /\ m.kind \in Kinds
        /\ seen' = [seen EXCEPT ![w][m.guest] = m.change]
        /\ phase' = IF m.kind = "remove" THEN [phase EXCEPT ![w] = "running"]
                    ELSE phase
        /\ UNCHANGED known
  /\ UNCHANGED <<due, age, lock, todo, diskVars, up, lost, boundVars>>
-----------------------------------------------------------------------------
(* The runner.                                                              *)

(* Mutant: the next run is due right away.                                  *)
RescheduleNow(r, sinceStart) == due' = [due EXCEPT ![r] = 0]

(* The finally block: the next run is due Every after this one's start.     *)
Reschedule(r, sinceStart) == due' = [due EXCEPT ![r] = Every - sinceStart]

(* The timer fires.  A lock record that has not expired turns the run away. *)
Fire(r) ==
  /\ phase[r] = "scheduled" /\ due[r] = 0
  /\ age' = [age EXCEPT ![r] = 0]
  /\ IF lock[r] > 0
     THEN Reschedule(r, 0) /\ UNCHANGED <<phase, lock, todo>>
     ELSE /\ phase' = [phase EXCEPT ![r] = "running"]
          /\ lock' = [lock EXCEPT ![r] = Ttl]
          /\ todo' = [todo EXCEPT ![r] = [g \in known[r] |-> cutoff[g]]]
          /\ UNCHANGED due
  /\ UNCHANGED <<diskVars, indexVars, wireVars, lost, boundVars>>

(* latestChangeMs > cutoffMs.                                               *)
Spared(r) == {g \in DOMAIN todo[r] : seen[r][g] > todo[r][g]}

(* runTrackedMutation tells the primary's index and awaits it.              *)
Commit(r, g) ==
  /\ phase' = [phase EXCEPT ![r] = "committing"]
  /\ Send(r, Message("remove", g, 0))

(* The run passes over some guests it spares and deletes the next, one      *)
(* after the other because the commit is awaited.  There is nothing to      *)
(* commit when the directory is gone already.                               *)
Remove(r, g) ==
  /\ phase[r] = "running"
  /\ g \in DOMAIN todo[r] \ Spared(r)
  /\ \E S \in SUBSET Spared(r) :
       todo' = [todo EXCEPT ![r] = Without(@, S \union {g})]
  /\ \/ /\ g \in disk
        /\ disk' = disk \ {g}
        /\ Commit(r, g)
     \/ /\ g \notin disk
        /\ UNCHANGED <<disk, phase, up>>
  /\ UNCHANGED <<due, age, lock, latest, cutoff, indexVars, down, lost,
                 boundVars>>

(* The run is over: the lock is given back, the timer set.                  *)
EndRun(r) ==
  /\ phase' = [phase EXCEPT ![r] = "scheduled"]
  /\ lock' = [lock EXCEPT ![r] = 0]
  /\ todo' = [todo EXCEPT ![r] = Nobody]
  /\ Reschedule(r, age[r])
  /\ UNCHANGED <<age, diskVars, indexVars, wireVars, lost, requests>>

(* Mutant: the first guest to be spared ends the run.                       *)
StopAtTheFirst(r) == Spared(r) # {} \/ DOMAIN todo[r] = {}

(* Nobody is left to delete.                                                *)
AllJudged(r) == DOMAIN todo[r] = Spared(r)

FinishRun(r) ==
  /\ phase[r] = "running" /\ AllJudged(r)
  /\ EndRun(r)
  /\ UNCHANGED faults

CanFail(r) == (DOMAIN todo[r] \ Spared(r)) \intersect disk # {}

(* The removal of a guest throws.                                           *)
FailRun(r) ==
  /\ phase[r] = "running" /\ CanFail(r) /\ faults < MaxFaults
  /\ faults' = faults + 1
  /\ EndRun(r)

(* A worker exits with its run, its lock and what it had to say ...         *)
Unsaid(w) ==
  {up[w][i].guest : i \in {j \in DOMAIN up[w] : up[w][j].kind = "remove"}}

Crash(w) ==
  /\ phase[w] # "down" /\ faults < MaxFaults
  /\ faults' = faults + 1
  /\ phase' = [phase EXCEPT ![w] = "down"]
  /\ lock' = [lock EXCEPT ![w] = 0] /\ todo' = [todo EXCEPT ![w] = Nobody]
  /\ known' = [known EXCEPT ![w] = {}]
  /\ seen' = [seen EXCEPT ![w] = [g \in Guests |-> 0]]
  /\ up' = [up EXCEPT ![w] = << >>] /\ down' = [down EXCEPT ![w] = << >>]
  /\ lost' = lost \union Unsaid(w)
  /\ UNCHANGED <<due, age, diskVars, requests>>

(* ... and another takes its place.                                         *)
Start(w) ==
  /\ phase[w] = "down"
  /\ phase' = [phase EXCEPT ![w] = "scheduled"]
  /\ due' = [due EXCEPT ![w] = Every] /\ age' = [age EXCEPT ![w] = Every]
  /\ known' = [known EXCEPT ![w] = known[Primary]]
  /\ UNCHANGED <<lock, todo, diskVars, seen, wireVars, lost, boundVars>>
-----------------------------------------------------------------------------
Run(r) == Fire(r) \/ (\E g \in Guests : Remove(r, g)) \/ FinishRun(r)

Next ==
  \/ Tick
  \/ \E g \in Guests : \/ GrowOld(g)
                       \/ \E s \in Servers : SignUp(s, g) \/ Write(s, g)
                                             \/ Visit(s, g)
  \/ \E r \in Runtimes : Handle(r) \/ Run(r) \/ FailRun(r)
  \/ \E w \in Workers : Receive(w) \/ Crash(w) \/ Start(w)

(* Timers fire, runs go on, messages arrive, workers are replaced.          *)
Fairness ==
  /\ WF_vars(Tick)
  /\ \A r \in Runtimes : WF_vars(Handle(r)) /\ WF_vars(Run(r))
  /\ \A w \in Workers : WF_vars(Receive(w) \/ Start(w))

Spec == Init /\ [][Next]_vars
FairSpec == Spec /\ Fairness
-----------------------------------------------------------------------------
Numbers == 0..(MaxRequests + 1)

Ops == [kind : Kinds, guest : Guests, change : Numbers]
Messages == [kind : Kinds \union Deltas, guest : Guests, change : Numbers]

TypeOK ==
  /\ phase \in [Runtimes -> Phases]
  /\ due \in [Runtimes -> 0..Every] /\ age \in [Runtimes -> 0..Every]
  /\ lock \in [Runtimes -> 0..Ttl]
  /\ todo \in [Runtimes -> UNION {[S -> Numbers] : S \in SUBSET Guests}]
  /\ disk \subseteq Guests
  /\ latest \in [Guests -> Numbers] /\ cutoff \in [Guests -> Numbers]
  /\ known \in [Runtimes -> SUBSET Guests]
  /\ seen \in [Runtimes -> [Guests -> Numbers]]
  /\ up \in [Runtimes -> Seq(Ops)] /\ down \in [Workers -> Seq(Messages)]
  /\ lost \subseteq Guests
  /\ requests \in 0..MaxRequests /\ faults \in 0..MaxFaults

(* A runner whose timer fires last started the job Every ago or longer, be  *)
(* it that its run was long or failed, and finds its lock free: no burst of *)
(* runs to catch up and none that is skipped.                               *)
RunsSpaced ==
  \A r \in Runtimes :
    phase[r] = "scheduled" /\ due[r] = 0 => age[r] = Every /\ lock[r] = 0

(* A guest whose files are gone leaves the user index of every process,     *)
(* and with it goes the session: until then the commit or the delta that    *)
(* will see to it is on its way, whatever runs in whichever processes       *)
(* delete guests at once.  A worker that exits with the commit unsent is    *)
(* the exception.                                                           *)
RemovalOnItsWay(g) ==
  \E r \in Runtimes : \E i \in DOMAIN up[r] : Is(up[r][i], "remove", g)

GoneIsForgotten ==
  \A r \in Runtimes : \A g \in known[r] \ (disk \union lost) :
    \/ RemovalOnItsWay(g)
    \/ r \in Workers /\ \E i \in DOMAIN down[r] : Is(down[r][i], "unlisted", g)

(* Only guests are deleted whose changes in the primary's index are older   *)
(* than the cutoff, as jobs-and-maintenance.md:72 has it.                   *)
ActiveGuestsKept ==
  [][\A g \in disk \ disk' : seen[Primary][g] <= cutoff[g]]_vars

(* An inactive guest in the primary's user index is deleted, or becomes     *)
(* active again: a run that fails or spares others comes back to it.        *)
Inactive(g) == g \in disk /\ latest[g] <= cutoff[g]

InactiveGuestsGo ==
  \A g \in Guests :
    g \in known[Primary] /\ Inactive(g) ~> ~Inactive(g)

(* The inductive invariant behind RunsSpaced and GoneIsForgotten: a timer   *)
(* waits for what is left of Every; a guest who is gone and listed by the   *)
(* primary has a removal on its way; and what a worker will hear of a guest *)
(* the primary does not list ends with that.                                *)
CountersOK ==
  \A g \in Guests : cutoff[g] <= latest[g] /\ latest[g] <= requests + 1

TimersWait ==
  \A r \in Runtimes :
    /\ phase[r] = "scheduled" => due[r] + age[r] >= Every
    /\ phase[r] \in {"scheduled", "down"} => lock[r] = 0

RemovalsOK ==
  \A g \in known[Primary] \ (disk \union lost) : RemovalOnItsWay(g)

DeltasOK ==
  \A w \in Workers, g \in Guests :
    g \notin known[Primary] =>
      /\ g \in known[w] =>
           \E i \in DOMAIN down[w] : Is(down[w][i], "unlisted", g)
      /\ \A i \in DOMAIN down[w] :
           Is(down[w][i], "listed", g) =>
             \E j \in DOMAIN down[w] : i < j /\ Is(down[w][j], "unlisted", g)

(* A runtime that is down hears nothing.                                    *)
DownIsEmpty ==
  /\ \A w \in Workers : phase[w] = "down" => down[w] = << >> /\ known[w] = {}
  /\ phase[Primary] # "down"

IInv ==
  TypeOK /\ CountersOK /\ TimersWait /\ RemovalsOK /\ DeltasOK /\ DownIsEmpty
=============================================================================
