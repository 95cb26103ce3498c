------------------------------- MODULE Supervisor -------------------------------
(***************************************************************************)
(* The supervisor of `space supervise`: it starts serve children, switches *)
(* its public proxy to a replacement when a newer revision is published,   *)
(* drains the old child, and restarts a child that crashes.                *)
(*                                                                         *)
(*   commands/lib/supervisor/supervisor.js     the flows                   *)
(*   commands/lib/supervisor/child_process.js  a child's start and stop    *)
(*                                                                         *)
(* Three flows start children, each with awaits of its own: start(), the   *)
(* update check and the crash restart.  They meet in activeChild and in    *)
(* drainingChildren.  The traffic that keeps an old child draining is      *)
(* abstracted to when draining is over.                                    *)
(*                                                                         *)
(* Bounds: MaxRevision publications; MaxFailures crashes, starts and       *)
(* stagings that fail; a child is spawned under the name of one that is    *)
(* gone and forgotten.                                                     *)
(***************************************************************************)
EXTENDS Integers, Sequences, SequencesExt

CONSTANTS
  Children, NoChild,
  AutoUpdate,    \* autoUpdateIntervalMs > 0
  MaxRevision, MaxFailures

ASSUME SupervisorAssumption ==
  /\ NoChild \notin Children
  /\ AutoUpdate \in BOOLEAN
  /\ MaxRevision \in Nat /\ MaxFailures \in Nat

VARIABLES
  proc,         \* of each child process
  release,      \* the revision it was started from
  active,       \* activeChild
  activeTarget, \* activeTarget.revision
  draining,     \* drainingChildren
  boot,         \* where start() is
  update,       \* where checkForUpdates() is: its child and target
  restart,      \* where restartFromTarget() is: its child and target
  stopping,     \* where stop() is
  awaited,      \* the children stop() waits for
  remote,       \* the revision the remote's branch is at
  failures      \* counter of the bound

childVars == <<proc, release>>
activeVars == <<active, activeTarget>>
stopVars == <<stopping, awaited>>
vars == <<proc, release, active, activeTarget, draining, boot, update, restart,
          stopping, awaited, remote, failures>>
-----------------------------------------------------------------------------
ProcessStates == {"gone", "starting", "serving", "ending"}
Revisions == 0..MaxRevision

Flow(ats) ==
  [at : ats, child : Children \union {NoChild}, target : Revisions]

(* isRunning, of a child that has become healthy.                           *)
Running(c) == proc[c] \in {"serving", "ending"}

(* A flow moves on with its target; or ends, and awaits nothing.            *)
MoveOn(flow, at, c) == [at |-> at, child |-> c, target |-> flow.target]
Idle(flow) == MoveOn(flow, "idle", NoChild)

Fresh ==
  {c \in Children : /\ proc[c] = "gone" /\ c # active
                    /\ c \notin ToSet(draining) \union awaited
                    /\ c \notin {boot.child, update.child, restart.child}}

(* startTarget: the process is spawned, its url and health are awaited.     *)
Spawn(c, r) ==
  /\ proc' = [proc EXCEPT ![c] = "starting"]
  /\ release' = [release EXCEPT ![c] = r]

(* child.stop: SIGTERM, and SIGKILL when the grace is over.                 *)
Ended(c) == IF proc[c] = "serving" THEN "ending" ELSE proc[c]

(* A start that fails: the child has exited, or it is told to.              *)
Discard(c) ==
  /\ failures < MaxFailures /\ failures' = failures + 1
  /\ \E s \in {"gone", "ending"} : proc' = [proc EXCEPT ![c] = s]

Init ==
  /\ \E c \in Children :
       /\ proc = [d \in Children |-> IF d = c THEN "starting" ELSE "gone"]
       /\ boot = [at |-> "starting", child |-> c]
  /\ release = [c \in Children |-> 0]
  /\ active = NoChild /\ activeTarget = 0 /\ draining = << >>
  /\ update = [at |-> "idle", child |-> NoChild, target |-> 0]
  /\ restart = update
  /\ stopping = "no" /\ awaited = {}
  /\ remote = 0 /\ failures = 0
-----------------------------------------------------------------------------
(* start().                                                                 *)
BootReady ==
  /\ boot.at = "starting" /\ proc[boot.child] = "starting"
  /\ proc' = [proc EXCEPT ![boot.child] = "serving"]
  /\ active' = boot.child
  /\ boot' = [at |-> "listening", child |-> NoChild]
  /\ UNCHANGED <<release, activeTarget, draining, update, restart, stopVars,
                 remote, failures>>

BootFails ==
  /\ boot.at = "starting"
  /\ Discard(boot.child)
  /\ boot' = [at |-> "failed", child |-> NoChild]
  /\ UNCHANGED <<release, activeVars, draining, update, restart, stopVars, remote>>

(* The public proxy listens, or its address is taken and start() rejects.   *)
ProxyListens ==
  /\ boot.at = "listening"
  /\ boot' = [at |-> "done", child |-> NoChild]
  /\ UNCHANGED <<childVars, activeVars, draining, update, restart, stopVars,
                 remote, failures>>

ProxyFails ==
  /\ boot.at = "listening"
  /\ failures < MaxFailures /\ failures' = failures + 1
  /\ boot' = [at |-> "failed", child |-> NoChild]
  /\ UNCHANGED <<childVars, activeVars, draining, update, restart, stopVars, remote>>
-----------------------------------------------------------------------------
Publish ==
  /\ remote < MaxRevision /\ remote' = remote + 1
  /\ UNCHANGED <<childVars, activeVars, draining, boot, update, restart,
                 stopVars, failures>>

(* The update timer, which only a finished start() and a finished check set.*)
CheckForUpdates ==
  /\ AutoUpdate /\ boot.at = "done" /\ stopping = "no"
  /\ update.at = "idle"
  /\ update' = MoveOn(update, "checking", NoChild)
  /\ UNCHANGED <<childVars, activeVars, draining, boot, restart, stopVars,
                 remote, failures>>

RemoteAnswers ==
  /\ update.at = "checking"
  /\ update' = IF activeTarget = remote THEN Idle(update)
               ELSE [at |-> "staging", child |-> NoChild, target |-> remote]
  /\ UNCHANGED <<childVars, activeVars, draining, boot, restart, stopVars,
                 remote, failures>>

Staged ==
  /\ update.at = "staging"
  /\ \E c \in Fresh :
       /\ Spawn(c, update.target)
       /\ update' = MoveOn(update, "starting", c)
  /\ UNCHANGED <<activeVars, draining, boot, restart, stopVars, remote, failures>>

(* Mutant: a check that fails leaves isCheckingUpdate behind.               *)
UpdateFailsForGood ==
  /\ update.at = "starting"
  /\ Discard(update.child)
  /\ UNCHANGED <<release, activeVars, draining, boot, update, restart, stopVars,
                 remote>>

UpdateFails ==
  /\ \/ /\ update.at \in {"checking", "staging"}
        /\ failures < MaxFailures /\ failures' = failures + 1
        /\ UNCHANGED proc
     \/ /\ update.at = "starting"
        /\ Discard(update.child)
  /\ update' = Idle(update)
  /\ UNCHANGED <<release, activeVars, draining, boot, restart, stopVars, remote>>

(* promoteChild: the proxy is switched, the previous child is drained.      *)
Promote(c, r) ==
  /\ active' = c /\ activeTarget' = r
  /\ draining' = IF active # NoChild /\ Running(active)
                 THEN Append(draining, active) ELSE draining

UpdateReady ==
  /\ update.at = "starting" /\ proc[update.child] = "starting"
  /\ proc' = [proc EXCEPT ![update.child] = "serving"]
  /\ Promote(update.child, update.target)
  /\ update' = Idle(update)
  /\ UNCHANGED <<release, boot, restart, stopVars, remote, failures>>

(* drainChild: the child has exited, gone quiet, or used up its time.       *)
DrainOver(c) ==
  /\ \E i \in DOMAIN draining : /\ draining[i] = c
                                /\ draining' = RemoveAt(draining, i)
  /\ proc' = [proc EXCEPT ![c] = Ended(c)]
  /\ UNCHANGED <<release, activeVars, boot, update, restart, stopVars, remote,
                 failures>>
-----------------------------------------------------------------------------
(* The last of drainingChildren that is running is the one to fall back to. *)
IsFallback(i) ==
  /\ Running(draining[i])
  /\ \A j \in DOMAIN draining : Running(draining[j]) => j <= i

(* Mutant: the fallback stays in drainingChildren.                          *)
FallBackUnlisted(i) ==
  /\ active' = draining[i] /\ activeTarget' = release[draining[i]]
  /\ UNCHANGED draining

(* tryFallbackToDrainingChild.                                              *)
FallBack(i) ==
  /\ active' = draining[i] /\ activeTarget' = release[draining[i]]
  /\ draining' = RemoveAt(draining, i)

(* A serving child exits unasked: one that is not active is not missed ...  *)
CrashBeside(c) ==
  /\ c # active \/ stopping # "no"
  /\ proc' = [proc EXCEPT ![c] = "gone"]
  /\ UNCHANGED <<release, activeVars, draining, restart>>

(* ... the active one is replaced by a child that is still draining ...     *)
CrashFallsBack(c) ==
  /\ c = active /\ stopping = "no"
  /\ \E i \in DOMAIN draining : IsFallback(i) /\ FallBack(i)
  /\ proc' = [proc EXCEPT ![c] = "gone"]
  /\ UNCHANGED <<release, restart>>

(* ... or restarted, unless a restart is under way.                         *)
CrashRestarts(c) ==
  /\ c = active /\ stopping = "no"
  /\ \A i \in DOMAIN draining : ~Running(draining[i])
  /\ active' = NoChild
  /\ \/ /\ restart.at = "idle"
        /\ \E d \in Fresh :
             /\ proc' = [proc EXCEPT ![c] = "gone", ![d] = "starting"]
             /\ release' = [release EXCEPT ![d] = release[c]]
             /\ restart' = [at |-> "starting", child |-> d, target |-> release[c]]
     \/ /\ restart.at # "idle"
        /\ proc' = [proc EXCEPT ![c] = "gone"]
        /\ UNCHANGED <<release, restart>>
  /\ UNCHANGED <<activeTarget, draining>>

Crash(c) ==
  /\ proc[c] = "serving"
  /\ failures < MaxFailures /\ failures' = failures + 1
  /\ CrashBeside(c) \/ CrashFallsBack(c) \/ CrashRestarts(c)
  /\ UNCHANGED <<boot, update, stopVars, remote>>

(* A child that was told to stop has stopped.                               *)
Exit(c) ==
  /\ proc[c] = "ending"
  /\ proc' = [proc EXCEPT ![c] = "gone"]
  /\ UNCHANGED <<release, activeVars, draining, boot, update, restart, stopVars,
                 remote, failures>>

(* Mutant: the restarted child takes over whoever is active by now.         *)
RestartReadyUnchecked ==
  /\ restart.at = "starting" /\ proc[restart.child] = "starting"
  /\ active' = restart.child /\ activeTarget' = restart.target
  /\ restart' = Idle(restart)
  /\ proc' = [proc EXCEPT ![restart.child] = "serving"]
  /\ UNCHANGED <<release, draining, boot, update, stopVars, remote, failures>>

(* restartFromTarget: the child takes over, or an update was faster and it  *)
(* is stopped again, which the flow awaits.                                 *)
RestartReady ==
  /\ restart.at = "starting" /\ proc[restart.child] = "starting"
  /\ \/ /\ active = NoChild
        /\ active' = restart.child /\ activeTarget' = restart.target
        /\ restart' = Idle(restart)
        /\ proc' = [proc EXCEPT ![restart.child] = "serving"]
     \/ /\ active # NoChild
        /\ restart' = MoveOn(restart, "discarding", restart.child)
        /\ proc' = [proc EXCEPT ![restart.child] = "ending"]
        /\ UNCHANGED activeVars
  /\ UNCHANGED <<release, draining, boot, update, stopVars, remote, failures>>

(* Mutant: no second attempt.                                               *)
RestartFailsForGood ==
  /\ restart.at = "starting"
  /\ Discard(restart.child)
  /\ restart' = Idle(restart)
  /\ UNCHANGED <<release, activeVars, draining, boot, update, stopVars, remote>>

RestartFails ==
  /\ restart.at = "starting"
  /\ Discard(restart.child)
  /\ restart' = IF stopping = "no" /\ active = NoChild
                THEN MoveOn(restart, "waiting", NoChild)
                ELSE Idle(restart)
  /\ UNCHANGED <<release, activeVars, draining, boot, update, stopVars, remote>>

(* The backoff is over: the next attempt starts, whatever has happened.     *)
BackoffOver ==
  /\ restart.at = "waiting"
  /\ \E c \in Fresh :
       /\ Spawn(c, restart.target)
       /\ restart' = MoveOn(restart, "starting", c)
  /\ UNCHANGED <<activeVars, draining, boot, update, stopVars, remote, failures>>

Discarded ==
  /\ restart.at = "discarding" /\ proc[restart.child] = "gone"
  /\ restart' = Idle(restart)
  /\ UNCHANGED <<childVars, activeVars, draining, boot, update, stopVars, remote,
                 failures>>
-----------------------------------------------------------------------------
StoppedNow == ({active} \ {NoChild}) \union ToSet(draining)

(* stop(), on SIGINT or SIGTERM.                                            *)
Stop ==
  /\ stopping = "no" /\ stopping' = "waiting"
  /\ awaited' = StoppedNow /\ draining' = << >>
  /\ proc' = [c \in Children |-> IF c \in StoppedNow THEN Ended(c) ELSE proc[c]]
  /\ UNCHANGED <<release, activeVars, boot, update, restart, remote, failures>>

StopEnds ==
  /\ stopping = "waiting" /\ \A c \in awaited : proc[c] = "gone"
  /\ stopping' = "stopped" /\ awaited' = {}
  /\ UNCHANGED <<childVars, activeVars, draining, boot, update, restart, remote,
                 failures>>
-----------------------------------------------------------------------------
Next ==
  \/ BootReady \/ BootFails \/ ProxyListens \/ ProxyFails
  \/ Publish \/ CheckForUpdates \/ RemoteAnswers \/ Staged \/ UpdateReady
  \/ UpdateFails \/ RestartReady \/ RestartFails \/ BackoffOver \/ Discarded
  \/ Stop \/ StopEnds
  \/ \E c \in Children : DrainOver(c) \/ Crash(c) \/ Exit(c)

(* Timers fire, awaited processes and remotes answer in bounded time, and   *)
(* draining and stopping have deadlines.                                    *)
Fairness ==
  /\ WF_vars(BootReady) /\ WF_vars(ProxyListens)
  /\ WF_vars(CheckForUpdates) /\ WF_vars(RemoteAnswers) /\ WF_vars(Staged)
  /\ WF_vars(UpdateReady) /\ WF_vars(RestartReady) /\ WF_vars(BackoffOver)
  /\ WF_vars(Discarded) /\ WF_vars(StopEnds)
  /\ \A c \in Children : WF_vars(DrainOver(c)) /\ WF_vars(Exit(c))

Spec == Init /\ [][Next]_vars
FairSpec == Spec /\ Fairness
-----------------------------------------------------------------------------
TypeOK ==
  /\ proc \in [Children -> ProcessStates]
  /\ release \in [Children -> Revisions]
  /\ active \in Children \union {NoChild} /\ activeTarget \in Revisions
  /\ draining \in Seq(Children)
  /\ boot \in [at : {"starting", "listening", "done", "failed"},
               child : Children \union {NoChild}]
  /\ update \in Flow({"idle", "checking", "staging", "starting"})
  /\ restart \in Flow({"idle", "starting", "waiting", "discarding"})
  /\ stopping \in {"no", "waiting", "stopped"} /\ awaited \subseteq Children
  /\ remote \in Revisions /\ failures \in 0..MaxFailures

(* The child behind the proxy is never one that is gone or being stopped,   *)
(* whatever draining, fallback, update and restart do at the same time.     *)
ActiveServes ==
  stopping = "no" /\ active # NoChild
    => proc[active] = "serving" /\ active \notin ToSet(draining)

(* No serving child is lost: it is behind the proxy or it is being drained. *)
NoChildLost ==
  stopping = "no" =>
    \A c \in Children :
      proc[c] = "serving" => c = active \/ c \in ToSet(draining)

Served == active # NoChild /\ proc[active] = "serving"

(* A restart goes on until a child serves, its own or an update's.          *)
RestartsSucceed ==
  active = NoChild /\ restart.at \in {"starting", "waiting"}
    ~> Served \/ stopping # "no"

(* An outage ends: a crash is answered by a fallback or by restarts.        *)
OutageEnds == boot.at = "done" /\ ~Served ~> Served \/ stopping # "no"

(* A published revision becomes the active target, whatever checks,         *)
(* stagings, starts and children fail on the way.                           *)
UpdateArrives ==
  <>[](AutoUpdate => activeTarget = remote \/ stopping # "no" \/ boot.at = "failed")

(* The inductive invariant behind ActiveServes and NoChildLost: a starting  *)
(* child belongs to exactly one flow; drainingChildren lists a child once,  *)
(* never the active one, and until stop() none of them was told to stop.    *)
Starting(flow) == flow.at = "starting"

FlowsOK ==
  /\ \A c \in Children :
       proc[c] = "starting" <=> \/ Starting(boot) /\ c = boot.child
                                \/ Starting(update) /\ c = update.child
                                \/ Starting(restart) /\ c = restart.child
  /\ Starting(boot) => boot.child \in Children
  /\ Starting(update) => update.child \in Children
  /\ restart.at \in {"starting", "discarding"} => restart.child \in Children
  /\ Starting(update) /\ Starting(restart) => update.child # restart.child
  /\ Starting(boot) => active = NoChild /\ update.at = "idle" /\ restart.at = "idle"
  /\ boot.at # "done" => update.at = "idle"

Distinct(s) == \A i, j \in DOMAIN s : s[i] = s[j] => i = j

DrainingOK ==
  /\ Distinct(draining) /\ active \notin ToSet(draining)
  /\ active # NoChild => proc[active] # "starting"
  /\ \A c \in ToSet(draining) : proc[c] # "starting"
  /\ stopping = "no" => \A c \in ToSet(draining) : proc[c] # "ending"

IInv == TypeOK /\ FlowsOK /\ DrainingOK /\ ActiveServes /\ NoChildLost
=============================================================================
