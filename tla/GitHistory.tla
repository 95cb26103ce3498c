------------------------------ MODULE GitHistory ------------------------------
(***************************************************************************)
(* The local Git history of the writable owner roots: debounced commits,   *)
(* rollbacks and reverts that run beside writes, and the last flush.       *)
(*                                                                         *)
(*   server/lib/customware/git_history.js  timers, flushes, suppression    *)
(*   server/lib/git/native_handler.js      one queue of tasks per repo     *)
(*   server/runtime/cluster.js             who schedules with WORKERS > 1  *)
(*   server/runtime/request_mutations.js   what a failed handler records   *)
(*                                                                         *)
(* With one process the server does it all; with a cluster the primary has *)
(* the timers, and rollbacks and reverts run in a worker, whose timers and *)
(* queues are its own.  Init chooses.                                      *)
(*                                                                         *)
(* Of the contents one change is followed: a write to a tracked file of    *)
(* the owner Watched, or a change of its sign-in files (meta/password.json,*)
(* logins.json, user_crypto.json), which the history ignores; other writes *)
(* only schedule.  tree, index and head say whether the followed write is  *)
(* there, kept whether a commit with it is reachable otherwise: as an      *)
(* ancestor of the head or by a preserved ref.                             *)
(*                                                                         *)
(* Bounds: MaxQueue tasks waiting for one repository, MaxFaults faults (a  *)
(* Git command that fails, a handler that throws after it wrote, a kill).  *)
(***************************************************************************)
EXTENDS Integers, Sequences

CONSTANTS
  Owners, Watched,   \* owner roots, and the one whose contents are followed
  Requests, Nobody,  \* rollbacks, reverts and previews under way
  Base, Long, Extended,                   \* the debounce at first, then
  LongAfter, ExtendedAfter, ImmediateAfter, \* after so long a wait
  MaxQueue, MaxFaults

ASSUME HistoryAssumption ==
  /\ Watched \in Owners
  /\ {"timer", "close"} \intersect Requests = {} /\ Nobody \notin Requests
  /\ {Base, Long, Extended, LongAfter, ExtendedAfter, ImmediateAfter}
       \subseteq Nat \ {0}
  /\ Extended <= Long /\ Long <= Base
  /\ LongAfter + Base <= ImmediateAfter + Extended
  /\ ExtendedAfter + Long <= ImmediateAfter + Extended
  /\ MaxQueue \in Nat \ {0} /\ MaxFaults \in Nat

VARIABLES
  clustered,  \* WORKERS > 1
  pend,       \* pendingCommits: owner -> how long it waits, time to its timer
  queue,      \* process, owner -> tasks of the repository, the first running
  req,        \* rollbacks, reverts and previews
  inflight,   \* owners with a commitProjectPaths on its way to the primary
  tree, index, head, kept, \* where the followed write is
  auth,       \* the changed sign-in files are the ones on disk
  phase,      \* "open", "closing" (the flush of close) or "closed"
  toFlush,    \* owners flushGitHistoryCommits has not come to
  written,    \* ghost: "no", or what is owed to the followed write, below
  changed,    \* ghost: "no", "quiet", or "raced": within a rollback's window
  faults      \* counter of the bound

repoVars == <<tree, index, head, kept>>
closeVars == <<phase, toFlush>>
vars == <<clustered, pend, queue, req, inflight, tree, index, head, kept, auth,
          phase, toFlush, written, changed, faults>>
-----------------------------------------------------------------------------
Processes == {"server", "worker"}
Ops       == {"add", "commit", "keep", "reset", "revert"}
Waiters   == Requests \union {"timer", "close"}
NoEntry   == [age |-> -1, left |-> 0]
Entry(a, l) == [age |-> a, left |-> l]
Task(op, w) == [op |-> op, waiter |-> w]
Idle      == [at |-> "idle", op |-> "preview", owner |-> Nobody,
              target |-> FALSE, snap |-> FALSE]
Asked(at, op, o, target, snap) ==
  [at |-> at, op |-> op, owner |-> o, target |-> target, snap |-> snap]

(* What is owed to the followed write: "safe" is all of it; "late" when it *)
(* came while a rollback of its owner ran, or was scheduled late; "missed" *)
(* when no commit is scheduled for it any more.                            *)
Owed == {"no", "safe", "late", "missed"}

(* Mutant: the wait does not shorten the debounce.                          *)
DebounceConstant(waited) == Base

(* resolveGitHistoryDebounceMs *)
Debounce(waited) ==
  IF waited >= ImmediateAfter THEN 0
  ELSE IF waited >= ExtendedAfter THEN Extended
  ELSE IF waited >= LongAfter THEN Long ELSE Base

Host       == IF clustered THEN "worker" ELSE "server"
Running(o) == \E r \in Requests : req[r].owner = o
Suppresses(o) == \E r \in Requests : req[r].at = "queued" /\ req[r].owner = o
(* suppressionDepth > 0 in the process that has the timers, which is one    *)
(* counter for all owners; without is the request that is leaving.          *)
Suppressed(without) ==
  ~clustered /\ \E r \in Requests \ {without} : req[r].at = "queued"

Put(q, p, o, t)   == [q EXCEPT ![p][o] = Append(@, t)]
Current(p, o)       == queue[p][o][1]
Drop(p, o)        == [queue EXCEPT ![p][o] = Tail(@)]
Next1(p, o, op)   == [queue EXCEPT ![p][o] =
                        <<Task(op, Current(p, o).waiter)>> \o Tail(@)]
Room(p, o)        == Len(queue[p][o]) < MaxQueue
Uncommitted       == tree /\ ~head

(* A commit that will take the followed write is due: pendingCommits, the   *)
(* primary's mail or a task that has yet to stage it or to commit it.       *)
Due(q) ==
  \/ pend[Watched] # NoEntry
  \/ Watched \in inflight
  \/ \E i \in DOMAIN q["server"][Watched] :
       \/ q["server"][Watched][i].op = "add"
       \/ q["server"][Watched][i].op = "commit" /\ index

Miss(o, q) ==
  IF /\ o = Watched /\ Uncommitted /\ written # "no"
     /\ phase = "closing" \/ ~Due(q)
  THEN "missed" ELSE written

Init ==
  /\ clustered \in BOOLEAN
  /\ pend = [o \in Owners |-> NoEntry]
  /\ queue = [p \in Processes |-> [o \in Owners |-> << >>]]
  /\ req = [r \in Requests |-> Idle]
  /\ inflight = {}
  /\ tree = FALSE /\ index = FALSE /\ head = FALSE
  /\ kept = FALSE /\ auth = FALSE
  /\ phase = "open" /\ toFlush = {}
  /\ written = "no" /\ changed = "no" /\ faults = 0
-----------------------------------------------------------------------------
(* Mutant: every write starts the wait afresh.                              *)
ScheduleAfresh(o, q) ==
  pend' = [pend EXCEPT ![o] = Entry(0, Base)] /\ queue' = q

(* scheduleLayerHistoryTarget: the timer starts again, for less and less.   *)
Schedule(o, q) ==
  LET waited == IF pend[o] = NoEntry THEN 0 ELSE pend[o].age
      time   == Debounce(waited)
  IN /\ pend' = [pend EXCEPT
                   ![o] = IF time = 0 THEN NoEntry ELSE Entry(waited, time)]
     /\ queue' = IF time = 0 THEN Put(q, "server", o, Task("add", "timer"))
                 ELSE q

(* recordAppPathMutations: a worker's handler only records for the mail to  *)
(* the primary; nothing is scheduled while any rollback suppresses.         *)
Record(o, q, without) ==
  \/ /\ clustered
     /\ inflight' = inflight \union {o} /\ queue' = q /\ UNCHANGED pend
  \/ /\ ~clustered /\ Suppressed(without)
     /\ queue' = q /\ UNCHANGED <<pend, inflight>>
  \/ /\ ~clustered /\ ~Suppressed(without)
     /\ Schedule(o, q) /\ UNCHANGED inflight

Recorded(o, without) ==
  IF o = Watched /\ written = "missed" /\ ~Suppressed(without)
  THEN "late" ELSE written

Promised ==
  IF Suppressed(Nobody) /\ ~Suppresses(Watched) /\ ~Due(queue) THEN "missed"
  ELSE IF Suppressed(Nobody) \/ Running(Watched) \/ phase # "open" THEN "late"
  ELSE "safe"

Serving == phase = "open" \/ (phase = "closing" /\ ~clustered)

(* A handler writes below an owner root and records it.                     *)
Write(o, followed) ==
  /\ Serving /\ Room("server", o)
  /\ followed => o = Watched /\ written = "no" /\ changed = "no"
  /\ tree' = (tree \/ followed)
  /\ Record(o, queue, Nobody)
  /\ written' = IF followed THEN Promised ELSE Recorded(o, Nobody)
  /\ UNCHANGED <<clustered, req, index, head, kept, auth, closeVars, changed,
                 faults>>

(* A worker's handler throws after it wrote: what it captured is dropped.   *)
HandlerThrows ==
  /\ clustered /\ phase = "open" /\ faults < MaxFaults
  /\ written = "no" /\ changed = "no"
  /\ faults' = faults + 1
  /\ tree' = TRUE
  /\ written' = IF Due(queue) THEN "late" ELSE "missed"
  /\ UNCHANGED <<clustered, pend, queue, req, inflight, index, head, kept,
                 auth, closeVars, changed>>

(* The primary's commitProjectPaths.                                        *)
Publish(o) ==
  /\ phase # "closed" /\ o \in inflight /\ Room("server", o)
  /\ inflight' = inflight \ {o}
  /\ Schedule(o, queue)
  /\ UNCHANGED <<clustered, req, repoVars, auth, closeVars, written, changed,
                 faults>>

(* A password, a session or a wrapped key of Watched is written.            *)
ChangeAuth ==
  /\ Serving /\ changed = "no" /\ written = "no"
  /\ auth' = TRUE
  /\ changed' = IF Suppresses(Watched) THEN "raced" ELSE "quiet"
  /\ UNCHANGED <<clustered, pend, queue, req, inflight, repoVars, closeVars,
                 written, faults>>

Tick ==
  /\ phase # "closed"
  /\ \E o \in Owners : pend[o] # NoEntry
  /\ \A o \in Owners : pend[o] = NoEntry \/ pend[o].left > 0
  /\ pend' = [o \in Owners |-> IF pend[o] = NoEntry THEN NoEntry
                               ELSE Entry(pend[o].age + 1, pend[o].left - 1)]
  /\ UNCHANGED <<clustered, queue, req, inflight, repoVars, auth, closeVars,
                 written, changed, faults>>

TimerFires(o) ==
  /\ phase # "closed" /\ Room("server", o)
  /\ pend[o] # NoEntry /\ pend[o].left = 0
  /\ pend' = [pend EXCEPT ![o] = NoEntry]
  /\ queue' = Put(queue, "server", o, Task("add", "timer"))
  /\ UNCHANGED <<clustered, req, inflight, repoVars, auth, closeVars, written,
                 changed, faults>>
-----------------------------------------------------------------------------
(* rollbackLayerHistory, revertLayerHistoryCommit and                       *)
(* getLayerHistoryOperationPreview: flushGitHistoryTarget takes an entry of *)
(* this process and waits for its commit; without one they go on at once.   *)
(* target says whether the commit asked for has the followed write.         *)
AskFlush(r, op, o, target) ==
  /\ ~clustered /\ pend[o] # NoEntry
  /\ pend' = [pend EXCEPT ![o] = NoEntry]
  /\ queue' = Put(queue, "server", o, Task("add", r))
  /\ req' = [req EXCEPT ![r] = Asked("flushing", op, o, target, FALSE)]

(* readIgnoredPathSnapshots, then the client's task with commits suppressed.*)
Enter(r, op, o, target, q) ==
  /\ queue' = Put(q, Host, o, Task("keep", r))
  /\ req' = [req EXCEPT ![r] = Asked("queued", op, o, target, auth)]

(* Mutant: a rollback goes on without a flush.                              *)
AskWithoutFlush(r, op, o, target) ==
  /\ phase = "open" /\ req[r] = Idle /\ Room(Host, o)
  /\ target => o = Watched /\ op # "preview" /\ (head \/ kept)
  /\ op # "preview" /\ Enter(r, op, o, target, queue)
  /\ UNCHANGED <<pend, clustered, inflight, repoVars, auth, closeVars, written,
                 changed, faults>>

Ask(r, op, o, target) ==
  /\ phase = "open" /\ req[r] = Idle /\ Room(Host, o)
  /\ target => o = Watched /\ op # "preview" /\ (head \/ kept)
  /\ \/ AskFlush(r, op, o, target)
     \/ /\ clustered \/ pend[o] = NoEntry
        /\ op # "preview" /\ Enter(r, op, o, target, queue)
        /\ UNCHANGED pend
  /\ UNCHANGED <<clustered, inflight, repoVars, auth, closeVars, written,
                 changed, faults>>
-----------------------------------------------------------------------------
At(p, o, op) ==
  phase # "closed" /\ queue[p][o] # << >> /\ Current(p, o).op = op

Staged(p, o, op, next) ==
  At(p, o, op) /\ queue' = Next1(p, o, next)

(* commitAll: git add -A                                                    *)
RunAdd(o) ==
  /\ Staged("server", o, "add", "commit")
  /\ index' = IF o = Watched THEN tree ELSE index
  /\ UNCHANGED <<clustered, pend, req, inflight, tree, head, kept, auth,
                 closeVars, written, changed, faults>>

(* Mutant: the snapshot was taken before the flush.                         *)
FlushedOldSnapshot(r, o) ==
  LET q == Drop("server", o)
  IN IF r \notin Requests THEN queue' = q /\ UNCHANGED req
     ELSE IF req[r].op = "preview"
     THEN queue' = q /\ req' = [req EXCEPT ![r] = Idle]
     ELSE /\ queue' = Put(q, Host, o, Task("keep", r))
          /\ req' = [req EXCEPT ![r] = Asked("queued", req[r].op, o,
                                             req[r].target, req[r].snap)]

(* What its caller does when the commit is there.                           *)
Flushed(r, o) ==
  LET q == Drop("server", o)
  IN \/ r \notin Requests /\ queue' = q /\ UNCHANGED req
     \/ /\ r \in Requests /\ req[r].op = "preview"
        /\ queue' = q /\ req' = [req EXCEPT ![r] = Idle]
     \/ /\ r \in Requests /\ req[r].op # "preview"
        /\ Enter(r, req[r].op, o, req[r].target, q)

(* commitAll: git commit of what is staged                                  *)
RunCommit(o) ==
  /\ At("server", o, "commit")
  /\ Flushed(Current("server", o).waiter, o)
  /\ head' = IF o = Watched THEN index ELSE head
  /\ kept' = IF o = Watched THEN kept \/ head ELSE kept
  /\ written' = IF o = Watched /\ index /\ written # "no" THEN "safe"
                ELSE written
  /\ UNCHANGED <<clustered, pend, inflight, tree, index, auth, closeVars,
                 changed, faults>>

(* preserveHistoryHeadRef; a rollback to the head needs none.               *)
RunKeep(p, o) ==
  /\ \E op \in {"reset", "revert"} :
       /\ Staged(p, o, "keep", op)
       /\ op = "revert" <=> req[Current(p, o).waiter].op = "revert"
       /\ kept' = IF o = Watched
                     /\ (op = "revert" \/ req[Current(p, o).waiter].target # head)
                  THEN kept \/ head ELSE kept
  /\ UNCHANGED <<clustered, pend, req, inflight, tree, index, head, auth,
                 closeVars, written, changed, faults>>

(* restoreIgnoredPathSnapshots, on success and failure alike                *)
Restored(r, o) == IF o = Watched /\ r \in Requests /\ req[r].at = "queued"
                  THEN req[r].snap ELSE auth

(* Mutant: the end of a rollback records nothing.                           *)
LeaveUnrecorded(p, o, r) ==
  /\ req' = [req EXCEPT ![r] = Idle]
  /\ auth' = Restored(r, o)
  /\ queue' = Drop(p, o) /\ UNCHANGED <<pend, inflight>>

(* The task succeeded: suppression ends and the owner root is recorded.     *)
Leave(p, o, r) ==
  /\ req' = [req EXCEPT ![r] = Idle]
  /\ auth' = Restored(r, o)
  /\ Record(o, Drop(p, o), r)

(* git reset --hard                                                         *)
RunReset(p, o) ==
  LET r == Current(p, o).waiter
  IN /\ At(p, o, "reset")
     /\ Leave(p, o, r)
     /\ IF o = Watched
        THEN tree' = req[r].target /\ index' = tree' /\ head' = tree'
        ELSE UNCHANGED <<tree, index, head>>
     /\ written' = Recorded(o, r)
     /\ UNCHANGED <<clustered, kept, closeVars, changed, faults>>

(* git revert: of the commit with the followed write, or of another.        *)
RunRevert(p, o) ==
  LET r == Current(p, o).waiter
      undoes == o = Watched /\ req[r].target
  IN /\ At(p, o, "revert")
     /\ undoes => head
     /\ Leave(p, o, r)
     /\ tree' = (tree /\ ~undoes) /\ index' = (index /\ ~undoes)
     /\ head' = (head /\ ~undoes) /\ kept' = (kept \/ undoes)
     /\ written' = IF Suppressed(r) THEN Miss(o, Drop(p, o))
                   ELSE Recorded(o, r)
     /\ UNCHANGED <<clustered, closeVars, changed, faults>>

(* The task threw: its caller, if it waits, ends, and nothing is recorded.  *)
Throw(p, o) ==
  LET r == Current(p, o).waiter
  IN /\ queue' = Drop(p, o)
     /\ req' = IF r \in Requests THEN [req EXCEPT ![r] = Idle] ELSE req
     /\ auth' = Restored(r, o)
     /\ written' = Miss(o, Drop(p, o))
     /\ UNCHANGED <<clustered, pend, inflight, repoVars, closeVars, changed>>

(* The revert conflicts: revert --abort, 409.                               *)
RevertConflicts(p, o) ==
  At(p, o, "revert") /\ Throw(p, o) /\ UNCHANGED faults

(* A Git command fails.  A commit that fails is logged, never tried again.  *)
GitFails(p, o) ==
  /\ phase # "closed" /\ queue[p][o] # << >> /\ faults < MaxFaults
  /\ faults' = faults + 1
  /\ Throw(p, o)
-----------------------------------------------------------------------------
NoRequests == [r \in Requests |-> Idle]
NoTasks    == [o \in Owners |-> << >>]

(* What a worker had sent when it ended arrives late, or never.             *)
MailCutOff ==
  /\ inflight' \in SUBSET inflight
  /\ written' = IF Watched \in inflight /\ Uncommitted
                   /\ pend[Watched] = NoEntry
                THEN IF Watched \in inflight' THEN "late" ELSE "missed"
                ELSE written

(* The process ends and comes back.                                         *)
Kill(p) ==
  /\ phase = "open" /\ faults < MaxFaults /\ faults' = faults + 1
  /\ p = "worker" => clustered
  /\ req' = NoRequests
  /\ IF p = "server"
     THEN /\ pend' = [o \in Owners |-> NoEntry] /\ inflight' = {}
          /\ queue' = [q \in Processes |-> NoTasks]
          /\ written' = IF Uncommitted THEN "missed" ELSE written
     ELSE /\ MailCutOff
          /\ queue' = [queue EXCEPT ![p] = NoTasks]
          /\ UNCHANGED pend
  /\ UNCHANGED <<clustered, repoVars, auth, closeVars, changed>>

(* close(): a cluster disconnects its workers before it flushes.            *)
BeginClose ==
  /\ phase = "open" /\ phase' = "closing"
  /\ toFlush' = {o \in Owners : pend[o] # NoEntry}
  /\ IF clustered
     THEN /\ req' = NoRequests
          /\ MailCutOff
          /\ queue' = [queue EXCEPT !["worker"] = NoTasks]
     ELSE UNCHANGED <<req, inflight, queue, written>>
  /\ UNCHANGED <<clustered, pend, repoVars, auth, changed, faults>>

Awaited ==
  \E o \in Owners : \E i \in DOMAIN queue["server"][o] :
    queue["server"][o][i].waiter = "close"

(* Mutant: the flush cancels the timers.                                    *)
FlushCancels(o) ==
  /\ phase = "closing" /\ o \in toFlush /\ ~Awaited /\ Room("server", o)
  /\ toFlush' = toFlush \ {o}
  /\ pend' = [pend EXCEPT ![o] = NoEntry]
  /\ UNCHANGED <<queue, clustered, req, inflight, repoVars, auth, phase, written,
                 changed, faults>>

(* flushGitHistoryCommits, one entry after the other: it finds none for an  *)
(* owner whose timer has fired by then, and does not wait for that commit.  *)
FlushNext(o) ==
  /\ phase = "closing" /\ o \in toFlush /\ ~Awaited /\ Room("server", o)
  /\ toFlush' = toFlush \ {o}
  /\ pend' = [pend EXCEPT ![o] = NoEntry]
  /\ queue' = IF pend[o] = NoEntry THEN queue
              ELSE Put(queue, "server", o, Task("add", "close"))
  /\ UNCHANGED <<clustered, req, inflight, repoVars, auth, phase, written,
                 changed, faults>>

(* The process ends with what runs in it; a commit a timer began is left    *)
(* half done.                                                               *)
Exit ==
  /\ phase = "closing" /\ toFlush = {} /\ ~Awaited
  /\ phase' = "closed"
  /\ pend' = [o \in Owners |-> NoEntry] /\ inflight' = {}
  /\ queue' = [p \in Processes |-> NoTasks] /\ req' = NoRequests
  /\ written' = IF /\ Uncommitted
                   /\ \E i \in DOMAIN queue["server"][Watched] :
                        queue["server"][Watched][i].op \in {"add", "commit"}
                THEN "late" ELSE written
  /\ UNCHANGED <<clustered, repoVars, auth, toFlush, changed, faults>>

Run(p, o) ==
  \/ p = "server" /\ (RunAdd(o) \/ RunCommit(o))
  \/ RunKeep(p, o) \/ RunReset(p, o) \/ RunRevert(p, o)
  \/ RevertConflicts(p, o)

Next ==
  \/ \E o \in Owners :
       \/ \E followed \in BOOLEAN : Write(o, followed)
       \/ Publish(o) \/ TimerFires(o) \/ FlushNext(o)
       \/ \E r \in Requests, op \in {"rollback", "revert", "preview"},
             target \in BOOLEAN : Ask(r, op, o, target)
       \/ \E p \in Processes : Run(p, o) \/ GitFails(p, o)
  \/ \E p \in Processes : Kill(p)
  \/ HandlerThrows \/ ChangeAuth \/ Tick \/ BeginClose \/ Exit

(* Timers fire, Git commands end and the primary reads its mail: Node's     *)
(* event loop.  No other process and no other owner's mail is needed.       *)
Fairness ==
  /\ WF_vars(Tick) /\ WF_vars(\E o \in Owners : TimerFires(o))
  /\ WF_vars(Publish(Watched))
  /\ \A o \in Owners : WF_vars(Run("server", o))

Spec == Init /\ [][Next]_vars
FairSpec == Spec /\ Fairness
-----------------------------------------------------------------------------
(* Every variable has the type its comment gives it: pendingCommits and the *)
(* repositories' queues never hold anything else.                           *)
TypeOK ==
  /\ clustered \in BOOLEAN
  /\ pend \in [Owners -> {NoEntry} \union
                 [age : 0..(ImmediateAfter + Extended), left : 0..Base]]
  /\ queue \in [Processes -> [Owners -> Seq([op : Ops, waiter : Waiters])]]
  /\ req \in [Requests -> {Idle} \union
                [at : {"flushing", "queued"}, op : {"rollback", "revert", "preview"},
                 owner : Owners, target : BOOLEAN, snap : BOOLEAN]]
  /\ inflight \subseteq Owners
  /\ {tree, index, head, kept, auth} \subseteq BOOLEAN
  /\ phase \in {"open", "closing", "closed"} /\ toFlush \subseteq Owners
  /\ written \in Owed /\ changed \in {"no", "quiet", "raced"}
  /\ faults \in 0..MaxFaults

(* However often an owner root is written, its pending commit starts within *)
(* ten minutes and a second of the first write (git_history.js:360).        *)
WaitIsBounded ==
  \A o \in Owners : pend[o].age + pend[o].left <= ImmediateAfter + Extended

(* With one process, a write that was recorded before a rollback or a       *)
(* revert of its owner was asked is in the tree or in a commit one can      *)
(* still reach, whatever timers, rollbacks and reverts run beside it.       *)
WritesStayReachable ==
  ~clustered /\ written = "safe" => tree \/ head \/ kept

(* An uncommitted write has a commit coming, from a timer, a message, a     *)
(* task or the end of the rollback that suppressed it, unless its handler,  *)
(* a Git command or the process failed, or another owner's rollback ran.    *)
UncommittedIsScheduled ==
  phase = "open" /\ Uncommitted /\ written \in {"safe", "late"} =>
    Due(queue) \/ Suppresses(Watched)

(* Sign-in files changed outside the window between a rollback's snapshot   *)
(* and its end are never put back: an old commit logs nobody out.           *)
AuthFilesStay == changed = "quiet" => auth

(* After close() a write recorded before it is committed, unless its commit *)
(* was running already, which close() does not await.                       *)
FlushedAtClose == phase = "closed" /\ written = "safe" => ~Uncommitted

(* A write that is scheduled is committed, or rolled back, even if its      *)
(* owner root is written again and again.                                   *)
EventuallyCommitted ==
  (phase = "open" /\ Uncommitted /\ written \in {"safe", "late"})
    ~> (phase # "open" \/ ~Uncommitted \/ written = "missed")
=============================================================================
