---------------------------- MODULE GitHistoryProofs ----------------------------
(***************************************************************************)
(* Proofs about GitHistory, for any number of owner roots, requests and    *)
(* faults and any debounce: type correctness, the bound on a commit's      *)
(* wait, that a rollback keeps the sign-in files, that a recorded write    *)
(* stays reachable, that an uncommitted one has a commit coming, and that  *)
(* close() leaves none uncommitted.                                        *)
(***************************************************************************)
EXTENDS GitHistory, TLAPS

TaskType == [op : Ops, waiter : Waiters]
Queues   == [Processes -> [Owners -> Seq(TaskType)]]
Asking   == [at : {"flushing", "queued"}, op : {"rollback", "revert", "preview"},
             owner : Owners, target : BOOLEAN, snap : BOOLEAN]
Asks     == [Requests -> {Idle} \union Asking]
Pendings == [Owners -> {NoEntry} \union
               [age : 0..(ImmediateAfter + Extended), left : 0..Base]]
OfRequest == {"keep", "reset", "revert"}

(* A repository's queue s in process p: only its first task has begun; the  *)
(* task of a request is the only one and in the process of rollbacks.       *)
LineOK(s, p, o, rq) ==
  \A i \in DOMAIN s :
    /\ i > 1 => s[i].op \in {"add", "keep"}
    /\ s[i].op \in {"add", "commit"} => p = "server"
    /\ s[i].op \in OfRequest => s[i].waiter \in Requests
    /\ s[i].waiter \in Requests =>
         /\ p = Host /\ rq[s[i].waiter].owner = o
         /\ s[i].op \in OfRequest => rq[s[i].waiter].at = "queued"
         /\ s[i].op \notin OfRequest => rq[s[i].waiter].at = "flushing"
         /\ \A j \in DOMAIN s : s[j].waiter = s[i].waiter => j = i

(* And a request in the queue has its task there.                           *)
InLine(q, r, o) ==
  \E i \in DOMAIN q[Host][o] : q[Host][o][i].waiter = r

QueuesOK(q, rq) ==
  /\ q \in Queues /\ rq \in Asks
  /\ \A p \in Processes, o \in Owners : LineOK(q[p][o], p, o, rq)
  /\ \A r \in Requests : rq[r].at = "queued" => InLine(q, r, rq[r].owner)

(* A rollback of quiet sign-in files puts those of now back.                *)
SnapshotsOK ==
  changed = "quiet" =>
    /\ auth
    /\ \A r \in Requests :
         req[r].at = "queued" /\ req[r].owner = Watched => req[r].snap

(* Due, of an entry pe, a queue s of Watched, mail inf and an index ix.     *)
Comes(pe, inf, s, ix) ==
  \/ pe # NoEntry \/ Watched \in inf
  \/ \E i \in DOMAIN s : s[i].op = "add" \/ (s[i].op = "commit" /\ ix)

(* In one process the end of the rollback that suppressed it will record it.*)
Held(rq) ==
  ~clustered /\ \E r \in Requests : rq[r].at = "queued" /\ rq[r].owner = Watched

ScheduledOK ==
  phase = "open" /\ Uncommitted /\ written \in {"safe", "late"} =>
    \/ Comes(pend[Watched], inflight, queue["server"][Watched], index)
    \/ Held(req)

(* The followed change is made once, and is staged wherever it is committed.*)
StagedOK ==
  /\ tree /\ head => index
  /\ written = "no" => ~tree /\ ~index /\ ~head /\ ~kept
  /\ \A r \in Requests : req[r].target => written # "no"

(* A task of a request waits behind one that commits the followed write, and*)
(* none that could has come behind it.                                      *)
CommitsFirst(pe, s, ix) ==
  \A i \in DOMAIN s :
    /\ s[i].op \in OfRequest =>
         /\ \E j \in DOMAIN s :
              j < i /\ (s[j].op = "add" \/ (s[j].op = "commit" /\ ix))
         /\ \A j \in DOMAIN s : j > i => s[j].op # "add"
         /\ pe = NoEntry
    /\ s[i].op = "commit" /\ s[i].waiter \in Requests => ix

(* A reset that begins has its head kept, or goes to it.                    *)
ResetKeeps ==
  \A i \in DOMAIN queue["server"][Watched] :
    queue["server"][Watched][i].op = "reset" =>
      kept \/ ~head \/ req[queue["server"][Watched][i].waiter].target

ReachableOK ==
  ~clustered =>
    /\ ResetKeeps
    /\ written = "safe" /\ ~head /\ ~kept =>
         tree /\ CommitsFirst(pend[Watched], queue["server"][Watched], index)
-----------------------------------------------------------------------------
(* Sequences of tasks.                                                      *)
LEMMA AppendTask ==
  ASSUME NEW s \in Seq(TaskType), NEW t \in TaskType
  PROVE  /\ Append(s, t) \in Seq(TaskType)
         /\ Len(s) \in Nat /\ DOMAIN s = 1..Len(s)
         /\ DOMAIN Append(s, t) = 1..(Len(s) + 1)
         /\ \A i \in DOMAIN s : Append(s, t)[i] = s[i]
         /\ Append(s, t)[Len(s) + 1] = t
OBVIOUS

LEMMA DropTask ==
  ASSUME NEW s \in Seq(TaskType), s # << >>
  PROVE  /\ Tail(s) \in Seq(TaskType)
         /\ Len(s) \in Nat /\ DOMAIN s = 1..Len(s) /\ 1 \in DOMAIN s
         /\ s[1] \in TaskType
         /\ DOMAIN Tail(s) = 1..(Len(s) - 1)
         /\ \A i \in DOMAIN Tail(s) : Tail(s)[i] = s[i + 1] /\ i + 1 \in DOMAIN s
OBVIOUS

LEMMA ReplaceFirst ==
  ASSUME NEW s \in Seq(TaskType), s # << >>, NEW t \in TaskType
  PROVE  /\ <<t>> \o Tail(s) \in Seq(TaskType)
         /\ DOMAIN (<<t>> \o Tail(s)) = DOMAIN s
         /\ (<<t>> \o Tail(s))[1] = t
         /\ \A i \in DOMAIN s : i # 1 => (<<t>> \o Tail(s))[i] = s[i]
<1>1. /\ Tail(s) \in Seq(TaskType) /\ Len(Tail(s)) = Len(s) - 1
      /\ Len(s) \in Nat /\ Len(s) # 0 /\ DOMAIN s = 1..Len(s)
      /\ \A i \in 1..(Len(s) - 1) : Tail(s)[i] = s[i + 1]
  OBVIOUS
<1>2. <<t>> \in Seq(TaskType) /\ Len(<<t>>) = 1 /\ <<t>>[1] = t
  OBVIOUS
<1> DEFINE u == Tail(s)
           v == <<t>>
<1> HIDE DEF u, v
<1>3. /\ v \o u \in Seq(TaskType) /\ DOMAIN (v \o u) = 1..(1 + Len(u))
      /\ (v \o u)[1] = v[1]
      /\ \A i \in 2..(1 + Len(u)) : (v \o u)[i] = u[i - 1]
  BY <1>1, <1>2 DEF u, v
<1>4. \A i \in DOMAIN s : i # 1 => (v \o u)[i] = s[i]
  <2> SUFFICES ASSUME NEW i \in DOMAIN s, i # 1
               PROVE  (v \o u)[i] = s[i]
    OBVIOUS
  <2>1. i \in 2..(1 + Len(u)) /\ i - 1 \in 1..(Len(s) - 1)
    BY <1>1 DEF u
  <2>2. u[i - 1] = s[(i - 1) + 1] /\ (i - 1) + 1 = i
    BY <1>1, <2>1 DEF u
  <2> QED
    BY <1>3, <2>1, <2>2
<1>5. DOMAIN (v \o u) = DOMAIN s
  BY <1>1, <1>3 DEF u
<1> QED
  BY <1>2, <1>3, <1>4, <1>5 DEF u, v

(* The queues after one of them has a task more, one less, or another op.   *)
LEMMA PutLine ==
  ASSUME NEW q \in Queues, NEW p \in Processes, NEW o \in Owners,
         NEW t \in TaskType
  PROVE  /\ Put(q, p, o, t) \in Queues
         /\ Put(q, p, o, t)[p][o] = Append(q[p][o], t)
         /\ \A p2 \in Processes, o2 \in Owners :
              p2 # p \/ o2 # o => Put(q, p, o, t)[p2][o2] = q[p2][o2]
<1>1. q[p][o] \in Seq(TaskType) /\ Append(q[p][o], t) \in Seq(TaskType)
  BY AppendTask DEF Queues
<1> QED
  BY <1>1 DEF Queues, Put

LEMMA DropLine ==
  ASSUME queue \in Queues, NEW p \in Processes, NEW o \in Owners,
         queue[p][o] # << >>
  PROVE  /\ Drop(p, o) \in Queues
         /\ Drop(p, o)[p][o] = Tail(queue[p][o])
         /\ \A p2 \in Processes, o2 \in Owners :
              p2 # p \/ o2 # o => Drop(p, o)[p2][o2] = queue[p2][o2]
<1>1. queue[p][o] \in Seq(TaskType) /\ Tail(queue[p][o]) \in Seq(TaskType)
  BY DropTask DEF Queues
<1> QED
  BY <1>1 DEF Queues, Drop

LEMMA NextLine ==
  ASSUME queue \in Queues, NEW p \in Processes, NEW o \in Owners,
         queue[p][o] # << >>, NEW op \in Ops
  PROVE  /\ Next1(p, o, op) \in Queues
         /\ DOMAIN Next1(p, o, op)[p][o] = DOMAIN queue[p][o]
         /\ 1 \in DOMAIN queue[p][o]
         /\ Next1(p, o, op)[p][o][1].op = op
         /\ Next1(p, o, op)[p][o][1].waiter = queue[p][o][1].waiter
         /\ \A i \in DOMAIN queue[p][o] :
              i # 1 => Next1(p, o, op)[p][o][i] = queue[p][o][i]
         /\ \A p2 \in Processes, o2 \in Owners :
              p2 # p \/ o2 # o => Next1(p, o, op)[p2][o2] = queue[p2][o2]
<1> DEFINE s == queue[p][o]
           t == Task(op, Current(p, o).waiter)
<1>1. s \in Seq(TaskType) /\ s # << >> /\ s[1] \in TaskType /\ 1 \in DOMAIN s
  BY DropTask DEF Queues
<1>2. t \in TaskType /\ t.op = op /\ t.waiter = s[1].waiter
  BY <1>1 DEF Task, Current, TaskType
<1>3. /\ <<t>> \o Tail(s) \in Seq(TaskType)
      /\ DOMAIN (<<t>> \o Tail(s)) = DOMAIN s
      /\ (<<t>> \o Tail(s))[1] = t
      /\ \A i \in DOMAIN s : i # 1 => (<<t>> \o Tail(s))[i] = s[i]
  BY <1>1, <1>2, ReplaceFirst
<1>4. Next1(p, o, op) = [queue EXCEPT ![p][o] = <<t>> \o Tail(s)]
  BY DEF Next1
<1> HIDE DEF t
<1>5. /\ Next1(p, o, op) \in Queues
      /\ Next1(p, o, op)[p][o] = <<t>> \o Tail(s)
      /\ \A p2 \in Processes, o2 \in Owners :
           p2 # p \/ o2 # o => Next1(p, o, op)[p2][o2] = queue[p2][o2]
  BY <1>3, <1>4 DEF Queues
<1> QED
  BY <1>1, <1>2, <1>3, <1>5
-----------------------------------------------------------------------------
(* Lines that grow, shrink, or see a request move on.                       *)
LEMMA LineGrows ==
  ASSUME NEW s \in Seq(TaskType), NEW t \in TaskType, NEW p, NEW o, NEW rq,
         LineOK(s, p, o, rq),
         t.op \in {"add", "keep"}, t.op = "add" => p = "server",
         t.op = "keep" => t.waiter \in Requests,
         t.waiter \in Requests =>
           /\ p = Host /\ rq[t.waiter].owner = o
           /\ t.op = "keep" => rq[t.waiter].at = "queued"
           /\ t.op = "add" => rq[t.waiter].at = "flushing"
           /\ \A j \in DOMAIN s : s[j].waiter # t.waiter
  PROVE  LineOK(Append(s, t), p, o, rq)
<1> DEFINE u == Append(s, t)
<1>1. /\ Len(s) \in Nat /\ DOMAIN s = 1..Len(s) /\ DOMAIN u = 1..(Len(s) + 1)
      /\ \A i \in DOMAIN s : u[i] = s[i]
      /\ u[Len(s) + 1] = t
  BY AppendTask
<1> HIDE DEF u
<1>2. ASSUME NEW i \in DOMAIN s
      PROVE  /\ i > 1 => u[i].op \in {"add", "keep"}
             /\ u[i].op \in {"add", "commit"} => p = "server"
             /\ u[i].op \in OfRequest => u[i].waiter \in Requests
             /\ u[i].waiter \in Requests =>
                  /\ p = Host /\ rq[u[i].waiter].owner = o
                  /\ u[i].op \in OfRequest => rq[u[i].waiter].at = "queued"
                  /\ u[i].op \notin OfRequest => rq[u[i].waiter].at = "flushing"
                  /\ \A j \in DOMAIN u : u[j].waiter = u[i].waiter => j = i
  BY <1>1 DEF LineOK
<1>3. /\ u[Len(s) + 1].op \in {"add", "keep"}
      /\ u[Len(s) + 1].op \in {"add", "commit"} => p = "server"
      /\ u[Len(s) + 1].op \in OfRequest => u[Len(s) + 1].waiter \in Requests
      /\ u[Len(s) + 1].waiter \in Requests =>
           /\ p = Host /\ rq[u[Len(s) + 1].waiter].owner = o
           /\ u[Len(s) + 1].op \in OfRequest => rq[u[Len(s) + 1].waiter].at = "queued"
           /\ u[Len(s) + 1].op \notin OfRequest
                => rq[u[Len(s) + 1].waiter].at = "flushing"
           /\ \A j \in DOMAIN u : u[j].waiter = u[Len(s) + 1].waiter => j = Len(s) + 1
  BY <1>1 DEF OfRequest
<1>4. \A i \in DOMAIN u : i \in DOMAIN s \/ i = Len(s) + 1
  BY <1>1
<1>5. LineOK(u, p, o, rq)
  BY <1>2, <1>3, <1>4 DEF LineOK
<1> QED
  BY <1>5 DEF u

LEMMA LineShrinks ==
  ASSUME NEW s \in Seq(TaskType), s # << >>, NEW p, NEW o, NEW rq,
         LineOK(s, p, o, rq)
  PROVE  /\ LineOK(Tail(s), p, o, rq)
         /\ s[1].waiter \in Requests =>
              \A j \in DOMAIN Tail(s) : Tail(s)[j].waiter # s[1].waiter
<1> DEFINE u == Tail(s)
<1>1. /\ Len(s) \in Nat /\ DOMAIN s = 1..Len(s) /\ DOMAIN u = 1..(Len(s) - 1)
      /\ 1 \in DOMAIN s
      /\ \A i \in DOMAIN u : u[i] = s[i + 1] /\ i + 1 \in DOMAIN s
  BY DropTask
<1> HIDE DEF u
<1>2. ASSUME NEW i \in DOMAIN u
      PROVE  /\ i > 1 => u[i].op \in {"add", "keep"}
             /\ u[i].op \in {"add", "commit"} => p = "server"
             /\ u[i].op \in OfRequest => u[i].waiter \in Requests
             /\ u[i].waiter \in Requests =>
                  /\ p = Host /\ rq[u[i].waiter].owner = o
                  /\ u[i].op \in OfRequest => rq[u[i].waiter].at = "queued"
                  /\ u[i].op \notin OfRequest => rq[u[i].waiter].at = "flushing"
  BY <1>1 DEF LineOK
<1>3. ASSUME NEW i \in DOMAIN u, NEW j \in DOMAIN u,
             u[i].waiter \in Requests, u[j].waiter = u[i].waiter
      PROVE  j = i
  BY <1>1, <1>3 DEF LineOK
<1>4. ASSUME s[1].waiter \in Requests, NEW j \in DOMAIN u
      PROVE  u[j].waiter # s[1].waiter
  <2>1. u[j] = s[j + 1] /\ j + 1 \in DOMAIN s /\ j + 1 # 1
    BY <1>1
  <2> QED
    BY <1>1, <1>4, <2>1 DEF LineOK
<1>5. LineOK(u, p, o, rq)
  BY <1>2, <1>3 DEF LineOK
<1> QED
  BY <1>4, <1>5 DEF u

LEMMA LineOfOthers ==
  ASSUME NEW s, NEW p, NEW o, NEW rq, NEW rq2, LineOK(s, p, o, rq),
         \A i \in DOMAIN s :
           s[i].waiter \in Requests => rq2[s[i].waiter] = rq[s[i].waiter]
  PROVE  LineOK(s, p, o, rq2)
BY DEF LineOK

(* All queues: a timer or close adds a task.                                *)
LEMMA WorkAdded ==
  ASSUME NEW q, NEW rq, QueuesOK(q, rq), NEW o \in Owners,
         NEW w \in {"timer", "close"}
  PROVE  QueuesOK(Put(q, "server", o, Task("add", w)), rq)
<1> DEFINE t == Task("add", w)
           z == Put(q, "server", o, t)
<1>1. /\ t \in TaskType /\ t.op = "add" /\ t.waiter \notin Requests
      /\ "server" \in Processes
  BY HistoryAssumption DEF Task, TaskType, Ops, Waiters, Processes
<1>2. q \in Queues /\ rq \in Asks
  BY DEF QueuesOK
<1> HIDE DEF t
<1>3. /\ z \in Queues /\ z["server"][o] = Append(q["server"][o], t)
      /\ \A p2 \in Processes, o2 \in Owners :
           p2 # "server" \/ o2 # o => z[p2][o2] = q[p2][o2]
  BY <1>1, <1>2, PutLine
<1>4. q["server"][o] \in Seq(TaskType) /\ LineOK(q["server"][o], "server", o, rq)
  BY <1>1, <1>2 DEF QueuesOK, Queues
<1>5. LineOK(z["server"][o], "server", o, rq)
  BY <1>1, <1>3, <1>4, LineGrows
<1>6. ASSUME NEW p2 \in Processes, NEW o2 \in Owners
      PROVE  LineOK(z[p2][o2], p2, o2, rq)
  BY <1>3, <1>5 DEF QueuesOK
<1>7. ASSUME NEW r \in Requests, rq[r].at = "queued"
      PROVE  InLine(z, r, rq[r].owner)
  <2>0. Host \in Processes /\ rq[r].owner \in Owners
    BY <1>2, <1>7 DEF Host, Processes, Asks, Asking, Idle
  <2>1. PICK i \in DOMAIN q[Host][rq[r].owner] :
          q[Host][rq[r].owner][i].waiter = r
    BY <1>7 DEF QueuesOK, InLine
  <2>2. i \in DOMAIN z[Host][rq[r].owner] /\ z[Host][rq[r].owner][i].waiter = r
    <3>1. CASE Host = "server" /\ rq[r].owner = o
      <4>1. i \in DOMAIN Append(q["server"][o], t)
            /\ Append(q["server"][o], t)[i] = q["server"][o][i]
        BY <1>1, <1>4, <2>1, <3>1, AppendTask
      <4> QED
        BY <1>3, <2>1, <3>1, <4>1
    <3>2. CASE ~(Host = "server" /\ rq[r].owner = o)
      BY <1>3, <2>0, <2>1, <3>2
    <3> QED
      BY <3>1, <3>2
  <2> QED
    BY <2>2 DEF InLine
<1>8. QueuesOK(z, rq)
  BY <1>2, <1>3, <1>6, <1>7 DEF QueuesOK
<1> QED
  BY <1>8 DEF t

(* A request joins the queue: to flush, or to roll back.                    *)
LEMMA RequestJoins ==
  ASSUME NEW q, NEW rq, QueuesOK(q, rq), NEW r \in Requests, rq[r].at = "idle",
         NEW x \in Asking, NEW op \in {"add", "keep"},
         op = "add" => x.at = "flushing" /\ Host = "server",
         op = "keep" => x.at = "queued"
  PROVE  QueuesOK(Put(q, Host, x.owner, Task(op, r)), [rq EXCEPT ![r] = x])
<1> DEFINE t == Task(op, r)
           o == x.owner
           z == Put(q, Host, o, t)
           rq2 == [rq EXCEPT ![r] = x]
<1>1. /\ t \in TaskType /\ t.op = op /\ t.waiter = r
      /\ Host \in Processes /\ o \in Owners
  BY DEF Task, TaskType, Ops, Waiters, Processes, Host, Asking
<1>2. /\ q \in Queues /\ rq \in Asks /\ rq2 \in Asks
      /\ rq2[r] = x /\ \A r2 \in Requests : r2 # r => rq2[r2] = rq[r2]
  BY DEF QueuesOK, Asks
<1> HIDE DEF t, rq2, o
<1>3. /\ z \in Queues /\ z[Host][o] = Append(q[Host][o], t)
      /\ \A p2 \in Processes, o2 \in Owners :
           p2 # Host \/ o2 # o => z[p2][o2] = q[p2][o2]
  BY <1>1, <1>2, PutLine
<1> HIDE DEF z
<1>4. ASSUME NEW p2 \in Processes, NEW o2 \in Owners
      PROVE  /\ q[p2][o2] \in Seq(TaskType) /\ LineOK(q[p2][o2], p2, o2, rq2)
             /\ \A i \in DOMAIN q[p2][o2] : q[p2][o2][i].waiter # r
  <2>1. q[p2][o2] \in Seq(TaskType) /\ LineOK(q[p2][o2], p2, o2, rq)
    BY <1>2 DEF QueuesOK, Queues
  <2>2. \A i \in DOMAIN q[p2][o2] : q[p2][o2][i].waiter # r
    BY <2>1 DEF LineOK
  <2>3. \A i \in DOMAIN q[p2][o2] :
          q[p2][o2][i].waiter \in Requests
            => rq2[q[p2][o2][i].waiter] = rq[q[p2][o2][i].waiter]
    BY <1>2, <2>2
  <2> QED
    BY <2>1, <2>2, <2>3, LineOfOthers
<1>5. LineOK(z[Host][o], Host, o, rq2)
  <2>1. q[Host][o] \in Seq(TaskType) /\ LineOK(q[Host][o], Host, o, rq2)
        /\ \A j \in DOMAIN q[Host][o] : q[Host][o][j].waiter # t.waiter
    BY <1>1, <1>4
  <2>2. /\ t.op \in {"add", "keep"} /\ (t.op = "add" => Host = "server")
        /\ t.waiter \in Requests /\ rq2[t.waiter].owner = o
        /\ t.op = "keep" => rq2[t.waiter].at = "queued"
        /\ t.op = "add" => rq2[t.waiter].at = "flushing"
    BY <1>1, <1>2 DEF o
  <2> QED
    BY <1>1, <1>3, <2>1, <2>2, LineGrows
<1>6. ASSUME NEW p2 \in Processes, NEW o2 \in Owners
      PROVE  LineOK(z[p2][o2], p2, o2, rq2)
  BY <1>3, <1>4, <1>5
<1>7. ASSUME NEW r2 \in Requests, rq2[r2].at = "queued"
      PROVE  InLine(z, r2, rq2[r2].owner)
  <2>1. CASE r2 = r
    <3>1. rq2[r2].owner = o
      BY <1>2, <2>1 DEF o
    <3>2. /\ Len(q[Host][o]) + 1 \in DOMAIN z[Host][o]
          /\ z[Host][o][Len(q[Host][o]) + 1] = t
      <4>1. q[Host][o] \in Seq(TaskType)
        BY <1>1, <1>4
      <4> QED
        BY <1>1, <1>3, <4>1, AppendTask
    <3> QED
      BY <1>1, <2>1, <3>1, <3>2 DEF InLine
  <2>2. CASE r2 # r
    <3>0. rq2[r2] = rq[r2] /\ rq[r2].owner \in Owners
      BY <1>2, <1>7, <2>2 DEF Asks, Asking, Idle
    <3>1. PICK i \in DOMAIN q[Host][rq[r2].owner] :
            q[Host][rq[r2].owner][i].waiter = r2
      BY <1>7, <3>0 DEF QueuesOK, InLine
    <3>2. /\ i \in DOMAIN z[Host][rq[r2].owner]
          /\ z[Host][rq[r2].owner][i].waiter = r2
      <4>1. CASE rq[r2].owner = o
        <5>1. q[Host][o] \in Seq(TaskType)
          BY <1>1, <1>4
        <5>2. i \in DOMAIN Append(q[Host][o], t)
              /\ Append(q[Host][o], t)[i] = q[Host][o][i]
          BY <1>1, <3>1, <4>1, <5>1, AppendTask
        <5> QED
          BY <1>3, <3>1, <4>1, <5>2
      <4>2. CASE rq[r2].owner # o
        BY <1>1, <1>3, <3>0, <3>1, <4>2
      <4> QED
        BY <4>1, <4>2
    <3> QED
      BY <3>0, <3>2 DEF InLine
  <2> QED
    BY <2>1, <2>2
<1>8. QueuesOK(z, rq2)
  BY <1>2, <1>3, <1>6, <1>7 DEF QueuesOK
<1> QED
  BY <1>8 DEF t, z, rq2, o

(* The first task ends, and with it its request.                            *)
Left(p, o) ==
  IF queue[p][o][1].waiter \in Requests
  THEN [req EXCEPT ![queue[p][o][1].waiter] = Idle] ELSE req

LEMMA TaskEnds ==
  ASSUME QueuesOK(queue, req), NEW p \in Processes, NEW o \in Owners,
         queue[p][o] # << >>
  PROVE  QueuesOK(Drop(p, o), Left(p, o))
<1> DEFINE w == queue[p][o][1].waiter
           z == Drop(p, o)
           rq == Left(p, o)
<1>1. /\ queue \in Queues /\ req \in Asks /\ rq \in Asks
      /\ queue[p][o] \in Seq(TaskType) /\ LineOK(queue[p][o], p, o, req)
      /\ 1 \in DOMAIN queue[p][o]
      /\ \A r \in Requests : rq[r] = IF r = w THEN Idle ELSE req[r]
  <2>1. queue \in Queues /\ req \in Asks /\ LineOK(queue[p][o], p, o, req)
    BY DEF QueuesOK
  <2>2. queue[p][o] \in Seq(TaskType)
    BY <2>1 DEF Queues
  <2>3. 1 \in DOMAIN queue[p][o]
    BY <2>2, DropTask
  <2>4. rq \in Asks /\ \A r \in Requests : rq[r] = IF r = w THEN Idle ELSE req[r]
    BY <2>1 DEF Asks, Left
  <2> QED
    BY <2>1, <2>2, <2>3, <2>4
<1> HIDE DEF rq
<1>2. /\ z \in Queues /\ z[p][o] = Tail(queue[p][o])
      /\ \A p2 \in Processes, o2 \in Owners :
           p2 # p \/ o2 # o => z[p2][o2] = queue[p2][o2]
  BY <1>1, DropLine
<1> HIDE DEF z
<1>3. ASSUME NEW p2 \in Processes, NEW o2 \in Owners
      PROVE  LineOK(z[p2][o2], p2, o2, rq)
  <2>1. LineOK(z[p2][o2], p2, o2, req)
    <3>1. CASE p2 = p /\ o2 = o
      BY <1>1, <1>2, <3>1, LineShrinks
    <3>2. CASE ~(p2 = p /\ o2 = o)
      BY <1>2, <3>2 DEF QueuesOK
    <3> QED
      BY <3>1, <3>2
  <2>2. ASSUME NEW i \in DOMAIN z[p2][o2], z[p2][o2][i].waiter \in Requests
        PROVE  z[p2][o2][i].waiter # w
    <3>1. CASE p2 = p /\ o2 = o
      BY <1>1, <1>2, <2>2, <3>1, LineShrinks
    <3>2. CASE ~(p2 = p /\ o2 = o)
      <4>1. SUFFICES ASSUME z[p2][o2][i].waiter = w PROVE FALSE
        OBVIOUS
      <4>2. p2 = Host /\ req[w].owner = o2
        BY <2>1, <2>2, <4>1 DEF LineOK
      <4>3. p = Host /\ req[w].owner = o
        BY <1>1, <2>2, <4>1 DEF LineOK
      <4> QED
        BY <3>2, <4>2, <4>3
    <3> QED
      BY <3>1, <3>2
  <2> QED
    BY <1>1, <2>1, <2>2, LineOfOthers
<1>4. ASSUME NEW r \in Requests, rq[r].at = "queued"
      PROVE  InLine(z, r, rq[r].owner)
  <2>1. r # w /\ rq[r] = req[r] /\ req[r].owner \in Owners
    BY <1>1, <1>4 DEF Idle, Asks, Asking
  <2>2. PICK i \in DOMAIN queue[Host][req[r].owner] :
          queue[Host][req[r].owner][i].waiter = r
    BY <1>4, <2>1 DEF QueuesOK, InLine
  <2>3. \E j \in DOMAIN z[Host][req[r].owner] : z[Host][req[r].owner][j].waiter = r
    <3>1. CASE Host = p /\ req[r].owner = o
      <4>1. i # 1
        BY <2>1, <2>2, <3>1
      <4>2. /\ i - 1 \in DOMAIN Tail(queue[p][o])
            /\ Tail(queue[p][o])[i - 1] = queue[p][o][i]
        <5>1. /\ DOMAIN queue[p][o] = 1..Len(queue[p][o]) /\ Len(queue[p][o]) \in Nat
              /\ DOMAIN Tail(queue[p][o]) = 1..(Len(queue[p][o]) - 1)
              /\ \A j \in DOMAIN Tail(queue[p][o]) :
                   Tail(queue[p][o])[j] = queue[p][o][j + 1]
          BY <1>1, DropTask
        <5>2. i - 1 \in DOMAIN Tail(queue[p][o]) /\ (i - 1) + 1 = i
          BY <2>2, <3>1, <4>1, <5>1
        <5> QED
          BY <5>1, <5>2
      <4>3. z[Host][req[r].owner] = Tail(queue[p][o])
        BY <1>2, <3>1
      <4>4. queue[p][o][i].waiter = r
        BY <2>2, <3>1
      <4>5. i - 1 \in DOMAIN z[Host][req[r].owner]
            /\ z[Host][req[r].owner][i - 1].waiter = r
        BY <4>2, <4>3, <4>4
      <4> QED
        BY <4>5
    <3>2. CASE ~(Host = p /\ req[r].owner = o)
      <4>1. Host \in Processes
        BY DEF Host, Processes
      <4> QED
        BY <1>2, <2>1, <2>2, <3>2, <4>1
    <3> QED
      BY <3>1, <3>2
  <2> QED
    BY <2>1, <2>3 DEF InLine
<1>5. QueuesOK(z, rq)
  BY <1>1, <1>2, <1>3, <1>4 DEF QueuesOK
<1> QED
  BY <1>5 DEF z, rq

(* The first task goes from staging to the commit, or from keeping the head *)
(* to the rollback.                                                         *)
LEMMA TaskMovesOn ==
  ASSUME QueuesOK(queue, req), NEW p \in Processes, NEW o \in Owners,
         queue[p][o] # << >>, NEW op \in Ops,
         \/ queue[p][o][1].op = "add" /\ op = "commit"
         \/ queue[p][o][1].op = "keep" /\ op \in {"reset", "revert"}
  PROVE  QueuesOK(Next1(p, o, op), req)
<1> DEFINE z == Next1(p, o, op)
           s == queue[p][o]
<1>1. /\ queue \in Queues /\ req \in Asks /\ s \in Seq(TaskType)
      /\ LineOK(s, p, o, req)
  BY DEF QueuesOK, Queues
<1>2. /\ z \in Queues /\ DOMAIN z[p][o] = DOMAIN s /\ 1 \in DOMAIN s
      /\ z[p][o][1].op = op /\ z[p][o][1].waiter = s[1].waiter
      /\ \A i \in DOMAIN s : i # 1 => z[p][o][i] = s[i]
      /\ \A p2 \in Processes, o2 \in Owners :
           p2 # p \/ o2 # o => z[p2][o2] = queue[p2][o2]
  BY <1>1, NextLine
<1> HIDE DEF z
<1>3. \A i \in DOMAIN s : z[p][o][i].waiter = s[i].waiter
  BY <1>2
<1>4. ASSUME NEW i \in DOMAIN s
      PROVE  /\ i > 1 => z[p][o][i].op \in {"add", "keep"}
             /\ z[p][o][i].op \in {"add", "commit"} => p = "server"
             /\ z[p][o][i].op \in OfRequest => z[p][o][i].waiter \in Requests
             /\ z[p][o][i].op \in OfRequest <=> s[i].op \in OfRequest
  <2>1. CASE i = 1
    BY <1>1, <1>2, <2>1 DEF LineOK, OfRequest
  <2>2. CASE i # 1
    BY <1>1, <1>2, <2>2 DEF LineOK
  <2> QED
    BY <2>1, <2>2
<1>5. LineOK(z[p][o], p, o, req)
  <2>1. ASSUME NEW i \in DOMAIN s, z[p][o][i].waiter \in Requests
        PROVE  /\ p = Host /\ req[z[p][o][i].waiter].owner = o
               /\ z[p][o][i].op \in OfRequest => req[z[p][o][i].waiter].at = "queued"
               /\ z[p][o][i].op \notin OfRequest
                    => req[z[p][o][i].waiter].at = "flushing"
               /\ \A j \in DOMAIN s : z[p][o][j].waiter = z[p][o][i].waiter => j = i
    BY <1>1, <1>3, <1>4, <2>1 DEF LineOK
  <2> QED
    BY <1>2, <1>4, <2>1 DEF LineOK
<1>6. ASSUME NEW p2 \in Processes, NEW o2 \in Owners
      PROVE  LineOK(z[p2][o2], p2, o2, req)
  BY <1>2, <1>5 DEF QueuesOK
<1>7. ASSUME NEW r \in Requests, req[r].at = "queued"
      PROVE  InLine(z, r, req[r].owner)
  <2>1. Host \in Processes /\ req[r].owner \in Owners
    BY <1>1, <1>7 DEF Host, Processes, Asks, Asking, Idle
  <2>2. PICK i \in DOMAIN queue[Host][req[r].owner] :
          queue[Host][req[r].owner][i].waiter = r
    BY <1>7 DEF QueuesOK, InLine
  <2>3. i \in DOMAIN z[Host][req[r].owner] /\ z[Host][req[r].owner][i].waiter = r
    <3>1. CASE Host = p /\ req[r].owner = o
      BY <1>2, <1>3, <2>2, <3>1
    <3>2. CASE ~(Host = p /\ req[r].owner = o)
      BY <1>2, <2>1, <2>2, <3>2
    <3> QED
      BY <3>1, <3>2
  <2> QED
    BY <2>3 DEF InLine
<1>8. QueuesOK(z, req)
  BY <1>1, <1>2, <1>6, <1>7 DEF QueuesOK
<1> QED
  BY <1>8 DEF z

(* A process ends: its queues are gone, and the requests with it.           *)
LEMMA NothingLeft ==
  QueuesOK([p \in Processes |-> NoTasks], NoRequests)
<1>1. << >> \in Seq(TaskType) /\ DOMAIN << >> = {}
  OBVIOUS
<1>2. [p \in Processes |-> NoTasks] \in Queues
  BY <1>1 DEF Queues, NoTasks
<1>3. NoRequests \in Asks /\ \A r \in Requests : NoRequests[r].at = "idle"
  BY DEF NoRequests, Asks, Idle
<1>4. \A p \in Processes, o \in Owners :
        LineOK([q \in Processes |-> NoTasks][p][o], p, o, NoRequests)
  BY <1>1 DEF LineOK, NoTasks
<1> QED
  BY <1>2, <1>3, <1>4 DEF QueuesOK

LEMMA WorkerGone ==
  ASSUME QueuesOK(queue, req), clustered
  PROVE  QueuesOK([queue EXCEPT !["worker"] = NoTasks], NoRequests)
<1> DEFINE z == [queue EXCEPT !["worker"] = NoTasks]
<1>0. Host = "worker" /\ Processes = {"server", "worker"}
  BY DEF Host, Processes
<1>1. << >> \in Seq(TaskType) /\ DOMAIN << >> = {}
  OBVIOUS
<1>2. queue \in Queues
  BY DEF QueuesOK
<1>3. /\ z \in Queues
      /\ \A o \in Owners : z["worker"][o] = << >> /\ z["server"][o] = queue["server"][o]
  BY <1>0, <1>1, <1>2 DEF Queues, NoTasks
<1> HIDE DEF z
<1>4. NoRequests \in Asks /\ \A r \in Requests : NoRequests[r].at = "idle"
  BY DEF NoRequests, Asks, Idle
<1>5. ASSUME NEW o \in Owners
      PROVE  LineOK(z["server"][o], "server", o, NoRequests)
  <2>1. LineOK(queue["server"][o], "server", o, req)
    BY <1>0 DEF QueuesOK
  <2>2. \A i \in DOMAIN queue["server"][o] :
          queue["server"][o][i].waiter \notin Requests
    BY <1>0, <2>1 DEF LineOK
  <2>3. LineOK(queue["server"][o], "server", o, NoRequests)
    BY <2>1, <2>2, LineOfOthers
  <2> QED
    BY <1>3, <2>3
<1>6. ASSUME NEW o \in Owners
      PROVE  LineOK(z["worker"][o], "worker", o, NoRequests)
  BY <1>1, <1>3 DEF LineOK
<1>7. QueuesOK(z, NoRequests)
  BY <1>0, <1>3, <1>4, <1>5, <1>6 DEF QueuesOK
<1> QED
  BY <1>7 DEF z

-----------------------------------------------------------------------------
(* Types and queues, the part of the invariant the rest is built on.        *)
Shape == /\ TypeOK /\ WaitIsBounded /\ QueuesOK(queue, req)
         /\ ~clustered => inflight = {}

LEMMA Times ==
  /\ Base \in Nat /\ Long \in Nat /\ Extended \in Nat
  /\ LongAfter \in Nat /\ ExtendedAfter \in Nat /\ ImmediateAfter \in Nat
  /\ Base > 0 /\ Long > 0 /\ Extended > 0
  /\ Extended <= Long /\ Long <= Base
  /\ LongAfter + Base <= ImmediateAfter + Extended
  /\ ExtendedAfter + Long <= ImmediateAfter + Extended
  /\ LongAfter > 0
  /\ MaxFaults \in Nat
<1>1. /\ {Base, Long, Extended, LongAfter, ExtendedAfter, ImmediateAfter}
           \subseteq Nat \ {0}
  BY HistoryAssumption
<1>2. /\ Base \in Nat \ {0} /\ Long \in Nat \ {0} /\ Extended \in Nat \ {0}
      /\ LongAfter \in Nat \ {0} /\ ExtendedAfter \in Nat \ {0}
      /\ ImmediateAfter \in Nat \ {0}
  BY <1>1
<1> QED
  BY <1>2, HistoryAssumption

LEMMA Types ==
  ASSUME Shape
  PROVE  /\ clustered \in BOOLEAN /\ pend \in Pendings
         /\ \A o \in Owners : pend[o].age + pend[o].left <= ImmediateAfter + Extended
         /\ queue \in Queues /\ req \in Asks /\ inflight \subseteq Owners
         /\ tree \in BOOLEAN /\ index \in BOOLEAN /\ head \in BOOLEAN
         /\ kept \in BOOLEAN /\ auth \in BOOLEAN
         /\ phase \in {"open", "closing", "closed"} /\ toFlush \subseteq Owners
         /\ written \in Owed /\ changed \in {"no", "quiet", "raced"}
         /\ faults \in 0..MaxFaults
         /\ ~clustered => inflight = {}
         /\ QueuesOK(queue, req)
<1>1. TypeOK /\ WaitIsBounded /\ QueuesOK(queue, req)
      /\ (~clustered => inflight = {})
  BY DEF Shape
<1> QED
  BY <1>1 DEF TypeOK, WaitIsBounded, QueuesOK, Pendings

LEMMA TypesGiveShape ==
  ASSUME Shape, clustered' = clustered, pend' \in Pendings,
         \A o \in Owners : pend'[o].age + pend'[o].left <= ImmediateAfter + Extended,
         QueuesOK(queue', req'), inflight' \subseteq Owners,
         ~clustered => inflight' = {},
         tree' \in BOOLEAN, index' \in BOOLEAN, head' \in BOOLEAN,
         kept' \in BOOLEAN, auth' \in BOOLEAN,
         phase' \in {"open", "closing", "closed"}, toFlush' \subseteq Owners,
         written' \in Owed, changed' \in {"no", "quiet", "raced"},
         faults' \in 0..MaxFaults
  PROVE  Shape'
<1>1. queue' \in Queues /\ req' \in Asks
  BY DEF QueuesOK
<1>2. clustered \in BOOLEAN
  BY Types
<1>3. TypeOK'
  <2>1. {tree, index, head, kept, auth}' \subseteq BOOLEAN
    OBVIOUS
  <2> QED
    BY <1>1, <1>2, <2>1
    DEF TypeOK, Pendings, Queues, TaskType, Asks, Asking
<1>4. QueuesOK(queue, req)'
  BY DEF QueuesOK, LineOK, InLine, Host
<1> QED
  BY <1>3, <1>4 DEF Shape, WaitIsBounded

(* resolveGitHistoryDebounceMs keeps within the longest wait.               *)
LEMMA DebounceTimes ==
  ASSUME NEW waited \in Nat
  PROVE  /\ Debounce(waited) \in 0..Base
         /\ Debounce(waited) # 0
              => waited + Debounce(waited) <= ImmediateAfter + Extended
BY Times DEF Debounce

LEMMA ScheduleStep ==
  ASSUME Shape, NEW q, NEW rq, QueuesOK(q, rq), NEW o \in Owners, Schedule(o, q)
  PROVE  /\ pend' \in Pendings
         /\ \A a \in Owners : pend'[a].age + pend'[a].left <= ImmediateAfter + Extended
         /\ QueuesOK(queue', rq)
         /\ \A a \in Owners : a # o => pend'[a] = pend[a]
         /\ \/ queue' = Put(q, "server", o, Task("add", "timer"))
            \/ queue' = q /\ pend'[o] # NoEntry
<1> DEFINE waited == IF pend[o] = NoEntry THEN 0 ELSE pend[o].age
           time == Debounce(waited)
           entry == IF time = 0 THEN NoEntry ELSE Entry(waited, time)
<1>1. waited \in Nat /\ waited <= ImmediateAfter + Extended
  BY Types, Times DEF Pendings
<1>2. time \in 0..Base /\ (time # 0 => waited + time <= ImmediateAfter + Extended)
  BY <1>1, DebounceTimes
<1>3. pend' = [pend EXCEPT ![o] = entry]
  BY DEF Schedule
<1>4. queue' = IF time = 0 THEN Put(q, "server", o, Task("add", "timer")) ELSE q
  BY DEF Schedule
<1> HIDE DEF waited, time
<1>5. /\ entry \in {NoEntry} \union
                     [age : 0..(ImmediateAfter + Extended), left : 0..Base]
      /\ entry.age + entry.left <= ImmediateAfter + Extended
      /\ time # 0 => entry # NoEntry
  <2>1. CASE time = 0
    BY <2>1, Times DEF NoEntry
  <2>2. CASE time # 0
    <3>1. entry = [age |-> waited, left |-> time]
      BY <2>2 DEF Entry
    <3>2. waited \in 0..(ImmediateAfter + Extended)
      BY <1>1, Times
    <3>3. entry.age = waited /\ waited # -1
      BY <1>1, <3>1
    <3> QED
      BY <1>2, <2>2, <3>1, <3>2, <3>3 DEF NoEntry
  <2> QED
    BY <2>1, <2>2
<1> HIDE DEF entry
<1>6. /\ pend' \in Pendings /\ pend'[o] = entry
      /\ \A a \in Owners : a # o => pend'[a] = pend[a]
  BY <1>3, <1>5, Types DEF Pendings
<1>7. \A a \in Owners : pend'[a].age + pend'[a].left <= ImmediateAfter + Extended
  BY <1>5, <1>6, Types
<1>8. QueuesOK(queue', rq)
  BY <1>4, WorkAdded
<1> QED
  BY <1>4, <1>5, <1>6, <1>7, <1>8

LEMMA RecordStep ==
  ASSUME Shape, NEW q, NEW rq, QueuesOK(q, rq), NEW o \in Owners, NEW without,
         Record(o, q, without)
  PROVE  /\ pend' \in Pendings
         /\ \A a \in Owners : pend'[a].age + pend'[a].left <= ImmediateAfter + Extended
         /\ QueuesOK(queue', rq)
         /\ inflight' \subseteq Owners /\ (~clustered => inflight' = {})
         /\ inflight \subseteq inflight'
         /\ \A a \in Owners : a # o => pend'[a] = pend[a]
         /\ \/ queue' = q /\ pend' = pend /\ clustered /\ o \in inflight'
            \/ queue' = q /\ pend' = pend /\ Suppressed(without)
            \/ /\ ~Suppressed(without)
               /\ queue' = Put(q, "server", o, Task("add", "timer"))
            \/ /\ ~Suppressed(without)
               /\ queue' = q /\ pend'[o] # NoEntry
<1>1. CASE clustered /\ inflight' = inflight \union {o} /\ queue' = q /\ UNCHANGED pend
  BY <1>1, Types
<1>2. CASE /\ ~clustered /\ Suppressed(without)
           /\ queue' = q /\ UNCHANGED <<pend, inflight>>
  BY <1>2, Types
<1>3. CASE ~clustered /\ ~Suppressed(without) /\ Schedule(o, q) /\ UNCHANGED inflight
  BY <1>3, Types, ScheduleStep
<1> QED
  BY <1>1, <1>2, <1>3 DEF Record

LEMMA Owing ==
  ASSUME written \in Owed
  PROVE  /\ Promised \in Owed
         /\ \A o, w : Recorded(o, w) \in Owed
         /\ \A o, q : Miss(o, q) \in Owed
<1>1. Promised \in Owed
  BY DEF Promised, Owed
<1>2. \A o, w : Recorded(o, w) \in Owed
  BY DEF Recorded, Owed
<1>3. \A o, q : Miss(o, q) \in Owed
  BY DEF Miss, Owed
<1> QED
  BY <1>1, <1>2, <1>3

(* The task that runs.                                                      *)
LEMMA CurrentTask ==
  ASSUME Shape, NEW p \in Processes, NEW o \in Owners, queue[p][o] # << >>
  PROVE  LET w == Current(p, o).waiter
         IN /\ Current(p, o) = queue[p][o][1] /\ 1 \in DOMAIN queue[p][o]
            /\ queue[p][o] \in Seq(TaskType) /\ LineOK(queue[p][o], p, o, req)
            /\ Current(p, o) \in TaskType
            /\ Current(p, o).op \in OfRequest => w \in Requests
            /\ Current(p, o).op \in {"add", "commit"} => p = "server"
            /\ w \in Requests =>
                 /\ p = Host /\ req[w].owner = o /\ req[w] \in Asking
                 /\ Left(p, o) = [req EXCEPT ![w] = Idle]
                 /\ Current(p, o).op \in OfRequest => req[w].at = "queued"
                 /\ Current(p, o).op \notin OfRequest => req[w].at = "flushing"
            /\ w \notin Requests => Left(p, o) = req
            /\ \A r \in Requests : Left(p, o)[r] = IF r = w THEN Idle ELSE req[r]
<1>1. queue[p][o] \in Seq(TaskType) /\ req \in Asks /\ LineOK(queue[p][o], p, o, req)
  BY Types DEF QueuesOK, Queues
<1>2. 1 \in DOMAIN queue[p][o] /\ queue[p][o][1] \in TaskType
  BY <1>1, DropTask
<1>3. ASSUME queue[p][o][1].waiter \in Requests
      PROVE  /\ p = Host /\ req[queue[p][o][1].waiter].owner = o
             /\ queue[p][o][1].op \in OfRequest
                  => req[queue[p][o][1].waiter].at = "queued"
             /\ queue[p][o][1].op \notin OfRequest
                  => req[queue[p][o][1].waiter].at = "flushing"
             /\ req[queue[p][o][1].waiter] \in Asking
  <2>1. /\ p = Host /\ req[queue[p][o][1].waiter].owner = o
        /\ queue[p][o][1].op \in OfRequest
             => req[queue[p][o][1].waiter].at = "queued"
        /\ queue[p][o][1].op \notin OfRequest
             => req[queue[p][o][1].waiter].at = "flushing"
    BY <1>1, <1>2, <1>3 DEF LineOK
  <2>2. req[queue[p][o][1].waiter] # Idle
    BY <2>1 DEF Idle
  <2> QED
    BY <1>1, <1>3, <2>1, <2>2 DEF Asks
<1>4. /\ queue[p][o][1].op \in OfRequest => queue[p][o][1].waiter \in Requests
      /\ queue[p][o][1].op \in {"add", "commit"} => p = "server"
  BY <1>1, <1>2 DEF LineOK
<1>5. \A r \in Requests :
        Left(p, o)[r] = IF r = queue[p][o][1].waiter THEN Idle ELSE req[r]
  BY <1>1 DEF Left, Asks
<1> QED
  BY <1>1, <1>2, <1>3, <1>4, <1>5 DEF Current, Left

-----------------------------------------------------------------------------
(* Each action keeps the types and the queues.                              *)
LEMMA WriteShape ==
  ASSUME Shape, NEW o \in Owners, NEW followed \in BOOLEAN, Write(o, followed)
  PROVE  Shape'
<1>1. /\ Record(o, queue, Nobody) /\ tree' = (tree \/ followed)
      /\ written' = IF followed THEN Promised ELSE Recorded(o, Nobody)
      /\ UNCHANGED <<clustered, req, index, head, kept, auth, closeVars, changed,
                     faults>>
  BY DEF Write
<1>2. written' \in Owed
  BY <1>1, Types, Owing
<1>3. tree' \in BOOLEAN
  BY <1>1
<1>4. QueuesOK(queue, req)
  BY Types
<1>5. /\ pend' \in Pendings
      /\ \A a \in Owners : pend'[a].age + pend'[a].left <= ImmediateAfter + Extended
      /\ QueuesOK(queue', req)
      /\ inflight' \subseteq Owners /\ (~clustered => inflight' = {})
  BY <1>1, <1>4, RecordStep
<1> QED
  BY <1>1, <1>2, <1>3, <1>5, Types, TypesGiveShape DEF closeVars

LEMMA HandlerThrowsShape ==
  ASSUME Shape, HandlerThrows
  PROVE  Shape'
<1>1. faults' \in 0..MaxFaults
  BY Types, Times DEF HandlerThrows
<1>2. written' \in Owed
  BY DEF HandlerThrows, Owed
<1> QED
  BY <1>1, <1>2, Types, TypesGiveShape DEF HandlerThrows, closeVars

LEMMA PublishShape ==
  ASSUME Shape, NEW o \in Owners, Publish(o)
  PROVE  Shape'
<1>1. QueuesOK(queue, req) /\ Schedule(o, queue)
  BY Types DEF Publish
<1>2. /\ pend' \in Pendings
      /\ \A a \in Owners : pend'[a].age + pend'[a].left <= ImmediateAfter + Extended
      /\ QueuesOK(queue', req)
  BY <1>1, ScheduleStep
<1> QED
  BY <1>2, Types, TypesGiveShape DEF Publish, repoVars, closeVars

LEMMA ChangeAuthShape ==
  ASSUME Shape, ChangeAuth
  PROVE  Shape'
BY Types, TypesGiveShape DEF ChangeAuth, repoVars, closeVars

LEMMA TickShape ==
  ASSUME Shape, Tick
  PROVE  Shape'
<1>1. ASSUME NEW o \in Owners
      PROVE  /\ pend'[o] \in {NoEntry} \union
                  [age : 0..(ImmediateAfter + Extended), left : 0..Base]
             /\ pend'[o].age + pend'[o].left <= ImmediateAfter + Extended
  <2>1. CASE pend[o] = NoEntry
    BY <2>1, Types, Times DEF Tick, NoEntry
  <2>2. CASE pend[o] # NoEntry
    <3>1. /\ pend[o] \in [age : 0..(ImmediateAfter + Extended), left : 0..Base]
          /\ pend[o].left > 0
          /\ pend[o].age + pend[o].left <= ImmediateAfter + Extended
      BY <2>2, Types DEF Tick, Pendings
    <3>2. pend'[o] = [age |-> pend[o].age + 1, left |-> pend[o].left - 1]
      BY <2>2 DEF Tick, Entry
    <3> QED
      BY <3>1, <3>2, Times
  <2> QED
    BY <2>1, <2>2
<1>2. pend' \in Pendings
  BY <1>1 DEF Tick, Pendings
<1> QED
  BY <1>1, <1>2, Types, TypesGiveShape DEF Tick, repoVars, closeVars

LEMMA NoEntryIsPending ==
  ASSUME Shape, NEW o \in Owners, pend' = [pend EXCEPT ![o] = NoEntry]
  PROVE  /\ pend' \in Pendings
         /\ \A a \in Owners : pend'[a].age + pend'[a].left <= ImmediateAfter + Extended
         /\ \A a \in Owners : pend'[a] = IF a = o THEN NoEntry ELSE pend[a]
<1>1. \A a \in Owners : pend'[a] = IF a = o THEN NoEntry ELSE pend[a]
  BY Types DEF Pendings
<1>2. NoEntry.age + NoEntry.left <= ImmediateAfter + Extended
  BY Times DEF NoEntry
<1>3. pend' \in Pendings
  BY Types DEF Pendings
<1> QED
  BY <1>1, <1>2, <1>3, Types

LEMMA TimerFiresShape ==
  ASSUME Shape, NEW o \in Owners, TimerFires(o)
  PROVE  Shape'
<1>1. pend' = [pend EXCEPT ![o] = NoEntry]
      /\ queue' = Put(queue, "server", o, Task("add", "timer"))
  BY DEF TimerFires
<1>2. QueuesOK(queue', req)
  BY <1>1, Types, WorkAdded
<1> QED
  BY <1>1, <1>2, Types, NoEntryIsPending, TypesGiveShape
  DEF TimerFires, repoVars, closeVars

LEMMA AskShape ==
  ASSUME Shape, NEW r \in Requests, NEW op \in {"rollback", "revert", "preview"},
         NEW o \in Owners, NEW target \in BOOLEAN, Ask(r, op, o, target)
  PROVE  Shape'
<1>1. req[r].at = "idle" /\ QueuesOK(queue, req)
      /\ UNCHANGED <<clustered, inflight, repoVars, auth, closeVars, written,
                     changed, faults>>
  BY Types DEF Ask, Idle
<1>2. /\ pend' \in Pendings
      /\ \A a \in Owners : pend'[a].age + pend'[a].left <= ImmediateAfter + Extended
      /\ QueuesOK(queue', req')
  <2>1. CASE AskFlush(r, op, o, target)
    <3> DEFINE x == Asked("flushing", op, o, target, FALSE)
    <3>1. x \in Asking /\ x.at = "flushing" /\ x.owner = o
      BY DEF Asked, Asking
    <3>2. Host = "server" /\ pend' = [pend EXCEPT ![o] = NoEntry]
          /\ queue' = Put(queue, Host, o, Task("add", r))
          /\ req' = [req EXCEPT ![r] = x]
      BY <2>1 DEF AskFlush, Host
    <3> HIDE DEF x
    <3>3. QueuesOK(queue', req')
      BY <1>1, <3>1, <3>2, RequestJoins
    <3> QED
      BY <3>2, <3>3, NoEntryIsPending
  <2>2. CASE Enter(r, op, o, target, queue) /\ UNCHANGED pend
    <3> DEFINE x == Asked("queued", op, o, target, auth)
    <3>1. x \in Asking /\ x.at = "queued" /\ x.owner = o
      BY Types DEF Asked, Asking
    <3>2. queue' = Put(queue, Host, o, Task("keep", r))
          /\ req' = [req EXCEPT ![r] = x]
      BY <2>2 DEF Enter
    <3> HIDE DEF x
    <3>3. QueuesOK(queue', req')
      BY <1>1, <3>1, <3>2, RequestJoins
    <3> QED
      BY <2>2, <3>3, Types
  <2> QED
    BY <2>1, <2>2 DEF Ask
<1> QED
  BY <1>1, <1>2, Types, TypesGiveShape DEF repoVars, closeVars

LEMMA RunAddShape ==
  ASSUME Shape, NEW o \in Owners, RunAdd(o)
  PROVE  Shape'
<1>1. /\ "server" \in Processes /\ queue["server"][o] # << >>
      /\ Current("server", o).op = "add"
      /\ queue' = Next1("server", o, "commit")
      /\ "commit" \in Ops
  BY DEF RunAdd, Staged, At, Processes, Ops
<1>2. queue["server"][o][1].op = "add"
  BY <1>1, CurrentTask
<1>3. QueuesOK(queue', req)
  BY <1>1, <1>2, Types, TaskMovesOn
<1>4. index' \in BOOLEAN
  BY Types DEF RunAdd
<1> QED
  BY <1>3, <1>4, Types, TypesGiveShape DEF RunAdd, closeVars

(* What a commit's caller does next.                                        *)
LEMMA FlushedShape ==
  ASSUME Shape, NEW o \in Owners, queue["server"][o] # << >>,
         Current("server", o).op = "commit",
         Flushed(Current("server", o).waiter, o)
  PROVE  QueuesOK(queue', req')
<1> DEFINE r == Current("server", o).waiter
           q == Drop("server", o)
<1>0. "server" \in Processes
  BY DEF Processes
<1>1. QueuesOK(q, Left("server", o)) /\ req \in Asks
  BY <1>0, Types, TaskEnds
<1>2. CASE r \notin Requests
  <2>1. Left("server", o) = req
    BY <1>0, <1>2, CurrentTask
  <2>2. queue' = q /\ req' = req
    BY <1>2 DEF Flushed
  <2> QED
    BY <1>1, <2>1, <2>2
<1>3. CASE r \in Requests
  <2>1. /\ Left("server", o) = [req EXCEPT ![r] = Idle]
        /\ Host = "server" /\ req[r] \in Asking
    BY <1>0, <1>3, CurrentTask
  <2>2. CASE req[r].op = "preview"
    BY <1>1, <1>3, <2>1, <2>2 DEF Flushed
  <2>3. CASE req[r].op # "preview"
    <3> DEFINE x == Asked("queued", req[r].op, o, req[r].target, auth)
    <3>1. x \in Asking /\ x.at = "queued" /\ x.owner = o
      BY <2>1, Types DEF Asked, Asking
    <3>2. queue' = Put(q, Host, o, Task("keep", r)) /\ req' = [req EXCEPT ![r] = x]
      BY <1>3, <2>3 DEF Flushed, Enter
    <3>3. Left("server", o)[r].at = "idle"
      BY <1>1, <1>3, <2>1 DEF Asks, Idle
    <3>4. [Left("server", o) EXCEPT ![r] = x] = req'
      BY <1>1, <1>3, <2>1, <3>2 DEF Asks
    <3> HIDE DEF x
    <3> QED
      BY <1>1, <1>3, <3>1, <3>2, <3>3, <3>4, RequestJoins
  <2> QED
    BY <2>2, <2>3
<1> QED
  BY <1>2, <1>3

LEMMA RunCommitShape ==
  ASSUME Shape, NEW o \in Owners, RunCommit(o)
  PROVE  Shape'
<1>1. QueuesOK(queue', req')
  BY FlushedShape DEF RunCommit, At
<1>2. /\ head' \in BOOLEAN /\ kept' \in BOOLEAN /\ written' \in Owed
  <2>1. head' \in BOOLEAN
    BY Types DEF RunCommit
  <2>2. kept' \in BOOLEAN
    BY Types DEF RunCommit
  <2>3. written' \in Owed
    BY Types DEF RunCommit, Owed
  <2> QED
    BY <2>1, <2>2, <2>3
<1> QED
  BY <1>1, <1>2, Types, TypesGiveShape DEF RunCommit, closeVars

LEMMA RunKeepShape ==
  ASSUME Shape, NEW p \in Processes, NEW o \in Owners, RunKeep(p, o)
  PROVE  Shape'
<1>1. PICK op \in {"reset", "revert"} :
        /\ Staged(p, o, "keep", op)
        /\ kept' = IF /\ o = Watched
                      /\ op = "revert" \/ req[Current(p, o).waiter].target # head
                   THEN kept \/ head ELSE kept
  BY DEF RunKeep
<1>2. queue[p][o] # << >> /\ Current(p, o).op = "keep" /\ op \in Ops
      /\ queue' = Next1(p, o, op)
  BY <1>1 DEF Staged, At, Ops
<1>3. queue[p][o][1].op = "keep"
  BY <1>2, CurrentTask
<1>4. QueuesOK(queue', req)
  BY <1>2, <1>3, Types, TaskMovesOn
<1>5. kept' \in BOOLEAN
  BY <1>1, Types
<1> QED
  BY <1>4, <1>5, Types, TypesGiveShape DEF RunKeep, closeVars

(* A request leaves its queue, and its owner root is recorded.              *)
LEMMA LeaveShape ==
  ASSUME Shape, NEW p \in Processes, NEW o \in Owners, queue[p][o] # << >>,
         Current(p, o).op \in OfRequest, Leave(p, o, Current(p, o).waiter)
  PROVE  /\ pend' \in Pendings
         /\ \A a \in Owners : pend'[a].age + pend'[a].left <= ImmediateAfter + Extended
         /\ QueuesOK(queue', req')
         /\ inflight' \subseteq Owners /\ (~clustered => inflight' = {})
         /\ auth' \in BOOLEAN
         /\ req' = Left(p, o)
         /\ Current(p, o).waiter \in Requests
         /\ req[Current(p, o).waiter] \in Asking
         /\ req[Current(p, o).waiter].owner = o
         /\ req[Current(p, o).waiter].at = "queued"
<1> DEFINE r == Current(p, o).waiter
<1>1. /\ r \in Requests /\ req[r] \in Asking /\ req[r].owner = o
      /\ req[r].at = "queued" /\ Left(p, o) = [req EXCEPT ![r] = Idle]
  BY CurrentTask
<1>2. /\ req' = Left(p, o) /\ auth' = Restored(r, o)
      /\ Record(o, Drop(p, o), r)
  BY <1>1 DEF Leave
<1>3. QueuesOK(Drop(p, o), Left(p, o))
  BY Types, TaskEnds
<1>4. /\ pend' \in Pendings
      /\ \A a \in Owners : pend'[a].age + pend'[a].left <= ImmediateAfter + Extended
      /\ QueuesOK(queue', Left(p, o))
      /\ inflight' \subseteq Owners /\ (~clustered => inflight' = {})
  BY <1>2, <1>3, RecordStep
<1>5. auth' \in BOOLEAN
  BY <1>1, <1>2, Types DEF Restored, Asking
<1> QED
  BY <1>1, <1>2, <1>4, <1>5

LEMMA RunResetShape ==
  ASSUME Shape, NEW p \in Processes, NEW o \in Owners, RunReset(p, o)
  PROVE  Shape'
<1> DEFINE r == Current(p, o).waiter
<1>1. /\ queue[p][o] # << >> /\ Current(p, o).op = "reset" /\ Leave(p, o, r)
      /\ written' = Recorded(o, r)
      /\ UNCHANGED <<clustered, kept, closeVars, changed, faults>>
      /\ IF o = Watched
         THEN tree' = req[r].target /\ index' = tree' /\ head' = tree'
         ELSE UNCHANGED <<tree, index, head>>
  BY DEF RunReset, At
<1>2. Current(p, o).op \in OfRequest
  BY <1>1 DEF OfRequest
<1>3. /\ pend' \in Pendings
      /\ \A a \in Owners : pend'[a].age + pend'[a].left <= ImmediateAfter + Extended
      /\ QueuesOK(queue', req')
      /\ inflight' \subseteq Owners /\ (~clustered => inflight' = {})
      /\ auth' \in BOOLEAN /\ req[r] \in Asking
  BY <1>1, <1>2, LeaveShape
<1>4. tree' \in BOOLEAN /\ index' \in BOOLEAN /\ head' \in BOOLEAN
  BY <1>1, <1>3, Types DEF Asking
<1>5. written' \in Owed
  BY <1>1, Types, Owing
<1> QED
  BY <1>1, <1>3, <1>4, <1>5, Types, TypesGiveShape DEF closeVars

LEMMA RunRevertShape ==
  ASSUME Shape, NEW p \in Processes, NEW o \in Owners, RunRevert(p, o)
  PROVE  Shape'
<1> DEFINE r == Current(p, o).waiter
           undoes == o = Watched /\ req[r].target
<1>1. /\ queue[p][o] # << >> /\ Current(p, o).op = "revert" /\ Leave(p, o, r)
      /\ written' = IF Suppressed(r) THEN Miss(o, Drop(p, o)) ELSE Recorded(o, r)
      /\ UNCHANGED <<clustered, closeVars, changed, faults>>
      /\ tree' = (tree /\ ~undoes) /\ index' = (index /\ ~undoes)
      /\ head' = (head /\ ~undoes) /\ kept' = (kept \/ undoes)
  BY DEF RunRevert, At
<1>2. Current(p, o).op \in OfRequest
  BY <1>1 DEF OfRequest
<1>3. /\ pend' \in Pendings
      /\ \A a \in Owners : pend'[a].age + pend'[a].left <= ImmediateAfter + Extended
      /\ QueuesOK(queue', req')
      /\ inflight' \subseteq Owners /\ (~clustered => inflight' = {})
      /\ auth' \in BOOLEAN
  BY <1>1, <1>2, LeaveShape
<1>4. /\ tree' \in BOOLEAN /\ index' \in BOOLEAN /\ head' \in BOOLEAN
      /\ kept' \in BOOLEAN
  BY <1>1
<1>5. written' \in Owed
  BY <1>1, Types, Owing
<1> QED
  BY <1>1, <1>3, <1>4, <1>5, Types, TypesGiveShape DEF closeVars

(* A task throws: its request, if it has one, is over.                      *)
LEMMA ThrowLeaves ==
  ASSUME Shape, NEW p \in Processes, NEW o \in Owners, queue[p][o] # << >>,
         Throw(p, o)
  PROVE  /\ queue' = Drop(p, o) /\ req' = Left(p, o) /\ QueuesOK(queue', req')
         /\ auth' = Restored(Current(p, o).waiter, o) /\ auth' \in BOOLEAN
         /\ written' = Miss(o, queue') /\ written' \in Owed
         /\ UNCHANGED <<clustered, pend, inflight, repoVars, closeVars, changed>>
<1>1. /\ queue' = Drop(p, o) /\ auth' = Restored(Current(p, o).waiter, o)
      /\ written' = Miss(o, queue')
      /\ UNCHANGED <<clustered, pend, inflight, repoVars, closeVars, changed>>
      /\ req' = IF Current(p, o).waiter \in Requests
                THEN [req EXCEPT ![Current(p, o).waiter] = Idle] ELSE req
  BY DEF Throw
<1>2. req' = Left(p, o)
  BY <1>1, CurrentTask
<1>3. QueuesOK(queue', req')
  BY <1>1, <1>2, Types, TaskEnds
<1>4. auth' \in BOOLEAN
  <2>1. CASE Current(p, o).waiter \in Requests
    <3>1. req[Current(p, o).waiter].snap \in BOOLEAN
      BY <2>1, CurrentTask DEF Asking
    <3> QED
      BY <1>1, <3>1, Types DEF Restored
  <2>2. CASE Current(p, o).waiter \notin Requests
    BY <1>1, <2>2, Types DEF Restored
  <2> QED
    BY <2>1, <2>2
<1>5. written' \in Owed
  BY <1>1, Types, Owing
<1> QED
  BY <1>1, <1>2, <1>3, <1>4, <1>5

LEMMA RevertConflictsShape ==
  ASSUME Shape, NEW p \in Processes, NEW o \in Owners, RevertConflicts(p, o)
  PROVE  Shape'
<1>1. queue[p][o] # << >> /\ Throw(p, o) /\ UNCHANGED faults
  BY DEF RevertConflicts, At
<1> QED
  BY <1>1, ThrowLeaves, Types, TypesGiveShape DEF repoVars, closeVars

LEMMA GitFailsShape ==
  ASSUME Shape, NEW p \in Processes, NEW o \in Owners, GitFails(p, o)
  PROVE  Shape'
<1>1. queue[p][o] # << >> /\ Throw(p, o)
  BY DEF GitFails
<1>2. faults' \in 0..MaxFaults
  BY Types, Times DEF GitFails
<1> QED
  BY <1>1, <1>2, ThrowLeaves, Types, TypesGiveShape DEF repoVars, closeVars

LEMMA NothingPending ==
  ASSUME Shape, pend' = [o \in Owners |-> NoEntry]
  PROVE  /\ pend' \in Pendings
         /\ \A a \in Owners : pend'[a].age + pend'[a].left <= ImmediateAfter + Extended
BY Times DEF Pendings, NoEntry

LEMMA MailShape ==
  ASSUME Shape, MailCutOff
  PROVE  inflight' \subseteq inflight /\ written' \in Owed
BY Types DEF MailCutOff, Owed

LEMMA KillShape ==
  ASSUME Shape, NEW p \in Processes, Kill(p)
  PROVE  Shape'
<1>1. /\ faults' \in 0..MaxFaults /\ req' = NoRequests
      /\ UNCHANGED <<clustered, repoVars, auth, closeVars, changed>>
  BY Types, Times DEF Kill
<1>2. CASE p = "server"
  <2>1. /\ pend' = [o \in Owners |-> NoEntry] /\ inflight' = {}
        /\ queue' = [q \in Processes |-> NoTasks]
        /\ written' = IF Uncommitted THEN "missed" ELSE written
    BY <1>2 DEF Kill
  <2>2. QueuesOK(queue', req')
    BY <1>1, <2>1, NothingLeft
  <2>3. written' \in Owed
    BY <2>1, Types DEF Owed
  <2> QED
    BY <1>1, <2>1, <2>2, <2>3, NothingPending, Types, TypesGiveShape
    DEF repoVars, closeVars
<1>3. CASE p = "worker"
  <2>1. /\ clustered /\ MailCutOff /\ UNCHANGED pend
        /\ queue' = [queue EXCEPT !["worker"] = NoTasks]
    BY <1>3 DEF Kill
  <2>2. QueuesOK(queue', req')
    BY <1>1, <2>1, Types, WorkerGone
  <2> QED
    BY <1>1, <2>1, <2>2, MailShape, Types, TypesGiveShape DEF repoVars, closeVars
<1> QED
  BY <1>2, <1>3 DEF Processes

LEMMA BeginCloseShape ==
  ASSUME Shape, BeginClose
  PROVE  Shape'
<1>1. /\ phase' = "closing" /\ toFlush' \subseteq Owners
      /\ UNCHANGED <<clustered, pend, repoVars, auth, changed, faults>>
  BY DEF BeginClose
<1>2. /\ QueuesOK(queue', req') /\ inflight' \subseteq Owners
      /\ (~clustered => inflight' = {}) /\ written' \in Owed
  <2>1. CASE clustered
    <3>1. /\ req' = NoRequests /\ MailCutOff
          /\ queue' = [queue EXCEPT !["worker"] = NoTasks]
      BY <2>1 DEF BeginClose
    <3> QED
      BY <2>1, <3>1, MailShape, Types, WorkerGone
  <2>2. CASE ~clustered
    BY <2>2, Types DEF BeginClose
  <2> QED
    BY <2>1, <2>2
<1> QED
  BY <1>1, <1>2, Types, TypesGiveShape DEF repoVars

LEMMA FlushNextShape ==
  ASSUME Shape, NEW o \in Owners, FlushNext(o)
  PROVE  Shape'
<1>1. /\ pend' = [pend EXCEPT ![o] = NoEntry] /\ toFlush' \subseteq Owners
      /\ queue' = IF pend[o] = NoEntry THEN queue
                  ELSE Put(queue, "server", o, Task("add", "close"))
      /\ UNCHANGED <<clustered, req, inflight, repoVars, auth, phase, written,
                     changed, faults>>
  BY Types DEF FlushNext
<1>2. QueuesOK(queue', req)
  BY <1>1, Types, WorkAdded
<1> QED
  BY <1>1, <1>2, Types, NoEntryIsPending, TypesGiveShape DEF repoVars

LEMMA ExitShape ==
  ASSUME Shape, Exit
  PROVE  Shape'
<1>1. QueuesOK(queue', req')
  BY NothingLeft DEF Exit
<1>2. written' \in Owed
  BY Types DEF Exit, Owed
<1> QED
  BY <1>1, <1>2, NothingPending, Types, TypesGiveShape DEF Exit, repoVars

-----------------------------------------------------------------------------
LEMMA ShapeInit ==
  ASSUME Init
  PROVE  Shape
<1>1. pend \in Pendings /\ (\A o \in Owners : pend[o].age + pend[o].left = -1)
  BY DEF Init, Pendings, NoEntry
<1>2. queue = [p \in Processes |-> NoTasks] /\ req = NoRequests
  BY DEF Init, NoTasks, NoRequests
<1>3. QueuesOK(queue, req)
  BY <1>2, NothingLeft
<1>4. {tree, index, head, kept, auth} \subseteq BOOLEAN
  BY DEF Init
<1>5. faults \in 0..MaxFaults
  BY Times DEF Init
<1>6. TypeOK
  BY <1>1, <1>3, <1>4, <1>5
  DEF Init, TypeOK, QueuesOK, Pendings, Queues, TaskType, Asks, Asking, Owed
<1>7. WaitIsBounded
  <2>1. -1 <= ImmediateAfter + Extended
    BY Times
  <2> QED
    BY <1>1, <2>1 DEF WaitIsBounded
<1> QED
  BY <1>3, <1>6, <1>7 DEF Init, Shape

LEMMA ShapeStep ==
  ASSUME Shape, Next
  PROVE  Shape'
<1>1. ASSUME NEW o \in Owners, NEW followed \in BOOLEAN, Write(o, followed)
      PROVE  Shape'
  BY <1>1, WriteShape
<1>2. ASSUME NEW o \in Owners, Publish(o) \/ TimerFires(o) \/ FlushNext(o)
      PROVE  Shape'
  BY <1>2, PublishShape, TimerFiresShape, FlushNextShape
<1>3. ASSUME NEW o \in Owners, NEW r \in Requests,
             NEW op \in {"rollback", "revert", "preview"},
             NEW target \in BOOLEAN, Ask(r, op, o, target)
      PROVE  Shape'
  BY <1>3, AskShape
<1>4. ASSUME NEW o \in Owners, NEW p \in Processes, Run(p, o) \/ GitFails(p, o)
      PROVE  Shape'
  BY <1>4, RunAddShape, RunCommitShape, RunKeepShape, RunResetShape,
     RunRevertShape, RevertConflictsShape, GitFailsShape DEF Run
<1>5. ASSUME NEW p \in Processes, Kill(p)
      PROVE  Shape'
  BY <1>5, KillShape
<1>6. ASSUME HandlerThrows \/ ChangeAuth \/ Tick \/ BeginClose \/ Exit
      PROVE  Shape'
  BY <1>6, HandlerThrowsShape, ChangeAuthShape, TickShape, BeginCloseShape,
     ExitShape
<1> QED
  BY <1>1, <1>2, <1>3, <1>4, <1>5, <1>6 DEF Next

LEMMA ShapeStutters ==
  ASSUME Shape, UNCHANGED vars
  PROVE  Shape'
BY Types, TypesGiveShape DEF vars, repoVars, closeVars

THEOREM ShapeInvariance == Spec => []Shape
<1>1. Shape /\ [Next]_vars => Shape'
  BY ShapeStep, ShapeStutters
<1> QED
  BY ShapeInit, <1>1, PTL DEF Spec

(* Types: pendingCommits, the repositories' queues and the rest never hold  *)
(* anything else, however many owners, requests and faults there are.       *)
THEOREM TypeCorrect == Spec => []TypeOK
<1>1. Shape => TypeOK
  BY DEF Shape
<1> QED
  BY <1>1, ShapeInvariance, PTL

(* resolveGitHistoryDebounceMs bounds the wait of every owner's commit, for *)
(* any debounce times the assumption allows.                                *)
THEOREM CommitsDoNotWaitForever == Spec => []WaitIsBounded
<1>1. Shape => WaitIsBounded
  BY DEF Shape
<1> QED
  BY <1>1, ShapeInvariance, PTL
-----------------------------------------------------------------------------
(* Sign-in files: a request that entered the queue holds a snapshot of now. *)
SnapsGood(rq) ==
  \A r \in Requests : rq[r].at = "queued" /\ rq[r].owner = Watched => rq[r].snap

LEMMA EnteredSnaps ==
  ASSUME Shape, NEW rq \in Asks, auth => SnapsGood(rq), auth,
         NEW r \in Requests, NEW x \in Asking,
         x.at = "queued" => x.snap = auth
  PROVE  SnapsGood([rq EXCEPT ![r] = x])
<1>1. \A r2 \in Requests : [rq EXCEPT ![r] = x][r2] = IF r2 = r THEN x ELSE rq[r2]
  BY DEF Asks
<1> QED
  BY <1>1 DEF SnapsGood

LEMMA EndedSnaps ==
  ASSUME Shape, SnapsGood(req), NEW p \in Processes, NEW o \in Owners,
         queue[p][o] # << >>
  PROVE  SnapsGood(Left(p, o))
BY CurrentTask DEF SnapsGood, Idle

LEMMA RestoredSnap ==
  ASSUME Shape, SnapsGood(req), auth, NEW p \in Processes, NEW o \in Owners,
         queue[p][o] # << >>
  PROVE  Restored(Current(p, o).waiter, o)
<1>1. Current(p, o).waiter \in Requests => req[Current(p, o).waiter].owner = o
  BY CurrentTask
<1> QED
  BY <1>1 DEF Restored, SnapsGood

LEMMA NoSnaps ==
  SnapsGood(NoRequests)
BY DEF SnapsGood, NoRequests, Idle

LEMMA SnapshotsInit ==
  ASSUME Init
  PROVE  SnapshotsOK
BY DEF Init, SnapshotsOK

LEMMA ChangeAuthSnapshots ==
  ASSUME Shape, SnapshotsOK, ChangeAuth
  PROVE  SnapshotsOK'
BY DEF ChangeAuth, SnapshotsOK, Suppresses

LEMMA SnapshotsStep ==
  ASSUME Shape, SnapshotsOK, changed' = changed,
         changed = "quiet" /\ auth /\ SnapsGood(req) => auth' /\ SnapsGood(req')
  PROVE  SnapshotsOK'
BY DEF SnapshotsOK, SnapsGood

LEMMA FlushedSnaps ==
  ASSUME Shape, NEW o \in Owners, queue["server"][o] # << >>, auth,
         SnapsGood(req), Current("server", o).op = "commit",
         Flushed(Current("server", o).waiter, o)
  PROVE  SnapsGood(req')
<1> DEFINE r == Current("server", o).waiter
<1>0. "server" \in Processes /\ req \in Asks
  BY Types DEF Processes
<1>1. CASE r \notin Requests
  BY <1>1 DEF Flushed
<1>2. CASE r \in Requests
  <2>1. Left("server", o) = [req EXCEPT ![r] = Idle] /\ req[r] \in Asking
    BY <1>0, <1>2, CurrentTask
  <2>2. CASE req[r].op = "preview"
    BY <1>0, <1>2, <2>1, <2>2, EndedSnaps DEF Flushed
  <2>3. CASE req[r].op # "preview"
    <3> DEFINE x == Asked("queued", req[r].op, o, req[r].target, auth)
    <3>1. x \in Asking /\ x.snap = auth
      BY <2>1, Types DEF Asked, Asking
    <3>2. req' = [req EXCEPT ![r] = x]
      BY <1>2, <2>3 DEF Flushed, Enter
    <3> HIDE DEF x
    <3> QED
      BY <1>0, <1>2, <3>1, <3>2, EnteredSnaps
  <2> QED
    BY <2>2, <2>3
<1> QED
  BY <1>1, <1>2

LEMMA AskSnaps ==
  ASSUME Shape, NEW r \in Requests, NEW op \in {"rollback", "revert", "preview"},
         NEW o \in Owners, NEW target \in BOOLEAN, Ask(r, op, o, target),
         auth, SnapsGood(req)
  PROVE  SnapsGood(req')
<1>1. \E at \in {"flushing", "queued"} : \E snap \in BOOLEAN :
        /\ req' = [req EXCEPT ![r] = Asked(at, op, o, target, snap)]
        /\ at = "queued" => snap = auth
  <2>1. CASE AskFlush(r, op, o, target)
    BY <2>1 DEF AskFlush
  <2>2. CASE Enter(r, op, o, target, queue)
    BY <2>2, Types DEF Enter
  <2> QED
    BY <2>1, <2>2 DEF Ask
<1>2. PICK at \in {"flushing", "queued"}, snap \in BOOLEAN :
        /\ req' = [req EXCEPT ![r] = Asked(at, op, o, target, snap)]
        /\ at = "queued" => snap = auth
  BY <1>1
<1> DEFINE x == Asked(at, op, o, target, snap)
<1>3. x \in Asking /\ x.at = at /\ x.snap = snap
  BY DEF Asked, Asking
<1> HIDE DEF x
<1> QED
  BY <1>2, <1>3, EnteredSnaps, Types DEF x

LEMMA SnapshotsKept ==
  ASSUME Shape, SnapshotsOK, Next
  PROVE  SnapshotsOK'
<1>1. CASE ChangeAuth
  BY <1>1, ChangeAuthSnapshots
<1>2. ASSUME UNCHANGED <<changed, auth, req>>
      PROVE  SnapshotsOK'
  BY <1>2, SnapshotsStep
<1>3. ASSUME NEW o \in Owners, NEW r \in Requests,
             NEW op \in {"rollback", "revert", "preview"},
             NEW target \in BOOLEAN, Ask(r, op, o, target)
      PROVE  SnapshotsOK'
  BY <1>3, AskSnaps, SnapshotsStep DEF Ask
<1>4. ASSUME NEW o \in Owners, RunCommit(o)
      PROVE  SnapshotsOK'
  BY <1>4, FlushedSnaps, SnapshotsStep DEF RunCommit, At
<1>5. ASSUME NEW o \in Owners, NEW p \in Processes,
             RunReset(p, o) \/ RunRevert(p, o)
      PROVE  SnapshotsOK'
  <2>1. /\ queue[p][o] # << >> /\ Current(p, o).op \in OfRequest
        /\ Leave(p, o, Current(p, o).waiter) /\ changed' = changed
    BY <1>5 DEF RunReset, RunRevert, At, OfRequest
  <2>2. req' = Left(p, o)
    BY <2>1, LeaveShape
  <2>3. auth' = Restored(Current(p, o).waiter, o)
    BY <2>1 DEF Leave
  <2> QED
    BY <2>1, <2>2, <2>3, EndedSnaps, RestoredSnap, SnapshotsStep
<1>6. ASSUME NEW o \in Owners, NEW p \in Processes,
             RevertConflicts(p, o) \/ GitFails(p, o)
      PROVE  SnapshotsOK'
  <2>1. queue[p][o] # << >> /\ Throw(p, o)
    BY <1>6 DEF RevertConflicts, GitFails, At
  <2>2. /\ req' = Left(p, o) /\ changed' = changed
        /\ auth' = Restored(Current(p, o).waiter, o)
    BY <2>1, ThrowLeaves
  <2> QED
    BY <2>1, <2>2, EndedSnaps, RestoredSnap, SnapshotsStep
<1>7. ASSUME UNCHANGED <<changed, auth>>, req' = NoRequests
      PROVE  SnapshotsOK'
  BY <1>7, NoSnaps, SnapshotsStep
<1>8. ASSUME NEW p \in Processes, Kill(p)
      PROVE  SnapshotsOK'
  BY <1>7, <1>8 DEF Kill
<1>9. CASE BeginClose
  BY <1>2, <1>7, <1>9 DEF BeginClose
<1>10. CASE Exit
  BY <1>7, <1>10 DEF Exit
<1>11. ASSUME NEW o \in Owners,
              \/ \E followed \in BOOLEAN : Write(o, followed)
              \/ Publish(o) \/ TimerFires(o) \/ FlushNext(o) \/ RunAdd(o)
       PROVE  SnapshotsOK'
  BY <1>2, <1>11 DEF Write, Publish, TimerFires, FlushNext, RunAdd
<1>12. ASSUME NEW o \in Owners, NEW p \in Processes, RunKeep(p, o)
       PROVE  SnapshotsOK'
  BY <1>2, <1>12 DEF RunKeep
<1>13. CASE HandlerThrows \/ Tick
  BY <1>2, <1>13 DEF HandlerThrows, Tick
<1> QED
  BY <1>1, <1>3, <1>4, <1>5, <1>6, <1>8, <1>9, <1>10, <1>11, <1>12, <1>13
  DEF Next, Run

THEOREM SnapshotsInvariance == Spec => []SnapshotsOK
<1>1. Shape /\ SnapshotsOK /\ [Next]_vars => SnapshotsOK'
  <2>1. ASSUME SnapshotsOK, UNCHANGED vars
        PROVE  SnapshotsOK'
    BY <2>1 DEF SnapshotsOK, vars
  <2> QED
    BY <2>1, SnapshotsKept
<1> QED
  BY SnapshotsInit, ShapeInvariance, <1>1, PTL DEF Spec

(* restoreIgnoredPathSnapshots: however many rollbacks and reverts run, the *)
(* sign-in files changed outside their windows stay as they are.            *)
THEOREM RollbacksKeepAuthFiles == Spec => []AuthFilesStay
<1>1. SnapshotsOK => AuthFilesStay
  BY DEF SnapshotsOK, AuthFilesStay
<1> QED
  BY <1>1, SnapshotsInvariance, PTL

-----------------------------------------------------------------------------
(* What the operations on queues do to the one of Watched.                  *)
Line == queue["server"][Watched]

LEMMA WatchedIn ==
  "server" \in Processes /\ Watched \in Owners
BY HistoryAssumption DEF Processes

LEMMA WatchedPut ==
  ASSUME NEW q \in Queues, NEW p \in Processes, NEW o \in Owners,
         NEW t \in TaskType
  PROVE  Put(q, p, o, t)["server"][Watched] =
           IF p = "server" /\ o = Watched THEN Append(q["server"][Watched], t)
           ELSE q["server"][Watched]
<1>1. CASE p = "server" /\ o = Watched
  BY <1>1, PutLine
<1>2. CASE ~(p = "server" /\ o = Watched)
  BY <1>2, WatchedIn, PutLine
<1> QED
  BY <1>1, <1>2

LEMMA WatchedDrop ==
  ASSUME Shape, NEW p \in Processes, NEW o \in Owners, queue[p][o] # << >>
  PROVE  Drop(p, o)["server"][Watched] =
           IF p = "server" /\ o = Watched THEN Tail(Line) ELSE Line
BY WatchedIn, Types, DropLine DEF Line

LEMMA WatchedLine ==
  ASSUME Shape
  PROVE  Line \in Seq(TaskType) /\ LineOK(Line, "server", Watched, req)
BY WatchedIn, Types DEF QueuesOK, Queues, Line

LEMMA TimerTask ==
  \A w \in {"timer", "close"} \union Requests :
    /\ Task("add", w) \in TaskType /\ Task("add", w).op = "add"
    /\ Task("add", w).waiter = w
    /\ Task("keep", w) \in TaskType /\ Task("keep", w).op = "keep"
    /\ Task("keep", w).waiter = w
BY DEF Task, TaskType, Ops, Waiters
-----------------------------------------------------------------------------
(* A commit that is due stays so until it has been made.                    *)
LEMMA ComesBehind ==
  ASSUME NEW pe, NEW inf, NEW s \in Seq(TaskType), NEW ix, NEW t \in TaskType
  PROVE  /\ Comes(pe, inf, s, ix) => Comes(pe, inf, Append(s, t), ix)
         /\ t.op = "add" => Comes(pe, inf, Append(s, t), ix)
<1> DEFINE u == Append(s, t)
<1>1. /\ Len(s) + 1 \in DOMAIN u /\ u[Len(s) + 1] = t
      /\ \A i \in DOMAIN s : i \in DOMAIN u /\ u[i] = s[i]
  BY AppendTask
<1> HIDE DEF u
<1>2. Comes(pe, inf, s, ix) => Comes(pe, inf, u, ix)
  BY <1>1 DEF Comes
<1>3. t.op = "add" => Comes(pe, inf, u, ix)
  BY <1>1 DEF Comes
<1> QED
  BY <1>2, <1>3 DEF u

LEMMA ComesAfter ==
  ASSUME NEW pe, NEW inf, NEW s \in Seq(TaskType), s # << >>, NEW ix,
         s[1].op # "add", s[1].op = "commit" => ~ix, Comes(pe, inf, s, ix)
  PROVE  Comes(pe, inf, Tail(s), ix)
<1> DEFINE u == Tail(s)
<1>1. /\ Len(s) \in Nat /\ DOMAIN s = 1..Len(s)
      /\ DOMAIN u = 1..(Len(s) - 1)
      /\ \A i \in DOMAIN u : u[i] = s[i + 1]
  BY DropTask
<1> HIDE DEF u
<1>2. ASSUME NEW i \in DOMAIN s, s[i].op = "add" \/ (s[i].op = "commit" /\ ix)
      PROVE  \E k \in DOMAIN u : u[k].op = "add" \/ (u[k].op = "commit" /\ ix)
  <2>1. i # 1
    BY <1>2
  <2>2. i - 1 \in DOMAIN u /\ u[i - 1] = s[(i - 1) + 1] /\ (i - 1) + 1 = i
    BY <1>1, <2>1
  <2> QED
    BY <1>2, <2>2
<1>3. Comes(pe, inf, u, ix)
  BY <1>2 DEF Comes
<1> QED
  BY <1>3 DEF u

(* Recording an owner root keeps what is due; that of Watched makes it due, *)
(* unless suppressed.                                                       *)
LEMMA RecordComes ==
  ASSUME Shape, NEW q, NEW rq, QueuesOK(q, rq), NEW o \in Owners, NEW without,
         Record(o, q, without), NEW ix
  PROVE  /\ Comes(pend[Watched], inflight, q["server"][Watched], ix)
              => Comes(pend'[Watched], inflight', queue'["server"][Watched], ix)
         /\ o = Watched /\ ~Suppressed(without)
              => Comes(pend'[Watched], inflight', queue'["server"][Watched], ix)
         /\ o # Watched => /\ pend'[Watched] = pend[Watched]
                           /\ queue'["server"][Watched] = q["server"][Watched]
<1> DEFINE s == q["server"][Watched]
           t == Task("add", "timer")
<1>1. q \in Queues /\ s \in Seq(TaskType) /\ t \in TaskType /\ t.op = "add"
  BY WatchedIn, TimerTask DEF QueuesOK, Queues
<1>2. /\ inflight \subseteq inflight'
      /\ \A a \in Owners : a # o => pend'[a] = pend[a]
      /\ \/ queue' = q /\ pend' = pend /\ clustered /\ o \in inflight'
         \/ queue' = q /\ pend' = pend /\ Suppressed(without)
         \/ ~Suppressed(without) /\ queue' = Put(q, "server", o, t)
         \/ ~Suppressed(without) /\ queue' = q /\ pend'[o] # NoEntry
  BY RecordStep
<1> HIDE DEF s, t
<1>3. CASE queue' = q /\ pend' = pend /\ clustered /\ o \in inflight'
  BY <1>2, <1>3 DEF Comes
<1>4. CASE queue' = q /\ pend' = pend /\ Suppressed(without)
  BY <1>2, <1>4 DEF Comes
<1>5. CASE ~Suppressed(without) /\ queue' = Put(q, "server", o, t)
  <2>1. queue'["server"][Watched] =
          IF o = Watched THEN Append(s, t) ELSE s
    BY <1>1, <1>5, WatchedIn, WatchedPut DEF s
  <2>2. CASE o = Watched
    <3>1. Comes(pend'[Watched], inflight', Append(s, t), ix)
      BY <1>1, ComesBehind
    <3> QED
      BY <2>1, <2>2, <3>1
  <2>3. CASE o # Watched
    <3>1. pend'[Watched] = pend[Watched]
      BY <1>2, <2>3, WatchedIn
    <3> QED
      BY <1>2, <2>1, <2>3, <3>1 DEF Comes, s
  <2> QED
    BY <2>2, <2>3
<1>6. CASE ~Suppressed(without) /\ queue' = q /\ pend'[o] # NoEntry
  BY <1>2, <1>6, WatchedIn DEF Comes
<1> QED
  BY <1>2, <1>3, <1>4, <1>5, <1>6

-----------------------------------------------------------------------------
(* The followed change is made at most once.                                *)
LEMMA OwingBegins ==
  ASSUME written \in Owed
  PROVE  /\ Promised # "no"
         /\ \A o, w : Recorded(o, w) = "no" <=> written = "no"
         /\ \A o, q : Miss(o, q) = "no" <=> written = "no"
<1>1. Promised # "no"
  BY DEF Promised
<1>2. \A o, w : Recorded(o, w) = "no" <=> written = "no"
  BY DEF Recorded
<1>3. \A o, q : Miss(o, q) = "no" <=> written = "no"
  BY DEF Miss
<1> QED
  BY <1>1, <1>2, <1>3

LEMMA StagedStep ==
  ASSUME StagedOK, UNCHANGED repoVars, written' = "no" => written = "no",
         \A r \in Requests : req'[r].target => req[r].target \/ written # "no"
  PROVE  StagedOK'
BY DEF StagedOK, repoVars

LEMMA EndedTargets ==
  ASSUME Shape, NEW p \in Processes, NEW o \in Owners, queue[p][o] # << >>,
         NEW r \in Requests
  PROVE  Left(p, o)[r].target => req[r].target
BY CurrentTask DEF Idle

LEMMA NoTargets ==
  \A r \in Requests : ~NoRequests[r].target
BY DEF NoRequests, Idle

LEMMA WriteStaged ==
  ASSUME Shape, StagedOK, NEW o \in Owners, NEW followed \in BOOLEAN,
         Write(o, followed)
  PROVE  StagedOK'
<1>1. /\ tree' = (tree \/ followed) /\ UNCHANGED <<req, index, head, kept>>
      /\ followed => written = "no"
      /\ written' = IF followed THEN Promised ELSE Recorded(o, Nobody)
  BY DEF Write
<1>2. written' = "no" => ~followed /\ written = "no"
  BY <1>1, Types, OwingBegins
<1> QED
  BY <1>1, <1>2 DEF StagedOK

LEMMA AskTargets ==
  ASSUME Shape, StagedOK, NEW r \in Requests,
         NEW op \in {"rollback", "revert", "preview"},
         NEW o \in Owners, NEW target \in BOOLEAN, Ask(r, op, o, target)
  PROVE  StagedOK'
<1>1. PICK at, snap : req' = [req EXCEPT ![r] = Asked(at, op, o, target, snap)]
  BY DEF Ask, AskFlush, Enter
<1>2. Asked(at, op, o, target, snap).target = target
  BY DEF Asked
<1>3. \A r2 \in Requests :
        req'[r2].target => req[r2].target \/ (r2 = r /\ target)
  BY <1>1, <1>2, Types DEF Asks
<1>4. UNCHANGED repoVars /\ written' = written /\ (target => head \/ kept)
  BY DEF Ask
<1> QED
  BY <1>3, <1>4, StagedStep DEF StagedOK

LEMMA RunCommitStaged ==
  ASSUME Shape, StagedOK, NEW o \in Owners, RunCommit(o)
  PROVE  StagedOK'
<1> DEFINE r == Current("server", o).waiter
<1>1. /\ tree' = tree /\ index' = index
      /\ head' = IF o = Watched THEN index ELSE head
      /\ kept' = IF o = Watched THEN kept \/ head ELSE kept
      /\ written' = IF o = Watched /\ index /\ written # "no" THEN "safe"
                    ELSE written
      /\ Flushed(r, o) /\ queue["server"][o] # << >>
  BY DEF RunCommit, At
<1>2. \A r2 \in Requests : req'[r2].target => req[r2].target
  <2>0. req \in Asks
    BY Types
  <2>1. CASE r \notin Requests
    BY <1>1, <2>1 DEF Flushed
  <2>2. CASE r \in Requests /\ req[r].op = "preview"
    BY <1>1, <2>0, <2>2 DEF Flushed, Asks, Idle
  <2>3. CASE r \in Requests /\ req[r].op # "preview"
    <3>1. req' = [req EXCEPT ![r] = Asked("queued", req[r].op, o, req[r].target,
                                          auth)]
      BY <1>1, <2>3 DEF Flushed, Enter
    <3>2. Asked("queued", req[r].op, o, req[r].target, auth).target = req[r].target
      BY DEF Asked
    <3> QED
      BY <2>0, <3>1, <3>2 DEF Asks
  <2> QED
    BY <2>1, <2>2, <2>3
<1> QED
  BY <1>1, <1>2 DEF StagedOK

LEMMA StagedKept ==
  ASSUME Shape, StagedOK, Next
  PROVE  StagedOK'
<1>1. ASSUME NEW o \in Owners, NEW followed \in BOOLEAN, Write(o, followed)
      PROVE  StagedOK'
  BY <1>1, WriteStaged
<1>2. ASSUME NEW o \in Owners, NEW r \in Requests,
             NEW op \in {"rollback", "revert", "preview"},
             NEW target \in BOOLEAN, Ask(r, op, o, target)
      PROVE  StagedOK'
  BY <1>2, AskTargets
<1>3. ASSUME NEW o \in Owners, RunCommit(o)
      PROVE  StagedOK'
  BY <1>3, RunCommitStaged
<1>4. CASE HandlerThrows
  BY <1>4 DEF HandlerThrows, StagedOK
<1>5. ASSUME NEW o \in Owners, RunAdd(o)
      PROVE  StagedOK'
  BY <1>5 DEF RunAdd, StagedOK
<1>6. ASSUME NEW o \in Owners, NEW p \in Processes, RunKeep(p, o)
      PROVE  StagedOK'
  <2>1. PICK op \in {"reset", "revert"} :
          kept' = IF o = Watched
                     /\ (op = "revert" \/ req[Current(p, o).waiter].target # head)
                  THEN kept \/ head ELSE kept
    BY <1>6 DEF RunKeep
  <2>2. UNCHANGED <<req, tree, index, head, written>>
    BY <1>6 DEF RunKeep
  <2> QED
    BY <2>1, <2>2 DEF StagedOK
<1>7. ASSUME NEW o \in Owners, NEW p \in Processes, RunReset(p, o)
      PROVE  StagedOK'
  <2> DEFINE r == Current(p, o).waiter
  <2>1. /\ queue[p][o] # << >> /\ Current(p, o).op \in OfRequest
        /\ Leave(p, o, r)
        /\ IF o = Watched
           THEN tree' = req[r].target /\ index' = tree' /\ head' = tree'
           ELSE UNCHANGED <<tree, index, head>>
        /\ written' = Recorded(o, r) /\ kept' = kept
    BY <1>7 DEF RunReset, At, OfRequest
  <2>2. req' = Left(p, o) /\ r \in Requests
    BY <2>1, LeaveShape
  <2>3. \A r2 \in Requests : req'[r2].target => req[r2].target
    BY <2>1, <2>2, EndedTargets
  <2>4. written' = "no" => written = "no"
    BY <2>1, Types, OwingBegins
  <2>5. CASE o = Watched
    BY <2>1, <2>2, <2>3, <2>4, <2>5 DEF StagedOK
  <2>6. CASE o # Watched
    BY <2>1, <2>3, <2>4, <2>6 DEF StagedOK
  <2> QED
    BY <2>5, <2>6
<1>8. ASSUME NEW o \in Owners, NEW p \in Processes, RunRevert(p, o)
      PROVE  StagedOK'
  <2> DEFINE r == Current(p, o).waiter
             undoes == o = Watched /\ req[r].target
  <2>1. /\ queue[p][o] # << >> /\ Current(p, o).op \in OfRequest
        /\ Leave(p, o, r)
        /\ tree' = (tree /\ ~undoes) /\ index' = (index /\ ~undoes)
        /\ head' = (head /\ ~undoes) /\ kept' = (kept \/ undoes)
        /\ written' = IF Suppressed(r) THEN Miss(o, Drop(p, o)) ELSE Recorded(o, r)
    BY <1>8 DEF RunRevert, At, OfRequest
  <2>2. req' = Left(p, o) /\ r \in Requests
    BY <2>1, LeaveShape
  <2>3. \A r2 \in Requests : req'[r2].target => req[r2].target
    BY <2>1, <2>2, EndedTargets
  <2>4. written' = "no" => written = "no"
    BY <2>1, Types, OwingBegins
  <2>5. CASE undoes
    BY <2>1, <2>2, <2>3, <2>4, <2>5 DEF StagedOK
  <2>6. CASE ~undoes
    <3>1. UNCHANGED repoVars
      BY <2>1, <2>6, Types DEF repoVars
    <3> QED
      BY <2>3, <2>4, <3>1, StagedStep
  <2> QED
    BY <2>5, <2>6
<1>9. ASSUME NEW o \in Owners, NEW p \in Processes,
             RevertConflicts(p, o) \/ GitFails(p, o)
      PROVE  StagedOK'
  <2>1. queue[p][o] # << >> /\ Throw(p, o)
    BY <1>9 DEF RevertConflicts, GitFails, At
  <2>2. req' = Left(p, o) /\ written' = Miss(o, queue') /\ UNCHANGED repoVars
    BY <2>1, ThrowLeaves
  <2>3. written' = "no" => written = "no"
    BY <2>2, Types, OwingBegins
  <2> QED
    BY <2>1, <2>2, <2>3, EndedTargets, StagedStep
<1>10. ASSUME MailCutOff
       PROVE  written' = "no" => written = "no"
  BY <1>10 DEF MailCutOff
<1>11. ASSUME NEW p \in Processes, Kill(p)
       PROVE  StagedOK'
  <2>1. req' = NoRequests /\ UNCHANGED repoVars
    BY <1>11 DEF Kill
  <2>2. written' = "no" => written = "no"
    BY <1>10, <1>11 DEF Kill
  <2> QED
    BY <2>1, <2>2, NoTargets, StagedStep
<1>12. CASE BeginClose
  <2>1. (req' = NoRequests \/ req' = req) /\ UNCHANGED repoVars
    BY <1>12 DEF BeginClose
  <2>2. written' = "no" => written = "no"
    BY <1>10, <1>12 DEF BeginClose
  <2> QED
    BY <2>1, <2>2, NoTargets, StagedStep
<1>13. CASE Exit
  <2>1. req' = NoRequests /\ UNCHANGED repoVars
    BY <1>13 DEF Exit
  <2>2. written' = "no" => written = "no"
    BY <1>13 DEF Exit
  <2> QED
    BY <2>1, <2>2, NoTargets, StagedStep
<1>14. ASSUME UNCHANGED <<req, repoVars, written>>
       PROVE  StagedOK'
  BY <1>14, StagedStep
<1>15. ASSUME NEW o \in Owners, Publish(o) \/ TimerFires(o) \/ FlushNext(o)
       PROVE  StagedOK'
  BY <1>14, <1>15 DEF Publish, TimerFires, FlushNext
<1>16. CASE ChangeAuth \/ Tick
  BY <1>14, <1>16 DEF ChangeAuth, Tick
<1> QED
  BY <1>1, <1>2, <1>3, <1>4, <1>5, <1>6, <1>7, <1>8, <1>9, <1>11, <1>12, <1>13,
     <1>15, <1>16
  DEF Next, Run

THEOREM StagedInvariance == Spec => []StagedOK
<1>1. Init => StagedOK
  BY DEF Init, StagedOK, Idle
<1>2. Shape /\ StagedOK /\ [Next]_vars => StagedOK'
  <2>1. ASSUME StagedOK, UNCHANGED vars
        PROVE  StagedOK'
    BY <2>1 DEF StagedOK, vars
  <2> QED
    BY <2>1, StagedKept
<1> QED
  BY <1>1, <1>2, ShapeInvariance, PTL DEF Spec

-----------------------------------------------------------------------------
(* Of an uncommitted write of Watched that is not missed, a commit is due.  *)
IsDue  == Comes(pend[Watched], inflight, Line, index)
IsDue2 == Comes(pend'[Watched], inflight', queue'["server"][Watched], index')

LEMMA DueIsComes ==
  Due(queue) <=> IsDue
BY DEF Due, IsDue, Comes, Line

LEMMA ScheduledByDue ==
  ASSUME IsDue2
  PROVE  ScheduledOK'
BY DEF IsDue2, ScheduledOK

LEMMA ScheduledForNothing ==
  ASSUME phase' # "open" \/ ~tree' \/ head' \/ written' \notin {"safe", "late"}
  PROVE  ScheduledOK'
BY DEF ScheduledOK, Uncommitted

LEMMA ScheduledStep ==
  ASSUME ScheduledOK, clustered' = clustered, UNCHANGED <<phase, tree, head>>,
         written' \in {"safe", "late"} => written \in {"safe", "late"},
         IsDue => IsDue2, Held(req) => Held(req')
  PROVE  ScheduledOK'
BY DEF ScheduledOK, Uncommitted, IsDue, IsDue2, Held, Line

LEMMA ScheduledStill ==
  ASSUME ScheduledOK,
         UNCHANGED <<clustered, phase, tree, head, written, pend, inflight, queue,
                     index, req>>
  PROVE  ScheduledOK'
BY ScheduledStep DEF IsDue, IsDue2, Held, Line

(* A request of another owner, or one that only flushes, holds nothing.     *)
LEMMA HeldByOthers ==
  ASSUME Shape, NEW p \in Processes, NEW o \in Owners, queue[p][o] # << >>,
         \/ o # Watched
         \/ Current(p, o).op \notin OfRequest,
         Held(req)
  PROVE  Held(Left(p, o))
<1>1. PICK r \in Requests : req[r].at = "queued" /\ req[r].owner = Watched
  BY DEF Held
<1>2. r # Current(p, o).waiter
  BY <1>1, CurrentTask
<1>3. Left(p, o)[r] = req[r]
  BY <1>2, CurrentTask
<1> QED
  BY <1>1, <1>3 DEF Held

LEMMA HeldMore ==
  ASSUME Shape, NEW r \in Requests, NEW x, req[r].at # "queued", Held(req)
  PROVE  Held([req EXCEPT ![r] = x])
<1>1. PICK r2 \in Requests : req[r2].at = "queued" /\ req[r2].owner = Watched
  BY DEF Held
<1>2. [req EXCEPT ![r] = x][r2] = req[r2]
  BY <1>1, Types DEF Asks
<1> QED
  BY <1>1, <1>2 DEF Held

LEMMA WriteScheduled ==
  ASSUME Shape, ScheduledOK, NEW o \in Owners, NEW followed \in BOOLEAN,
         Write(o, followed)
  PROVE  ScheduledOK'
<1>1. /\ Record(o, queue, Nobody) /\ tree' = (tree \/ followed)
      /\ followed => o = Watched
      /\ written' = IF followed THEN Promised ELSE Recorded(o, Nobody)
      /\ UNCHANGED <<clustered, req, index, head, phase>>
  BY DEF Write, closeVars
<1>2. /\ IsDue => IsDue2
      /\ o = Watched /\ ~Suppressed(Nobody) => IsDue2
  BY <1>1, Types, RecordComes DEF IsDue, IsDue2, Line
<1>3. CASE o = Watched /\ ~Suppressed(Nobody)
  BY <1>2, <1>3, ScheduledByDue
<1>4. CASE followed /\ Suppressed(Nobody)
  <2>1. CASE Promised = "missed"
    BY <1>1, <1>4, <2>1, ScheduledForNothing
  <2>2. CASE IsDue
    BY <1>2, <2>2, ScheduledByDue
  <2>3. CASE Suppresses(Watched)
    BY <1>1, <1>4, <2>3 DEF ScheduledOK, Held, Suppresses, Suppressed
  <2> QED
    BY <1>4, <2>1, <2>2, <2>3, DueIsComes DEF Promised
<1>5. CASE ~followed /\ (o # Watched \/ Suppressed(Nobody))
  <2>1. written' = written /\ tree' = tree
    BY <1>1, <1>5, Types DEF Recorded
  <2> QED
    BY <1>1, <1>2, <2>1, ScheduledStep
<1> QED
  BY <1>1, <1>3, <1>4, <1>5

LEMMA HandlerThrowsScheduled ==
  ASSUME ScheduledOK, HandlerThrows
  PROVE  ScheduledOK'
<1>1. /\ written' = IF Due(queue) THEN "late" ELSE "missed"
      /\ UNCHANGED <<pend, queue, inflight, index>>
  BY DEF HandlerThrows
<1>2. CASE Due(queue)
  BY <1>1, <1>2, DueIsComes, ScheduledByDue DEF IsDue, IsDue2, Line
<1>3. CASE ~Due(queue)
  BY <1>1, <1>3, ScheduledForNothing
<1> QED
  BY <1>2, <1>3

LEMMA PublishScheduled ==
  ASSUME Shape, ScheduledOK, NEW o \in Owners, Publish(o)
  PROVE  ScheduledOK'
<1>1. /\ inflight' = inflight \ {o} /\ Schedule(o, queue)
      /\ UNCHANGED <<clustered, req, tree, index, head, phase, written>>
  BY DEF Publish, repoVars, closeVars
<1> DEFINE t == Task("add", "timer")
<1>2. /\ \A a \in Owners : a # o => pend'[a] = pend[a]
      /\ \/ queue' = Put(queue, "server", o, t)
         \/ queue' = queue /\ pend'[o] # NoEntry
  BY <1>1, Types, ScheduleStep
<1>3. t \in TaskType /\ t.op = "add" /\ queue \in Queues
  BY TimerTask, Types
<1> HIDE DEF t
<1>4. IsDue => IsDue2
  <2>1. CASE o = Watched
    <3>1. CASE queue' = Put(queue, "server", o, t)
      <4>1. queue'["server"][Watched] = Append(Line, t)
        BY <1>3, <2>1, <3>1, WatchedIn, WatchedPut DEF Line
      <4> QED
        BY <1>3, <4>1, WatchedLine, ComesBehind DEF IsDue2
    <3>2. CASE pend'[o] # NoEntry
      BY <2>1, <3>2 DEF IsDue2, Comes
    <3> QED
      BY <1>2, <3>1, <3>2
  <2>2. CASE o # Watched
    <3>1. pend'[Watched] = pend[Watched] /\ queue'["server"][Watched] = Line
      BY <1>2, <1>3, <2>2, WatchedIn, WatchedPut DEF Line
    <3> QED
      BY <1>1, <2>2, <3>1 DEF IsDue, IsDue2, Comes
  <2> QED
    BY <2>1, <2>2
<1> QED
  BY <1>1, <1>4, ScheduledStep

LEMMA TickScheduled ==
  ASSUME Shape, ScheduledOK, Tick
  PROVE  ScheduledOK'
<1>1. pend[Watched] # NoEntry => pend'[Watched] # NoEntry
  <2> SUFFICES ASSUME pend[Watched] # NoEntry
               PROVE  pend'[Watched] # NoEntry
    OBVIOUS
  <2>1. pend[Watched].age \in Nat
    BY Types, WatchedIn, Times DEF Pendings
  <2>2. pend'[Watched] = [age |-> pend[Watched].age + 1,
                          left |-> pend[Watched].left - 1]
    BY WatchedIn DEF Tick, Entry
  <2>3. pend'[Watched].age # NoEntry.age
    BY <2>1, <2>2 DEF NoEntry
  <2> QED
    BY <2>3
<1>2. UNCHANGED <<clustered, queue, req, inflight, tree, index, head, phase, written>>
  BY DEF Tick, repoVars, closeVars
<1> QED
  BY <1>1, <1>2, ScheduledStep DEF IsDue, IsDue2, Comes, Line

LEMMA TimerFiresScheduled ==
  ASSUME Shape, ScheduledOK, NEW o \in Owners, TimerFires(o)
  PROVE  ScheduledOK'
<1> DEFINE t == Task("add", "timer")
<1>1. /\ pend' = [pend EXCEPT ![o] = NoEntry]
      /\ queue' = Put(queue, "server", o, t)
      /\ UNCHANGED <<clustered, req, inflight, tree, index, head, phase, written>>
  BY DEF TimerFires, repoVars, closeVars
<1>2. t \in TaskType /\ t.op = "add" /\ queue \in Queues
  BY TimerTask, Types
<1> HIDE DEF t
<1>3. IsDue => IsDue2
  <2>1. CASE o = Watched
    <3>1. queue'["server"][Watched] = Append(Line, t)
      BY <1>1, <1>2, <2>1, WatchedIn, WatchedPut DEF Line
    <3> QED
      BY <1>2, <3>1, WatchedLine, ComesBehind DEF IsDue2
  <2>2. CASE o # Watched
    <3>1. pend'[Watched] = pend[Watched] /\ queue'["server"][Watched] = Line
      BY <1>1, <1>2, <2>2, Types, WatchedIn, WatchedPut DEF Line, Pendings
    <3> QED
      BY <1>1, <3>1 DEF IsDue, IsDue2
  <2> QED
    BY <2>1, <2>2
<1> QED
  BY <1>1, <1>3, ScheduledStep

LEMMA AskScheduled ==
  ASSUME Shape, ScheduledOK, NEW r \in Requests,
         NEW op \in {"rollback", "revert", "preview"},
         NEW o \in Owners, NEW target \in BOOLEAN, Ask(r, op, o, target)
  PROVE  ScheduledOK'
<1>1. /\ req[r] = Idle
      /\ UNCHANGED <<clustered, inflight, tree, index, head, phase, written>>
  BY DEF Ask, repoVars, closeVars
<1>2. Host \in Processes /\ queue \in Queues
  BY Types DEF Host, Processes
<1>3. Held(req) => Held(req')
  <2>1. PICK x : req' = [req EXCEPT ![r] = x]
    BY DEF Ask, AskFlush, Enter
  <2>2. req[r].at # "queued"
    BY <1>1 DEF Idle
  <2>3. Held(req) => Held([req EXCEPT ![r] = x])
    BY <2>2, HeldMore
  <2> QED
    BY <2>1, <2>3
<1>4. IsDue => IsDue2
  <2>1. CASE AskFlush(r, op, o, target)
    <3> DEFINE t == Task("add", r)
    <3>1. /\ pend' = [pend EXCEPT ![o] = NoEntry]
          /\ queue' = Put(queue, "server", o, t)
      BY <2>1 DEF AskFlush
    <3>2. t \in TaskType /\ t.op = "add"
      BY TimerTask
    <3> HIDE DEF t
    <3>3. CASE o = Watched
      <4>1. queue'["server"][Watched] = Append(Line, t)
        BY <1>2, <3>1, <3>2, <3>3, WatchedIn, WatchedPut DEF Line
      <4> QED
        BY <3>2, <4>1, WatchedLine, ComesBehind DEF IsDue2
    <3>4. CASE o # Watched
      <4>1. pend'[Watched] = pend[Watched] /\ queue'["server"][Watched] = Line
        BY <1>2, <3>1, <3>2, <3>4, Types, WatchedIn, WatchedPut DEF Line, Pendings
      <4> QED
        BY <1>1, <4>1 DEF IsDue, IsDue2
    <3> QED
      BY <3>3, <3>4
  <2>2. CASE Enter(r, op, o, target, queue) /\ UNCHANGED pend
    <3> DEFINE t == Task("keep", r)
    <3>1. queue' = Put(queue, Host, o, t)
      BY <2>2 DEF Enter
    <3>2. t \in TaskType
      BY TimerTask
    <3> HIDE DEF t
    <3>3. queue'["server"][Watched] = Line
          \/ queue'["server"][Watched] = Append(Line, t)
      BY <1>2, <3>1, <3>2, WatchedPut DEF Line
    <3> QED
      BY <1>1, <2>2, <3>2, <3>3, WatchedLine, ComesBehind DEF IsDue, IsDue2
  <2> QED
    BY <2>1, <2>2 DEF Ask
<1> QED
  BY <1>1, <1>3, <1>4, ScheduledStep

-----------------------------------------------------------------------------
(* The tasks.                                                               *)
LEMMA RunAddScheduled ==
  ASSUME Shape, ScheduledOK, NEW o \in Owners, RunAdd(o)
  PROVE  ScheduledOK'
<1>1. /\ queue' = Next1("server", o, "commit") /\ queue["server"][o] # << >>
      /\ index' = IF o = Watched THEN tree ELSE index
      /\ UNCHANGED <<clustered, pend, req, inflight, tree, head, phase, written>>
  BY DEF RunAdd, Staged, At, closeVars
<1>2. /\ "commit" \in Ops /\ queue \in Queues /\ "server" \in Processes
  BY WatchedIn, Types DEF Ops
<1>3. /\ 1 \in DOMAIN queue'["server"][o]
      /\ queue'["server"][o][1].op = "commit"
      /\ o # Watched => queue'["server"][Watched] = Line
  BY <1>1, <1>2, WatchedIn, NextLine DEF Line
<1>4. CASE o = Watched
  <2>1. CASE tree
    <3>1. IsDue2
      BY <1>1, <1>3, <1>4, <2>1 DEF IsDue2, Comes
    <3> QED
      BY <3>1, ScheduledByDue
  <2>2. CASE ~tree
    BY <1>1, <2>2, ScheduledForNothing
  <2> QED
    BY <2>1, <2>2
<1>5. CASE o # Watched
  BY <1>1, <1>3, <1>5, ScheduledStep DEF IsDue, IsDue2
<1> QED
  BY <1>4, <1>5

(* After the commit of a task, its request is over or queues for its task.  *)
LEMMA FlushedQueue ==
  ASSUME Shape, NEW o \in Owners, queue["server"][o] # << >>,
         Current("server", o).op = "commit",
         Flushed(Current("server", o).waiter, o)
  PROVE  LET q == Drop("server", o)["server"][Watched]
             w == Current("server", o).waiter
         IN /\ \/ queue'["server"][Watched] = q
               \/ /\ o = Watched /\ Host = "server" /\ w \in Requests
                  /\ queue'["server"][Watched] = Append(q, Task("keep", w))
            /\ Held(req) => Held(req')
<1> DEFINE w == Current("server", o).waiter
           q == Drop("server", o)
<1>0. "server" \in Processes /\ q \in Queues /\ q["server"][Watched] \in Seq(TaskType)
  BY WatchedIn, Types, DropLine DEF Queues
<1>1. CASE w \notin Requests
  <2>1. queue' = q /\ req' = req
    BY <1>1 DEF Flushed
  <2> QED
    BY <2>1
<1>2. CASE w \in Requests
  <2>1. /\ Host = "server" /\ req[w].at = "flushing"
        /\ Left("server", o) = [req EXCEPT ![w] = Idle]
    BY <1>0, <1>2, CurrentTask DEF OfRequest
  <2>2. CASE req[w].op = "preview"
    <3>1. queue' = q /\ req' = [req EXCEPT ![w] = Idle]
      BY <1>2, <2>2 DEF Flushed
    <3>2. Held(req) => Held(req')
      BY <1>2, <2>1, <3>1, HeldMore
    <3> QED
      BY <3>1, <3>2
  <2>3. CASE req[w].op # "preview"
    <3> DEFINE x == Asked("queued", req[w].op, o, req[w].target, auth)
               t == Task("keep", w)
    <3>1. queue' = Put(q, "server", o, t) /\ req' = [req EXCEPT ![w] = x]
      BY <1>2, <2>1, <2>3 DEF Flushed, Enter
    <3>2. t \in TaskType
      BY <1>2, TimerTask
    <3> HIDE DEF x, t, q
    <3>3. Held(req) => Held(req')
      BY <1>2, <2>1, <3>1, HeldMore
    <3>4. queue'["server"][Watched] = IF o = Watched
            THEN Append(q["server"][Watched], t) ELSE q["server"][Watched]
      BY <1>0, <3>1, <3>2, WatchedPut
    <3> QED
      BY <1>2, <2>1, <3>3, <3>4 DEF q, t
  <2> QED
    BY <2>2, <2>3
<1> QED
  BY <1>1, <1>2

LEMMA RunCommitScheduled ==
  ASSUME Shape, StagedOK, ScheduledOK, NEW o \in Owners, RunCommit(o)
  PROVE  ScheduledOK'
<1> DEFINE w == Current("server", o).waiter
           q == Drop("server", o)["server"][Watched]
<1>1. /\ queue["server"][o] # << >> /\ Current("server", o).op = "commit"
      /\ Flushed(w, o)
      /\ head' = IF o = Watched THEN index ELSE head
      /\ written' = IF o = Watched /\ index /\ written # "no" THEN "safe"
                    ELSE written
      /\ UNCHANGED <<clustered, pend, inflight, tree, index, phase>>
  BY DEF RunCommit, At, closeVars
<1>2. /\ "server" \in Processes /\ Line \in Seq(TaskType)
      /\ q = IF o = Watched THEN Tail(Line) ELSE Line
  BY <1>1, WatchedIn, WatchedDrop, WatchedLine
<1>3. /\ Held(req) => Held(req')
      /\ \/ queue'["server"][Watched] = q
         \/ /\ o = Watched /\ w \in Requests
            /\ queue'["server"][Watched] = Append(q, Task("keep", w))
  BY <1>1, FlushedQueue
<1>4. Comes(pend[Watched], inflight, q, index) => IsDue2
  <2>1. q \in Seq(TaskType)
    BY <1>1, <1>2, DropTask DEF Line
  <2>2. w \in Requests => Task("keep", w) \in TaskType
    BY TimerTask
  <2> QED
    BY <1>1, <1>3, <2>1, <2>2, ComesBehind DEF IsDue2
<1>5. CASE o # Watched
  BY <1>1, <1>2, <1>3, <1>4, <1>5, ScheduledStep DEF IsDue
<1>6. CASE o = Watched /\ ~index
  <2>1. Line[1].op = "commit" /\ Line # << >>
    BY <1>1, <1>6, WatchedIn, CurrentTask DEF Line
  <2>2. IsDue => Comes(pend[Watched], inflight, q, index)
    BY <1>2, <1>6, <2>1, ComesAfter DEF IsDue
  <2>3. CASE tree
    <3>1. head' = head /\ written' = written
      BY <1>1, <1>6, <2>3, Types DEF StagedOK
    <3> QED
      BY <1>1, <1>3, <1>4, <2>2, <3>1, ScheduledStep
  <2>4. CASE ~tree
    BY <1>1, <2>4, ScheduledForNothing
  <2> QED
    BY <2>3, <2>4
<1>7. CASE o = Watched /\ index
  BY <1>1, <1>7, ScheduledForNothing
<1> QED
  BY <1>5, <1>6, <1>7

LEMMA RunKeepScheduled ==
  ASSUME Shape, ScheduledOK, NEW p \in Processes, NEW o \in Owners, RunKeep(p, o)
  PROVE  ScheduledOK'
<1>1. PICK op \in {"reset", "revert"} : Staged(p, o, "keep", op)
  BY DEF RunKeep
<1>2. /\ queue' = Next1(p, o, op) /\ queue[p][o] # << >>
      /\ Current(p, o).op = "keep" /\ op \in Ops
      /\ UNCHANGED <<clustered, pend, req, inflight, tree, index, head, phase,
                     written>>
  BY <1>1 DEF RunKeep, Staged, At, Ops, closeVars
<1>3. queue[p][o][1].op = "keep" /\ queue \in Queues
  BY <1>2, CurrentTask, Types
<1>4. /\ DOMAIN queue'[p][o] = DOMAIN queue[p][o]
      /\ \A i \in DOMAIN queue[p][o] : i # 1 => queue'[p][o][i] = queue[p][o][i]
      /\ \A p2 \in Processes, o2 \in Owners :
           p2 # p \/ o2 # o => queue'[p2][o2] = queue[p2][o2]
  BY <1>2, <1>3, NextLine
<1>5. CASE p = "server" /\ o = Watched
  <2>1. \A i \in DOMAIN Line : Line[i].op \in {"add", "commit"}
          => i \in DOMAIN queue'["server"][Watched]
             /\ queue'["server"][Watched][i] = Line[i]
    <3>1. \A i \in DOMAIN Line : Line[i].op \in {"add", "commit"} => i # 1
      BY <1>3, <1>5 DEF Line
    <3> QED
      BY <1>4, <1>5, <3>1 DEF Line
  <2> QED
    BY <1>2, <2>1, ScheduledStep DEF IsDue, IsDue2, Comes
<1>6. CASE ~(p = "server" /\ o = Watched)
  <2>1. queue'["server"][Watched] = Line
    BY <1>4, <1>6, WatchedIn DEF Line
  <2> QED
    BY <1>2, <2>1, ScheduledStep DEF IsDue, IsDue2
<1> QED
  BY <1>5, <1>6

(* A request leaves.                                                        *)
LEMMA LeaveComes ==
  ASSUME Shape, NEW p \in Processes, NEW o \in Owners, queue[p][o] # << >>,
         Current(p, o).op \in OfRequest, Leave(p, o, Current(p, o).waiter),
         NEW ix
  PROVE  LET q == Drop(p, o)["server"][Watched]
         IN /\ Comes(pend[Watched], inflight, q, ix)
                 => Comes(pend'[Watched], inflight', queue'["server"][Watched], ix)
            /\ o = Watched /\ ~Suppressed(Current(p, o).waiter)
                 => Comes(pend'[Watched], inflight', queue'["server"][Watched], ix)
            /\ o # Watched => /\ q = Line /\ queue'["server"][Watched] = Line
                              /\ pend'[Watched] = pend[Watched]
<1>1. Record(o, Drop(p, o), Current(p, o).waiter)
  BY DEF Leave
<1>2. QueuesOK(Drop(p, o), Left(p, o))
  BY Types, TaskEnds
<1>3. o # Watched => Drop(p, o)["server"][Watched] = Line
  BY WatchedDrop
<1> QED
  BY <1>1, <1>2, <1>3, RecordComes

LEMMA RunResetScheduled ==
  ASSUME Shape, ScheduledOK, NEW p \in Processes, NEW o \in Owners, RunReset(p, o)
  PROVE  ScheduledOK'
<1> DEFINE r == Current(p, o).waiter
<1>1. /\ queue[p][o] # << >> /\ Current(p, o).op \in OfRequest /\ Leave(p, o, r)
      /\ IF o = Watched
         THEN tree' = req[r].target /\ index' = tree' /\ head' = tree'
         ELSE UNCHANGED <<tree, index, head>>
      /\ written' = Recorded(o, r) /\ UNCHANGED <<clustered, phase>>
  BY DEF RunReset, At, OfRequest, closeVars
<1>2. CASE o = Watched
  BY <1>1, <1>2, ScheduledForNothing
<1>3. CASE o # Watched
  <2>1. written' = written
    BY <1>1, <1>3 DEF Recorded
  <2>2. req' = Left(p, o)
    BY <1>1, LeaveShape
  <2>3. IsDue => IsDue2
    BY <1>1, <1>3, LeaveComes DEF IsDue, IsDue2
  <2>4. Held(req) => Held(req')
    BY <1>1, <1>3, <2>2, HeldByOthers
  <2> QED
    BY <1>1, <1>3, <2>1, <2>3, <2>4, ScheduledStep
<1> QED
  BY <1>2, <1>3

LEMMA RunRevertScheduled ==
  ASSUME Shape, ScheduledOK, NEW p \in Processes, NEW o \in Owners, RunRevert(p, o)
  PROVE  ScheduledOK'
<1> DEFINE r == Current(p, o).waiter
           undoes == o = Watched /\ req[r].target
<1>1. /\ queue[p][o] # << >> /\ Current(p, o).op \in OfRequest /\ Leave(p, o, r)
      /\ tree' = (tree /\ ~undoes) /\ index' = (index /\ ~undoes)
      /\ head' = (head /\ ~undoes)
      /\ written' = IF Suppressed(r) THEN Miss(o, Drop(p, o)) ELSE Recorded(o, r)
      /\ UNCHANGED <<clustered, phase>>
  BY DEF RunRevert, At, OfRequest, closeVars
<1>2. req' = Left(p, o)
  BY <1>1, LeaveShape
<1>3. CASE o # Watched
  <2>1. written' = written /\ UNCHANGED <<tree, index, head>>
    BY <1>1, <1>3, Types DEF Recorded, Miss
  <2>2. IsDue => IsDue2
    BY <1>1, <1>3, <2>1, LeaveComes DEF IsDue, IsDue2
  <2>3. Held(req) => Held(req')
    BY <1>1, <1>2, <1>3, HeldByOthers
  <2> QED
    BY <1>1, <2>1, <2>2, <2>3, ScheduledStep
<1>4. CASE o = Watched /\ ~Suppressed(r)
  <2>1. IsDue2
    BY <1>1, <1>4, LeaveComes DEF IsDue2
  <2> QED
    BY <2>1, ScheduledByDue
<1>5. CASE o = Watched /\ Suppressed(r)
  <2>1. CASE undoes
    BY <1>1, <2>1, ScheduledForNothing
  <2>2. CASE ~undoes
    <3>0. UNCHANGED <<tree, index, head>>
      BY <1>1, <2>2, Types
    <3>1. CASE Due(Drop(p, o))
      <4>1. Comes(pend[Watched], inflight, Drop(p, o)["server"][Watched], index)
        BY <3>1 DEF Due, Comes
      <4>2. IsDue2
        BY <1>1, <3>0, <4>1, LeaveComes DEF IsDue2
      <4> QED
        BY <4>2, ScheduledByDue
    <3>2. CASE ~Due(Drop(p, o))
      BY <1>1, <1>5, <3>0, <3>2, ScheduledForNothing DEF Miss, Uncommitted
    <3> QED
      BY <3>1, <3>2
  <2> QED
    BY <2>1, <2>2
<1> QED
  BY <1>3, <1>4, <1>5

LEMMA ThrowScheduled ==
  ASSUME Shape, ScheduledOK, NEW p \in Processes, NEW o \in Owners,
         queue[p][o] # << >>, Throw(p, o)
  PROVE  ScheduledOK'
<1>1. /\ queue' = Drop(p, o) /\ req' = Left(p, o) /\ written' = Miss(o, queue')
      /\ UNCHANGED <<clustered, pend, inflight, tree, index, head, phase>>
  BY ThrowLeaves DEF repoVars, closeVars
<1>2. CASE o # Watched
  <2>1. written' = written
    BY <1>1, <1>2 DEF Miss
  <2>2. queue'["server"][Watched] = Line
    BY <1>1, <1>2, WatchedDrop
  <2>3. Held(req) => Held(req')
    BY <1>1, <1>2, HeldByOthers
  <2> QED
    BY <1>1, <2>1, <2>2, <2>3, ScheduledStep DEF IsDue, IsDue2
<1>3. CASE o = Watched
  <2>1. CASE Due(queue')
    BY <1>1, <2>1, ScheduledByDue DEF Due, Comes, IsDue2
  <2>2. CASE ~Due(queue')
    BY <1>1, <1>3, <2>2, ScheduledForNothing DEF Miss, Uncommitted
  <2> QED
    BY <2>1, <2>2
<1> QED
  BY <1>2, <1>3

LEMMA KillScheduled ==
  ASSUME Shape, ScheduledOK, NEW p \in Processes, Kill(p)
  PROVE  ScheduledOK'
<1>1. UNCHANGED <<clustered, tree, index, head, phase>>
  BY DEF Kill, repoVars, closeVars
<1>2. CASE p = "server"
  BY <1>1, <1>2, ScheduledForNothing DEF Kill, Uncommitted
<1>3. CASE p = "worker"
  <2>1. /\ clustered /\ MailCutOff /\ UNCHANGED pend
        /\ queue' = [queue EXCEPT !["worker"] = NoTasks]
    BY <1>3 DEF Kill
  <2>2. queue'["server"][Watched] = Line
    BY <2>1, WatchedIn, Types DEF Line, Queues
  <2>3. CASE Watched \in inflight /\ Uncommitted /\ pend[Watched] = NoEntry
    <3>1. CASE Watched \in inflight'
      BY <3>1, ScheduledByDue DEF IsDue2, Comes
    <3>2. CASE Watched \notin inflight'
      BY <2>1, <2>3, <3>2, ScheduledForNothing DEF MailCutOff
    <3> QED
      BY <3>1, <3>2
  <2>4. CASE ~Uncommitted
    BY <1>1, <2>4, Types, ScheduledForNothing DEF Uncommitted
  <2>5. CASE Uncommitted /\ (Watched \notin inflight \/ pend[Watched] # NoEntry)
    <3>1. written' = written
      BY <2>1, <2>5 DEF MailCutOff
    <3>2. IsDue => IsDue2
      BY <1>1, <2>1, <2>2, <2>5 DEF IsDue, IsDue2, Comes
    <3>3. ~Held(req)
      BY <2>1 DEF Held
    <3> QED
      BY <1>1, <3>1, <3>2, <3>3, ScheduledStep
  <2> QED
    BY <2>3, <2>4, <2>5
<1> QED
  BY <1>2, <1>3 DEF Processes

LEMMA ScheduledKept ==
  ASSUME Shape, StagedOK, ScheduledOK, Next
  PROVE  ScheduledOK'
<1>1. ASSUME NEW o \in Owners, NEW followed \in BOOLEAN, Write(o, followed)
      PROVE  ScheduledOK'
  BY <1>1, WriteScheduled
<1>2. ASSUME NEW o \in Owners, Publish(o) \/ TimerFires(o)
      PROVE  ScheduledOK'
  BY <1>2, PublishScheduled, TimerFiresScheduled
<1>3. ASSUME NEW o \in Owners, NEW r \in Requests,
             NEW op \in {"rollback", "revert", "preview"},
             NEW target \in BOOLEAN, Ask(r, op, o, target)
      PROVE  ScheduledOK'
  BY <1>3, AskScheduled
<1>4. ASSUME NEW o \in Owners, RunAdd(o) \/ RunCommit(o)
      PROVE  ScheduledOK'
  BY <1>4, RunAddScheduled, RunCommitScheduled
<1>5. ASSUME NEW o \in Owners, NEW p \in Processes,
             RunKeep(p, o) \/ RunReset(p, o) \/ RunRevert(p, o)
      PROVE  ScheduledOK'
  BY <1>5, RunKeepScheduled, RunResetScheduled, RunRevertScheduled
<1>6. ASSUME NEW o \in Owners, NEW p \in Processes,
             RevertConflicts(p, o) \/ GitFails(p, o)
      PROVE  ScheduledOK'
  <2>1. queue[p][o] # << >> /\ Throw(p, o)
    BY <1>6 DEF RevertConflicts, GitFails, At
  <2> QED
    BY <2>1, ThrowScheduled
<1>7. ASSUME NEW p \in Processes, Kill(p)
      PROVE  ScheduledOK'
  BY <1>7, KillScheduled
<1>8. CASE HandlerThrows \/ Tick
  BY <1>8, HandlerThrowsScheduled, TickScheduled
<1>9. CASE ChangeAuth
  BY <1>9, ScheduledStill DEF ChangeAuth, repoVars, closeVars
<1>10. CASE BeginClose \/ Exit \/ \E o \in Owners : FlushNext(o)
  BY <1>10, ScheduledForNothing DEF BeginClose, Exit, FlushNext
<1> QED
  BY <1>1, <1>2, <1>3, <1>4, <1>5, <1>6, <1>7, <1>8, <1>9, <1>10 DEF Next, Run

THEOREM ScheduledInvariance == Spec => []ScheduledOK
<1>1. Init => ScheduledOK
  BY DEF Init, ScheduledOK, Uncommitted
<1>2. Shape /\ StagedOK /\ ScheduledOK /\ [Next]_vars => ScheduledOK'
  <2>1. ASSUME ScheduledOK, UNCHANGED vars
        PROVE  ScheduledOK'
    BY <2>1, ScheduledStill DEF vars
  <2> QED
    BY <2>1, ScheduledKept
<1> QED
  BY <1>1, <1>2, ShapeInvariance, StagedInvariance, PTL DEF Spec

(* Outside the faults and the suppression named in UncommittedIsScheduled,  *)
(* no uncommitted write is forgotten by the timers, mails, tasks, rollbacks *)
(* and reverts, however they interleave.                                    *)
THEOREM NoWriteIsForgotten == Spec => []UncommittedIsScheduled
<1>1. ScheduledOK => UncommittedIsScheduled
  BY DueIsComes
  DEF ScheduledOK, UncommittedIsScheduled, Held, Suppresses, IsDue, Line
<1> QED
  BY <1>1, ScheduledInvariance, PTL

-----------------------------------------------------------------------------
(* A followed write that is owed everything stays reachable: sequences.     *)
LEMMA FirstCommits ==
  ASSUME NEW pe, NEW s \in Seq(TaskType), s # << >>, NEW ix,
         CommitsFirst(pe, s, ix)
  PROVE  s[1].op \notin OfRequest
<1>1. 1 \in DOMAIN s /\ DOMAIN s = 1..Len(s) /\ Len(s) \in Nat
  BY DropTask
<1>2. ~\E j \in DOMAIN s : j < 1
  BY <1>1
<1> QED
  BY <1>1, <1>2 DEF CommitsFirst

NoneOfRequest(s) == \A i \in DOMAIN s : s[i].op \notin OfRequest

LEMMA FirstWithoutRequests ==
  ASSUME NEW pe, NEW pe2, NEW s, NEW ix, CommitsFirst(pe, s, ix),
         NoneOfRequest(s)
  PROVE  CommitsFirst(pe2, s, ix)
BY DEF CommitsFirst, NoneOfRequest

LEMMA FirstBeforeWork ==
  ASSUME NEW pe, NEW pe2, NEW s \in Seq(TaskType), NEW ix,
         NEW t \in TaskType, t.op = "add",
         CommitsFirst(pe, s, ix), NoneOfRequest(s)
  PROVE  CommitsFirst(pe2, Append(s, t), ix)
<1> DEFINE u == Append(s, t)
<1>1. /\ DOMAIN u = 1..(Len(s) + 1) /\ DOMAIN s = 1..Len(s) /\ Len(s) \in Nat
      /\ \A i \in DOMAIN s : u[i] = s[i]
      /\ u[Len(s) + 1] = t
  BY AppendTask
<1> HIDE DEF u
<1>2. \A i \in DOMAIN u : i \in DOMAIN s \/ i = Len(s) + 1
  BY <1>1
<1>3. ASSUME NEW i \in DOMAIN u
      PROVE  /\ u[i].op \notin OfRequest
             /\ u[i].op = "commit" /\ u[i].waiter \in Requests => ix
  BY <1>1, <1>2 DEF CommitsFirst, NoneOfRequest, OfRequest
<1>4. CommitsFirst(pe2, u, ix)
  BY <1>3 DEF CommitsFirst
<1> QED
  BY <1>4 DEF u

LEMMA FirstBeforeRequest ==
  ASSUME NEW pe, NEW s \in Seq(TaskType), NEW ix,
         NEW t \in TaskType, t.op = "keep", pe = NoEntry,
         \E j \in DOMAIN s : s[j].op = "add" \/ (s[j].op = "commit" /\ ix),
         CommitsFirst(pe, s, ix)
  PROVE  CommitsFirst(pe, Append(s, t), ix)
<1> DEFINE u == Append(s, t)
           n == Len(s) + 1
<1>1. /\ DOMAIN u = 1..n /\ DOMAIN s = 1..Len(s) /\ Len(s) \in Nat
      /\ \A i \in DOMAIN s : u[i] = s[i] /\ i \in DOMAIN u /\ i < n
      /\ u[n] = t /\ n \in DOMAIN u
      /\ \A i \in DOMAIN u : i \in DOMAIN s \/ i = n
  BY AppendTask
<1> HIDE DEF u, n
<1>2. ASSUME NEW i \in DOMAIN s
      PROVE  /\ u[i].op \in OfRequest =>
                  /\ \E j \in DOMAIN u :
                       j < i /\ (u[j].op = "add" \/ (u[j].op = "commit" /\ ix))
                  /\ \A j \in DOMAIN u : j > i => u[j].op # "add"
             /\ u[i].op = "commit" /\ u[i].waiter \in Requests => ix
  <2>1. u[i] = s[i]
    BY <1>1
  <2>2. ASSUME s[i].op \in OfRequest
        PROVE  /\ \E j \in DOMAIN u :
                    j < i /\ (u[j].op = "add" \/ (u[j].op = "commit" /\ ix))
               /\ \A j \in DOMAIN u : j > i => u[j].op # "add"
    <3>1. PICK j \in DOMAIN s :
            j < i /\ (s[j].op = "add" \/ (s[j].op = "commit" /\ ix))
      BY <2>2 DEF CommitsFirst
    <3>2. j \in DOMAIN u /\ u[j] = s[j]
      BY <1>1
    <3>3. \A k \in DOMAIN s : k > i => s[k].op # "add"
      BY <2>2 DEF CommitsFirst
    <3>4. \A k \in DOMAIN u : k > i => u[k].op # "add"
      BY <1>1, <3>3
    <3> QED
      BY <3>1, <3>2, <3>4
  <2>3. s[i].op = "commit" /\ s[i].waiter \in Requests => ix
    BY DEF CommitsFirst
  <2> QED
    BY <2>1, <2>2, <2>3
<1>3. /\ \E j \in DOMAIN u :
           j < n /\ (u[j].op = "add" \/ (u[j].op = "commit" /\ ix))
      /\ \A j \in DOMAIN u : ~(j > n)
      /\ u[n].op # "commit"
  <2>1. PICK j \in DOMAIN s : s[j].op = "add" \/ (s[j].op = "commit" /\ ix)
    OBVIOUS
  <2>2. j \in DOMAIN u /\ u[j] = s[j] /\ j < n
    BY <1>1
  <2>3. \A k \in DOMAIN u : ~(k > n)
    BY <1>1 DEF n
  <2> QED
    BY <1>1, <2>1, <2>2, <2>3
<1>4. CommitsFirst(pe, u, ix)
  BY <1>1, <1>2, <1>3 DEF CommitsFirst
<1> QED
  BY <1>4 DEF u

LEMMA FirstAfterTask ==
  ASSUME NEW pe, NEW s \in Seq(TaskType), s # << >>, NEW ix,
         \A i \in DOMAIN s : i > 1 => s[i].op \in {"add", "keep"},
         ~NoneOfRequest(Tail(s)) =>
           \E k \in DOMAIN Tail(s) : Tail(s)[k].op = "add",
         CommitsFirst(pe, s, ix)
  PROVE  CommitsFirst(pe, Tail(s), ix)
<1> DEFINE u == Tail(s)
<1>1. /\ Len(s) \in Nat /\ DOMAIN s = 1..Len(s) /\ DOMAIN u = 1..(Len(s) - 1)
      /\ \A i \in DOMAIN u : u[i] = s[i + 1] /\ i + 1 \in DOMAIN s /\ i + 1 > 1
  BY DropTask
<1>2. ~NoneOfRequest(u) => \E k \in DOMAIN u : u[k].op = "add"
  OBVIOUS
<1> HIDE DEF u
<1>3. ASSUME NEW i \in DOMAIN u, u[i].op \in OfRequest
      PROVE  /\ \E j \in DOMAIN u :
                  j < i /\ (u[j].op = "add" \/ (u[j].op = "commit" /\ ix))
             /\ \A j \in DOMAIN u : j > i => u[j].op # "add"
             /\ pe = NoEntry
  <2>1. s[i + 1].op \in OfRequest /\ i + 1 \in DOMAIN s
    BY <1>1, <1>3
  <2>2. /\ pe = NoEntry
        /\ \A j \in DOMAIN s : j > i + 1 => s[j].op # "add"
    BY <2>1 DEF CommitsFirst
  <2>3. \A j \in DOMAIN u : j > i => u[j].op # "add"
    <3>1. \A j \in DOMAIN u : j > i => j + 1 > i + 1
      BY <1>1
    <3> QED
      BY <1>1, <2>2, <3>1
  <2>4. PICK k \in DOMAIN u : u[k].op = "add"
    BY <1>2, <1>3 DEF NoneOfRequest
  <2>5. k # i
    BY <1>3, <2>4 DEF OfRequest
  <2>6. k < i
    BY <1>1, <2>3, <2>4, <2>5
  <2> QED
    BY <2>2, <2>3, <2>4, <2>6
<1>4. \A i \in DOMAIN u : u[i].op # "commit"
  BY <1>1
<1>5. CommitsFirst(pe, u, ix)
  BY <1>3, <1>4 DEF CommitsFirst
<1> QED
  BY <1>5 DEF u

LEMMA FirstStaged ==
  ASSUME NEW pe, NEW s \in Seq(TaskType), s # << >>, NEW ix,
         NEW u, DOMAIN u = DOMAIN s, s[1].op = "add", u[1].op = "commit",
         \A i \in DOMAIN s : i # 1 => u[i] = s[i],
         CommitsFirst(pe, s, ix),
         \A i \in DOMAIN s : i > 1 => s[i].op \in {"add", "keep"}
  PROVE  CommitsFirst(pe, u, TRUE)
<1>0. 1 \in DOMAIN s /\ Len(s) \in Nat /\ DOMAIN s = 1..Len(s)
  BY DropTask
<1>1. ASSUME NEW i \in DOMAIN u, u[i].op \in OfRequest
      PROVE  /\ \E j \in DOMAIN u : j < i /\ u[j].op \in {"add", "commit"}
             /\ \A j \in DOMAIN u : j > i => u[j].op # "add"
             /\ pe = NoEntry
  <2>1. i # 1 /\ s[i].op \in OfRequest /\ i > 1
    BY <1>0, <1>1 DEF OfRequest
  <2>2. pe = NoEntry /\ \A j \in DOMAIN s : j > i => s[j].op # "add"
    BY <2>1 DEF CommitsFirst
  <2>3. \A j \in DOMAIN u : j > i => u[j].op # "add"
    BY <1>0, <2>1, <2>2
  <2>4. 1 \in DOMAIN u /\ 1 < i /\ u[1].op \in {"add", "commit"}
    BY <1>0, <2>1
  <2> QED
    BY <2>2, <2>3, <2>4
<1> QED
  BY <1>1 DEF CommitsFirst

(* With one process, all tasks are the server's.                            *)
LEMMA OnlyServer ==
  ASSUME Shape, ~clustered, NEW p \in Processes, NEW o \in Owners,
         queue[p][o] # << >>
  PROVE  p = "server"
<1>1. Current(p, o).op \in Ops
  BY CurrentTask DEF TaskType
<1>2. Current(p, o).op \in {"add", "commit"} => p = "server"
  BY CurrentTask
<1>3. Current(p, o).op \in OfRequest => p = "server"
  BY CurrentTask DEF Host
<1> QED
  BY <1>1, <1>2, <1>3 DEF Ops, OfRequest

(* What waits for a request of Watched is of a request that is queued.      *)
LEMMA LineRequests ==
  ASSUME Shape, NEW i \in DOMAIN Line
  PROVE  /\ i > 1 => Line[i].op \in {"add", "keep"}
         /\ Line[i].op \in OfRequest => Line[i].waiter \in Requests
         /\ Line[i].waiter \in Requests =>
              /\ req[Line[i].waiter].owner = Watched
              /\ Line[i].op \in OfRequest => req[Line[i].waiter].at = "queued"
              /\ Line[i].op \notin OfRequest
                   => req[Line[i].waiter].at = "flushing"
BY WatchedLine DEF LineOK

-----------------------------------------------------------------------------
(* What a step has to show of the line of Watched.                          *)
Line2 == queue'["server"][Watched]
Safe  == written = "safe" /\ ~head /\ ~kept
First == CommitsFirst(pend[Watched], Line, index)

LEMMA ReachableBySteps ==
  ASSUME ~clustered => ResetKeeps',
         ~clustered /\ written' = "safe" /\ ~head' /\ ~kept' =>
           tree' /\ CommitsFirst(pend'[Watched], Line2, index'),
         clustered' = clustered
  PROVE  ReachableOK'
BY DEF ReachableOK, ResetKeeps, Line2

LEMMA ReachableClustered ==
  ASSUME clustered, clustered' = clustered
  PROVE  ReachableOK'
BY DEF ReachableOK

(* The first task goes on, and at most one joins.                           *)
LEMMA ResetKeepsGrow ==
  ASSUME Shape, ResetKeeps, UNCHANGED <<head, kept>>,
         \/ Line2 = Line
         \/ \E t \in TaskType : t.op \in {"add", "keep"} /\ Line2 = Append(Line, t),
         \A r \in Requests : req[r].at = "queued" /\ req[r].owner = Watched
                               => req'[r] = req[r]
  PROVE  ResetKeeps'
<1>1. ASSUME NEW i \in DOMAIN Line2, Line2[i].op = "reset"
      PROVE  i \in DOMAIN Line /\ Line2[i] = Line[i]
  <2>1. CASE Line2 = Line
    BY <2>1
  <2>2. CASE Line2 # Line
    <3>1. PICK t \in TaskType : t.op \in {"add", "keep"} /\ Line2 = Append(Line, t)
      BY <2>2
    <3>2. /\ DOMAIN Line2 = 1..(Len(Line) + 1) /\ DOMAIN Line = 1..Len(Line)
          /\ Len(Line) \in Nat
          /\ \A k \in DOMAIN Line : Line2[k] = Line[k]
          /\ Line2[Len(Line) + 1] = t
      BY <3>1, WatchedLine, AppendTask
    <3>3. i # Len(Line) + 1
      BY <1>1, <3>1, <3>2
    <3>4. i \in 1..Len(Line)
      BY <3>2, <3>3
    <3> QED
      BY <3>2, <3>4
  <2> QED
    BY <2>1, <2>2
<1>2. ASSUME NEW i \in DOMAIN Line2, Line2[i].op = "reset"
      PROVE  kept' \/ ~head' \/ req'[Line2[i].waiter].target
  <2>1. i \in DOMAIN Line /\ Line2[i] = Line[i] /\ Line[i].op = "reset"
    BY <1>1, <1>2
  <2>2. req'[Line[i].waiter] = req[Line[i].waiter]
    BY <2>1, LineRequests DEF OfRequest
  <2>3. kept \/ ~head \/ req[Line[i].waiter].target
    BY <2>1 DEF ResetKeeps, Line
  <2> QED
    BY <2>1, <2>2, <2>3
<1> QED
  BY <1>2 DEF ResetKeeps, Line2

LEMMA ReachableGrow ==
  ASSUME Shape, ReachableOK, clustered' = clustered, UNCHANGED <<head, kept>>,
         ~clustered => (tree => tree'),
         ~clustered /\ written' = "safe" => written = "safe",
         ~clustered =>
           \/ Line2 = Line
           \/ \E t \in TaskType :
                t.op \in {"add", "keep"} /\ Line2 = Append(Line, t),
         \A r \in Requests : req[r].at = "queued" /\ req[r].owner = Watched
                               => req'[r] = req[r],
         ~clustered /\ Safe /\ tree /\ First
           => CommitsFirst(pend'[Watched], Line2, index')
  PROVE  ReachableOK'
<1>1. ~clustered => ResetKeeps'
  BY ResetKeepsGrow DEF ReachableOK
<1>2. ~clustered /\ Safe => tree /\ First
  BY DEF ReachableOK, Safe, First, Line
<1> QED
  BY <1>1, <1>2, ReachableBySteps DEF Safe

LEMMA ReachableStill ==
  ASSUME Shape, ReachableOK,
         UNCHANGED <<clustered, tree, index, head, kept, written, pend, queue, req>>
  PROVE  ReachableOK'
BY ReachableGrow DEF Line, Line2, First

LEMMA NoneQueued ==
  ASSUME Shape, \A r \in Requests : req[r].at = "queued" => req[r].owner # Watched
  PROVE  NoneOfRequest(Line)
BY LineRequests DEF NoneOfRequest

LEMMA NothingAsked ==
  ASSUME Shape, ~Running(Watched)
  PROVE  \A pe, ix : CommitsFirst(pe, Line, ix) /\ NoneOfRequest(Line)
BY LineRequests DEF Running, CommitsFirst, NoneOfRequest

(* The line of Watched when its owner root is recorded.                     *)
LEMMA RecordFirst ==
  ASSUME Shape, ~clustered, NEW o \in Owners, NEW without, without \notin Requests,
         Record(o, queue, without)
  PROVE  /\ \/ Line2 = Line
            \/ \E t \in TaskType : t.op \in {"add", "keep"} /\ Line2 = Append(Line, t)
         /\ First => CommitsFirst(pend'[Watched], Line2, index)
<1> DEFINE t == Task("add", "timer")
<1>1. t \in TaskType /\ t.op = "add" /\ queue \in Queues
  BY TimerTask, Types
<1>2. /\ \A a \in Owners : a # o => pend'[a] = pend[a]
      /\ \/ queue' = queue /\ pend' = pend
         \/ ~Suppressed(without) /\ queue' = Put(queue, "server", o, t)
         \/ ~Suppressed(without) /\ queue' = queue
  BY Types, RecordStep
<1> HIDE DEF t
<1>3. CASE queue' = queue /\ pend' = pend
  BY <1>3 DEF Line, Line2, First
<1>4. CASE o # Watched
  <2>1. Line2 = Line /\ pend'[Watched] = pend[Watched]
    BY <1>1, <1>2, <1>4, WatchedIn, WatchedPut DEF Line, Line2
  <2> QED
    BY <2>1 DEF First
<1>5. CASE ~Suppressed(without) /\ o = Watched
           /\ (queue' = queue \/ queue' = Put(queue, "server", o, t))
  <2>1. NoneOfRequest(Line)
    BY <1>5, NoneQueued DEF Suppressed
  <2>2. Line2 = Line \/ Line2 = Append(Line, t)
    <3>1. CASE queue' = queue
      BY <3>1 DEF Line, Line2
    <3>2. CASE queue' = Put(queue, "server", o, t)
      BY <1>1, <1>5, <3>2, WatchedIn, WatchedPut DEF Line, Line2
    <3> QED
      BY <1>5, <3>1, <3>2
  <2>3. CASE Line2 = Line
    BY <2>1, <2>3, FirstWithoutRequests DEF First
  <2>4. CASE Line2 = Append(Line, t)
    BY <1>1, <2>1, <2>4, WatchedLine, FirstBeforeWork DEF First
  <2> QED
    BY <2>2, <2>3, <2>4
<1> QED
  BY <1>2, <1>3, <1>4, <1>5

LEMMA WriteReachable ==
  ASSUME Shape, ReachableOK, NEW o \in Owners, NEW followed \in BOOLEAN,
         Write(o, followed)
  PROVE  ReachableOK'
<1>1. /\ Record(o, queue, Nobody) /\ tree' = (tree \/ followed)
      /\ written' = IF followed THEN Promised ELSE Recorded(o, Nobody)
      /\ UNCHANGED <<clustered, req, index, head, kept>>
  BY DEF Write
<1>2. Nobody \notin Requests
  BY HistoryAssumption
<1>3. CASE clustered
  BY <1>1, <1>3, ReachableClustered
<1>4. CASE ~clustered /\ ~followed
  <2>1. written' = "safe" => written = "safe"
    BY <1>1, <1>4 DEF Recorded
  <2> QED
    BY <1>1, <1>2, <1>4, <2>1, RecordFirst, ReachableGrow
<1>5. CASE ~clustered /\ followed
  <2>1. ResetKeeps'
    BY <1>1, <1>2, <1>5, RecordFirst, ResetKeepsGrow DEF ReachableOK
  <2>2. written' = "safe" => ~Running(Watched)
    BY <1>1, <1>5 DEF Promised
  <2>3. written' = "safe" => First
    BY <2>2, NothingAsked DEF First
  <2>4. written' = "safe" => CommitsFirst(pend'[Watched], Line2, index')
    BY <1>1, <1>2, <1>5, <2>3, RecordFirst
  <2> QED
    BY <1>1, <1>5, <2>1, <2>4, ReachableBySteps
<1> QED
  BY <1>3, <1>4, <1>5

(* While an entry of Watched waits, no request of it does.                  *)
LEMMA NoneWhilePending ==
  ASSUME First, pend[Watched] # NoEntry
  PROVE  NoneOfRequest(Line)
BY DEF First, CommitsFirst, NoneOfRequest

LEMMA TickReachable ==
  ASSUME Shape, ReachableOK, Tick
  PROVE  ReachableOK'
<1>1. UNCHANGED <<clustered, queue, req, tree, index, head, kept, written>>
  BY DEF Tick, repoVars
<1>2. pend[Watched] = NoEntry => pend'[Watched] = NoEntry
  BY WatchedIn DEF Tick
<1>3. First => CommitsFirst(pend'[Watched], Line, index)
  BY <1>2, NoneWhilePending, FirstWithoutRequests DEF First
<1> QED
  BY <1>1, <1>3, ReachableGrow DEF Line, Line2

(* An entry of Watched becomes a task.                                      *)
LEMMA EntryFirst ==
  ASSUME Shape, NEW o \in Owners, NEW t \in TaskType, t.op = "add",
         pend[o] # NoEntry, pend' = [pend EXCEPT ![o] = NoEntry],
         queue' = Put(queue, "server", o, t)
  PROVE  /\ Line2 = Line \/ Line2 = Append(Line, t)
         /\ First => CommitsFirst(pend'[Watched], Line2, index)
<1>1. CASE o = Watched
  <2>1. Line2 = Append(Line, t)
    BY <1>1, WatchedIn, Types, WatchedPut DEF Line, Line2
  <2>2. First => NoneOfRequest(Line)
    BY <1>1, NoneWhilePending
  <2> QED
    BY <2>1, <2>2, WatchedLine, FirstBeforeWork DEF First
<1>2. CASE o # Watched
  <2>1. Line2 = Line
    BY <1>2, WatchedIn, Types, WatchedPut DEF Line, Line2
  <2>2. pend'[Watched] = pend[Watched]
    BY <1>2, WatchedIn, Types DEF Pendings
  <2> QED
    BY <2>1, <2>2 DEF First
<1> QED
  BY <1>1, <1>2

LEMMA TimerFiresReachable ==
  ASSUME Shape, ReachableOK, NEW o \in Owners, TimerFires(o)
  PROVE  ReachableOK'
<1> DEFINE t == Task("add", "timer")
<1>1. /\ pend[o] # NoEntry /\ pend' = [pend EXCEPT ![o] = NoEntry]
      /\ queue' = Put(queue, "server", o, t)
      /\ UNCHANGED <<clustered, req, tree, index, head, kept, written>>
  BY DEF TimerFires, repoVars
<1>2. t \in TaskType /\ t.op = "add"
  BY TimerTask
<1> HIDE DEF t
<1>3. /\ Line2 = Line \/ Line2 = Append(Line, t)
      /\ First => CommitsFirst(pend'[Watched], Line2, index)
  BY <1>1, <1>2, EntryFirst
<1> QED
  BY <1>1, <1>2, <1>3, ReachableGrow

LEMMA FlushNextReachable ==
  ASSUME Shape, ReachableOK, NEW o \in Owners, FlushNext(o)
  PROVE  ReachableOK'
<1> DEFINE t == Task("add", "close")
<1>1. /\ pend' = [pend EXCEPT ![o] = NoEntry]
      /\ queue' = IF pend[o] = NoEntry THEN queue ELSE Put(queue, "server", o, t)
      /\ UNCHANGED <<clustered, req, tree, index, head, kept, written>>
  BY DEF FlushNext, repoVars
<1>2. t \in TaskType /\ t.op = "add"
  BY TimerTask
<1> HIDE DEF t
<1>3. CASE pend[o] # NoEntry
  <2>1. /\ Line2 = Line \/ Line2 = Append(Line, t)
        /\ First => CommitsFirst(pend'[Watched], Line2, index)
    BY <1>1, <1>2, <1>3, EntryFirst
  <2> QED
    BY <1>1, <1>2, <2>1, ReachableGrow
<1>4. CASE pend[o] = NoEntry
  <2>1. pend' = pend /\ queue' = queue
    BY <1>1, <1>4, Types DEF Pendings
  <2> QED
    BY <1>1, <2>1, ReachableStill
<1> QED
  BY <1>3, <1>4

LEMMA AskReachable ==
  ASSUME Shape, ScheduledOK, ReachableOK, NEW r \in Requests,
         NEW op \in {"rollback", "revert", "preview"},
         NEW o \in Owners, NEW target \in BOOLEAN, Ask(r, op, o, target)
  PROVE  ReachableOK'
<1>1. /\ req[r].at # "queued" /\ phase = "open"
      /\ UNCHANGED <<clustered, inflight, tree, index, head, kept, written>>
  BY DEF Ask, Idle, repoVars
<1>2. \A r2 \in Requests : req[r2].at = "queued" => req'[r2] = req[r2]
  <2>1. \E x : req' = [req EXCEPT ![r] = x]
    BY DEF Ask, AskFlush, Enter
  <2> QED
    BY <1>1, <2>1, Types DEF Asks
<1>3. CASE clustered
  BY <1>1, <1>3, ReachableClustered
<1>4. CASE AskFlush(r, op, o, target)
  <2> DEFINE t == Task("add", r)
  <2>1. /\ pend[o] # NoEntry /\ pend' = [pend EXCEPT ![o] = NoEntry]
        /\ queue' = Put(queue, "server", o, t)
    BY <1>4 DEF AskFlush
  <2>2. t \in TaskType /\ t.op = "add"
    BY TimerTask
  <2> HIDE DEF t
  <2>3. /\ Line2 = Line \/ Line2 = Append(Line, t)
        /\ First => CommitsFirst(pend'[Watched], Line2, index)
    BY <2>1, <2>2, EntryFirst
  <2> QED
    BY <1>1, <1>2, <2>2, <2>3, ReachableGrow
<1>5. CASE /\ ~clustered /\ pend[o] = NoEntry /\ UNCHANGED pend
           /\ Enter(r, op, o, target, queue)
  <2> DEFINE t == Task("keep", r)
  <2>1. queue' = Put(queue, "server", o, t)
    BY <1>5 DEF Enter, Host
  <2>2. t \in TaskType /\ t.op = "keep"
    BY TimerTask
  <2> HIDE DEF t
  <2>3. Line2 = IF o = Watched THEN Append(Line, t) ELSE Line
    BY <2>1, <2>2, WatchedIn, Types, WatchedPut DEF Line, Line2
  <2>4. ASSUME Safe, tree, First, o = Watched
        PROVE  CommitsFirst(pend[Watched], Append(Line, t), index)
    <3>1. \E j \in DOMAIN Line :
            Line[j].op = "add" \/ (Line[j].op = "commit" /\ index)
      <4>1. inflight = {} /\ pend[Watched] = NoEntry
        BY <1>5, <2>4, Types
      <4>2. Comes(pend[Watched], inflight, Line, index) \/ Held(req)
        BY <1>1, <2>4 DEF ScheduledOK, Uncommitted, Safe, Line
      <4>3. CASE Comes(pend[Watched], inflight, Line, index)
        BY <4>1, <4>3 DEF Comes
      <4>4. CASE Held(req)
        <5>1. PICK r2 \in Requests : req[r2].at = "queued" /\ req[r2].owner = Watched
          BY <4>4 DEF Held
        <5>2. PICK i \in DOMAIN Line : Line[i].waiter = r2
          BY <1>5, <5>1, Types DEF QueuesOK, InLine, Host, Line
        <5>3. Line[i].op \in OfRequest
          BY <5>1, <5>2, LineRequests
        <5> QED
          BY <2>4, <5>3 DEF First, CommitsFirst
      <4> QED
        BY <4>2, <4>3, <4>4
    <3> QED
      BY <1>5, <2>2, <2>4, <3>1, WatchedLine, FirstBeforeRequest DEF First
  <2> QED
    BY <1>1, <1>2, <1>5, <2>2, <2>3, <2>4, ReachableGrow DEF First
<1> QED
  BY <1>3, <1>4, <1>5 DEF Ask

-----------------------------------------------------------------------------
(* The tasks of Watched, with one process.                                  *)
LEMMA NoResetBehind ==
  ASSUME Shape, Line # << >>, ~clustered,
         \/ Line2 = Tail(Line)
         \/ \E t \in TaskType :
              t.op \in {"add", "keep"} /\ Line2 = Append(Tail(Line), t)
  PROVE  ResetKeeps'
<1> DEFINE u == Tail(Line)
<1>1. u \in Seq(TaskType) /\ \A i \in DOMAIN u : u[i].op \in {"add", "keep"}
  <2>1. /\ u \in Seq(TaskType) /\ Len(Line) \in Nat
        /\ DOMAIN u = 1..(Len(Line) - 1)
        /\ \A i \in DOMAIN u : u[i] = Line[i + 1] /\ i + 1 \in DOMAIN Line
    BY WatchedLine, DropTask
  <2> HIDE DEF u
  <2>2. ASSUME NEW i \in DOMAIN u
        PROVE  u[i].op \in {"add", "keep"}
    <3>1. u[i] = Line[i + 1] /\ i + 1 \in DOMAIN Line /\ i + 1 > 1
      BY <2>1
    <3> QED
      BY <3>1, LineRequests
  <2> QED
    BY <2>1, <2>2
<1> HIDE DEF u
<1>2. \A i \in DOMAIN Line2 : Line2[i].op # "reset"
  <2>1. CASE Line2 = u
    BY <1>1, <2>1
  <2>2. CASE Line2 # u
    <3>1. PICK t \in TaskType : t.op \in {"add", "keep"} /\ Line2 = Append(u, t)
      BY <2>2 DEF u
    <3>2. /\ DOMAIN Line2 = 1..(Len(u) + 1) /\ DOMAIN u = 1..Len(u)
          /\ Len(u) \in Nat
          /\ \A k \in DOMAIN u : Line2[k] = u[k]
          /\ Line2[Len(u) + 1] = t
      BY <1>1, <3>1, AppendTask
    <3>3. \A i \in DOMAIN Line2 : i \in DOMAIN u \/ i = Len(u) + 1
      BY <3>2
    <3> QED
      BY <1>1, <3>1, <3>2, <3>3
  <2> QED
    BY <2>1, <2>2
<1> QED
  BY <1>2 DEF ResetKeeps, Line2

(* A task of another owner leaves what is of Watched alone.                 *)
LEMMA OtherRequests ==
  ASSUME Shape, NEW p \in Processes, NEW o \in Owners, queue[p][o] # << >>,
         o # Watched \/ Current(p, o).op \notin OfRequest
  PROVE  \A r \in Requests :
           req[r].at = "queued" /\ req[r].owner = Watched => Left(p, o)[r] = req[r]
BY CurrentTask

LEMMA RunAddReachable ==
  ASSUME Shape, ReachableOK, NEW o \in Owners, RunAdd(o)
  PROVE  ReachableOK'
<1>1. /\ queue' = Next1("server", o, "commit") /\ queue["server"][o] # << >>
      /\ Current("server", o).op = "add"
      /\ index' = IF o = Watched THEN tree ELSE index
      /\ UNCHANGED <<clustered, pend, req, tree, head, kept, written>>
  BY DEF RunAdd, Staged, At
<1>2. /\ "commit" \in Ops /\ queue \in Queues /\ "server" \in Processes
  BY WatchedIn, Types DEF Ops
<1>3. CASE o # Watched
  <2>1. Line2 = Line
    BY <1>1, <1>2, <1>3, WatchedIn, NextLine DEF Line, Line2
  <2> QED
    BY <1>1, <1>3, <2>1, ReachableGrow DEF First
<1>4. CASE o = Watched
  <2>1. /\ Line # << >> /\ Line \in Seq(TaskType) /\ Line[1].op = "add"
        /\ DOMAIN Line2 = DOMAIN Line /\ Line2[1].op = "commit"
        /\ \A i \in DOMAIN Line : i # 1 => Line2[i] = Line[i]
    BY <1>1, <1>2, <1>4, WatchedLine, CurrentTask, NextLine DEF Line, Line2
  <2>2. \A i \in DOMAIN Line : i > 1 => Line[i].op \in {"add", "keep"}
    BY LineRequests
  <2>3. ~clustered /\ Safe => tree /\ First
    BY DEF ReachableOK, Safe, First, Line
  <2>4. First => CommitsFirst(pend[Watched], Line2, TRUE)
    BY <2>1, <2>2, FirstStaged DEF First
  <2>5. \A i \in DOMAIN Line2 : Line2[i].op = "reset" =>
          i \in DOMAIN Line /\ Line2[i] = Line[i]
    BY <2>1
  <2>6. ResetKeeps => ResetKeeps'
    BY <1>1, <2>5 DEF ResetKeeps, Line, Line2
  <2> QED
    BY <1>1, <1>4, <2>3, <2>4, <2>6, Types, ReachableBySteps
    DEF ReachableOK, Safe
<1> QED
  BY <1>3, <1>4

LEMMA RunCommitReachable ==
  ASSUME Shape, ReachableOK, NEW o \in Owners, RunCommit(o)
  PROVE  ReachableOK'
<1> DEFINE w == Current("server", o).waiter
           q == Drop("server", o)["server"][Watched]
<1>1. /\ queue["server"][o] # << >> /\ Current("server", o).op = "commit"
      /\ Flushed(w, o)
      /\ head' = IF o = Watched THEN index ELSE head
      /\ kept' = IF o = Watched THEN kept \/ head ELSE kept
      /\ written' = IF o = Watched /\ index /\ written # "no" THEN "safe"
                    ELSE written
      /\ UNCHANGED <<clustered, pend, tree, index>>
  BY DEF RunCommit, At
<1>2. /\ "server" \in Processes /\ Line \in Seq(TaskType)
      /\ q = IF o = Watched THEN Tail(Line) ELSE Line
  BY <1>1, WatchedIn, WatchedDrop, WatchedLine
<1>3. \/ Line2 = q
      \/ /\ o = Watched /\ w \in Requests
         /\ Line2 = Append(q, Task("keep", w))
  BY <1>1, FlushedQueue DEF Line2
<1>4. CASE clustered
  BY <1>1, <1>4, ReachableClustered
<1>5. CASE ~clustered /\ o # Watched
  <2>1. \A r \in Requests :
          req[r].at = "queued" /\ req[r].owner = Watched => req'[r] = req[r]
    <3>1. CASE w \notin Requests
      BY <1>1, <3>1 DEF Flushed
    <3>2. CASE w \in Requests
      <4>1. req[w].at = "flushing" /\ req \in Asks
        BY <1>1, <1>2, <3>2, CurrentTask, Types DEF OfRequest
      <4>2. \E x : req' = [req EXCEPT ![w] = x]
        BY <1>1, <3>2 DEF Flushed, Enter
      <4> QED
        BY <4>1, <4>2 DEF Asks
    <3> QED
      BY <3>1, <3>2
  <2>2. Line2 = Line
    BY <1>2, <1>3, <1>5
  <2> QED
    BY <1>1, <1>5, <2>1, <2>2, ReachableGrow DEF First
<1>6. CASE ~clustered /\ o = Watched
  <2>0. Line # << >> /\ Line[1].op = "commit" /\ Line[1].waiter = w
    BY <1>1, <1>6, WatchedIn, CurrentTask DEF Line
  <2>1. ResetKeeps'
    <3>1. Line2 = Tail(Line) \/ \E t \in TaskType :
            t.op \in {"add", "keep"} /\ Line2 = Append(Tail(Line), t)
      BY <1>2, <1>3, <1>6, TimerTask
    <3> QED
      BY <1>6, <2>0, <3>1, NoResetBehind
  <2>2. ASSUME written' = "safe", ~head', ~kept'
        PROVE  tree' /\ CommitsFirst(pend'[Watched], Line2, index')
    <3>1. ~index /\ ~head /\ ~kept /\ written = "safe"
      BY <1>1, <1>6, <2>2
    <3>2. tree /\ First
      BY <1>6, <3>1 DEF ReachableOK, First, Line
    <3>3. 1 \in DOMAIN Line
      BY <1>2, <2>0, DropTask
    <3>4. w \notin Requests
      BY <2>0, <3>1, <3>2, <3>3 DEF First, CommitsFirst
    <3>5. Line2 = Tail(Line)
      BY <1>2, <1>3, <1>6, <3>4
    <3>6. \A i \in DOMAIN Line : i > 1 => Line[i].op \in {"add", "keep"}
      BY LineRequests
    <3>7. ~NoneOfRequest(Tail(Line)) =>
            \E k \in DOMAIN Tail(Line) : Tail(Line)[k].op = "add"
      <4> DEFINE u == Tail(Line)
      <4>1. /\ Len(Line) \in Nat /\ DOMAIN Line = 1..Len(Line)
            /\ DOMAIN u = 1..(Len(Line) - 1)
            /\ \A i \in DOMAIN u : u[i] = Line[i + 1] /\ i + 1 \in DOMAIN Line
        BY <1>2, <2>0, DropTask
      <4> HIDE DEF u
      <4>2. ASSUME NEW i \in DOMAIN u, u[i].op \in OfRequest
            PROVE  \E k \in DOMAIN u : u[k].op = "add"
        <5>1. Line[i + 1].op \in OfRequest /\ i + 1 \in DOMAIN Line
          BY <4>1, <4>2
        <5>2. PICK j \in DOMAIN Line : j < i + 1 /\ Line[j].op = "add"
          BY <3>1, <3>2, <5>1 DEF First, CommitsFirst
        <5>3. j # 1
          BY <2>0, <5>2
        <5>4. j - 1 \in DOMAIN u /\ u[j - 1] = Line[(j - 1) + 1] /\ (j - 1) + 1 = j
          BY <4>1, <5>2, <5>3
        <5> QED
          BY <5>2, <5>4
      <4> QED
        BY <4>2 DEF NoneOfRequest, u
    <3>8. CommitsFirst(pend[Watched], Tail(Line), index)
      BY <1>2, <2>0, <3>2, <3>6, <3>7, FirstAfterTask DEF First
    <3> QED
      BY <1>1, <3>2, <3>5, <3>8
  <2> QED
    BY <1>1, <2>1, <2>2, ReachableBySteps
<1> QED
  BY <1>4, <1>5, <1>6

-----------------------------------------------------------------------------
LEMMA RunKeepReachable ==
  ASSUME Shape, ReachableOK, NEW p \in Processes, NEW o \in Owners, RunKeep(p, o)
  PROVE  ReachableOK'
<1> DEFINE w == Current(p, o).waiter
<1>1. PICK op \in {"reset", "revert"} :
        /\ Staged(p, o, "keep", op)
        /\ kept' = IF /\ o = Watched
                      /\ op = "revert" \/ req[w].target # head
                   THEN kept \/ head ELSE kept
  BY DEF RunKeep
<1>2. /\ queue' = Next1(p, o, op) /\ queue[p][o] # << >>
      /\ Current(p, o).op = "keep" /\ op \in Ops
      /\ UNCHANGED <<clustered, pend, req, tree, index, head, written>>
  BY <1>1 DEF RunKeep, Staged, At, Ops
<1>3. CASE clustered
  BY <1>2, <1>3, ReachableClustered
<1>4. CASE ~clustered
  <2>1. p = "server"
    BY <1>2, <1>4, OnlyServer
  <2>2. CASE o # Watched
    <3>1. Line2 = Line
      BY <1>2, <2>1, <2>2, WatchedIn, Types, NextLine DEF Line, Line2
    <3> QED
      BY <1>1, <1>2, <2>2, <3>1, ReachableGrow DEF First
  <2>3. CASE o = Watched
    <3>1. /\ Line # << >> /\ Line \in Seq(TaskType) /\ Line[1].op = "keep"
          /\ DOMAIN Line2 = DOMAIN Line /\ 1 \in DOMAIN Line
          /\ Line2[1].op = op /\ Line2[1].waiter = w
          /\ \A i \in DOMAIN Line : i # 1 => Line2[i] = Line[i]
      BY <1>2, <2>1, <2>3, Types, WatchedLine, CurrentTask, NextLine
      DEF Line, Line2
    <3>2. w \in Requests /\ req[w].target \in BOOLEAN
      BY <1>2, CurrentTask DEF OfRequest, Asking
    <3>3. ASSUME NEW i \in DOMAIN Line2, Line2[i].op = "reset"
          PROVE  kept' \/ ~head' \/ req'[Line2[i].waiter].target
      <4>1. CASE i = 1
        <5>1. op = "reset" /\ req'[Line2[i].waiter].target = req[w].target
          BY <1>2, <3>1, <3>3, <4>1
        <5>2. kept' = IF req[w].target # head THEN kept \/ head ELSE kept
          BY <1>1, <2>3, <5>1
        <5> QED
          BY <1>2, <3>2, <5>1, <5>2, Types
      <4>2. CASE i # 1
        <5>1. i \in DOMAIN Line /\ Line[i].op = "reset" /\ i > 1
          BY <3>1, <3>3, <4>2, DropTask
        <5> QED
          BY <5>1, LineRequests
      <4> QED
        BY <4>1, <4>2
    <3>4. ResetKeeps'
      BY <3>3 DEF ResetKeeps, Line2
    <3>5. ~(written' = "safe" /\ ~head' /\ ~kept')
      <4> SUFFICES ASSUME written' = "safe", ~head', ~kept' PROVE FALSE
        OBVIOUS
      <4>1. written = "safe" /\ ~head /\ ~kept
        BY <1>1, <1>2
      <4>2. First
        BY <1>4, <4>1 DEF ReachableOK, First, Line
      <4> QED
        BY <3>1, <4>2, FirstCommits DEF First, OfRequest
    <3> QED
      BY <1>2, <3>4, <3>5, ReachableBySteps
  <2> QED
    BY <2>2, <2>3
<1> QED
  BY <1>3, <1>4

(* The line of Watched when a request leaves.                               *)
LEMMA LeaveLine ==
  ASSUME Shape, ~clustered, NEW o \in Owners, queue["server"][o] # << >>,
         Current("server", o).op \in OfRequest,
         Leave("server", o, Current("server", o).waiter)
  PROVE  /\ o # Watched => Line2 = Line /\ pend'[Watched] = pend[Watched]
         /\ o = Watched => ResetKeeps'
<1> DEFINE r == Current("server", o).waiter
           q == Drop("server", o)
           t == Task("add", "timer")
<1>0. "server" \in Processes
  BY WatchedIn
<1>1. CASE o # Watched
  BY <1>0, <1>1, LeaveComes DEF Line2
<1>2. CASE o = Watched
  <2>1. QueuesOK(q, Left("server", o)) /\ Record(o, q, r)
    BY <1>0, Types, TaskEnds DEF Leave
  <2>2. queue' = q \/ queue' = Put(q, "server", o, t)
    BY <2>1, RecordStep
  <2>3. t \in TaskType /\ t.op = "add" /\ q \in Queues
    BY <2>1, TimerTask DEF QueuesOK
  <2>4. q["server"][Watched] = Tail(Line)
    BY <1>0, <1>2, WatchedDrop
  <2> HIDE DEF q, t
  <2>5. Line2 = Tail(Line) \/ Line2 = Append(Tail(Line), t)
    <3>1. CASE queue' = q
      BY <2>4, <3>1 DEF Line2
    <3>2. CASE queue' = Put(q, "server", o, t)
      <4>1. Put(q, "server", o, t)["server"][Watched] =
              Append(q["server"][Watched], t)
        BY <1>0, <1>2, <2>3, WatchedPut
      <4>2. queue'["server"][Watched] = Append(q["server"][Watched], t)
        BY <3>2, <4>1, Zenon
      <4> QED
        BY <2>4, <4>2, Zenon DEF Line2
    <3> QED
      BY <2>2, <3>1, <3>2
  <2>6. Line # << >>
    BY <1>2 DEF Line
  <2> QED
    BY <1>2, <2>3, <2>5, <2>6, NoResetBehind
<1> QED
  BY <1>1, <1>2

(* A rollback or revert of Watched does not run before the write's commit.  *)
LEMMA RequestsRunLater ==
  ASSUME Shape, ReachableOK, ~clustered, queue["server"][Watched] # << >>,
         Current("server", Watched).op \in OfRequest
  PROVE  ~Safe
<1> SUFFICES ASSUME Safe PROVE FALSE
  OBVIOUS
<1>1. First
  BY DEF ReachableOK, Safe, First, Line
<1>2. Line # << >> /\ Line \in Seq(TaskType) /\ Line[1].op \in OfRequest
  BY WatchedLine DEF Line, Current
<1> QED
  BY <1>1, <1>2, FirstCommits DEF First

LEMMA RunResetReachable ==
  ASSUME Shape, ReachableOK, NEW p \in Processes, NEW o \in Owners, RunReset(p, o)
  PROVE  ReachableOK'
<1> DEFINE r == Current(p, o).waiter
<1>1. /\ queue[p][o] # << >> /\ Current(p, o).op = "reset" /\ Leave(p, o, r)
      /\ IF o = Watched
         THEN tree' = req[r].target /\ index' = tree' /\ head' = tree'
         ELSE UNCHANGED <<tree, index, head>>
      /\ written' = Recorded(o, r) /\ UNCHANGED <<clustered, kept>>
  BY DEF RunReset, At
<1>2. Current(p, o).op \in OfRequest /\ req' = Left(p, o)
  BY <1>1, LeaveShape DEF OfRequest
<1>3. written' = "safe" => written = "safe"
  BY <1>1 DEF Recorded
<1>4. CASE clustered
  BY <1>1, <1>4, ReachableClustered
<1>5. CASE ~clustered /\ o # Watched
  <2>1. p = "server"
    BY <1>1, <1>5, OnlyServer
  <2>2. Line2 = Line /\ pend'[Watched] = pend[Watched]
    BY <1>1, <1>2, <1>5, <2>1, LeaveLine
  <2>3. \A x \in Requests :
          req[x].at = "queued" /\ req[x].owner = Watched => req'[x] = req[x]
    BY <1>1, <1>2, <1>5, OtherRequests
  <2> QED
    BY <1>1, <1>3, <1>5, <2>2, <2>3, ReachableGrow DEF First
<1>6. CASE ~clustered /\ o = Watched
  <2>1. p = "server"
    BY <1>1, <1>6, OnlyServer
  <2>2. ResetKeeps'
    BY <1>1, <1>2, <1>6, <2>1, LeaveLine
  <2>3. kept \/ ~head \/ req[r].target
    <3>1. 1 \in DOMAIN Line /\ Line[1] = Current(p, o)
      BY <1>1, <1>6, <2>1, CurrentTask DEF Line
    <3> QED
      BY <1>1, <1>6, <3>1 DEF ReachableOK, ResetKeeps, Line
  <2>4. ~Safe
    BY <1>1, <1>2, <1>6, <2>1, RequestsRunLater
  <2>5. ~(written' = "safe" /\ ~head' /\ ~kept')
    BY <1>1, <1>3, <1>6, <2>3, <2>4 DEF Safe
  <2> QED
    BY <1>1, <2>2, <2>5, ReachableBySteps
<1> QED
  BY <1>4, <1>5, <1>6

LEMMA RunRevertReachable ==
  ASSUME Shape, ReachableOK, NEW p \in Processes, NEW o \in Owners, RunRevert(p, o)
  PROVE  ReachableOK'
<1> DEFINE r == Current(p, o).waiter
           undoes == o = Watched /\ req[r].target
<1>1. /\ queue[p][o] # << >> /\ Current(p, o).op = "revert" /\ Leave(p, o, r)
      /\ tree' = (tree /\ ~undoes) /\ index' = (index /\ ~undoes)
      /\ head' = (head /\ ~undoes) /\ kept' = (kept \/ undoes)
      /\ written' = IF Suppressed(r) THEN Miss(o, Drop(p, o)) ELSE Recorded(o, r)
      /\ UNCHANGED clustered
  BY DEF RunRevert, At
<1>2. Current(p, o).op \in OfRequest /\ req' = Left(p, o)
  BY <1>1, LeaveShape DEF OfRequest
<1>3. written' = "safe" => written = "safe"
  BY <1>1 DEF Recorded, Miss
<1>4. CASE clustered
  BY <1>1, <1>4, ReachableClustered
<1>5. CASE ~clustered /\ o # Watched
  <2>1. p = "server"
    BY <1>1, <1>5, OnlyServer
  <2>2. Line2 = Line /\ pend'[Watched] = pend[Watched]
    BY <1>1, <1>2, <1>5, <2>1, LeaveLine
  <2>3. \A x \in Requests :
          req[x].at = "queued" /\ req[x].owner = Watched => req'[x] = req[x]
    BY <1>1, <1>2, <1>5, OtherRequests
  <2>4. UNCHANGED <<tree, index, head, kept>>
    BY <1>1, <1>5, Types
  <2> QED
    BY <1>1, <1>3, <2>2, <2>3, <2>4, ReachableGrow DEF First
<1>6. CASE ~clustered /\ o = Watched
  <2>1. p = "server"
    BY <1>1, <1>6, OnlyServer
  <2>2. ResetKeeps'
    BY <1>1, <1>2, <1>6, <2>1, LeaveLine
  <2>3. ~Safe
    BY <1>1, <1>2, <1>6, <2>1, RequestsRunLater
  <2>4. ~(written' = "safe" /\ ~head' /\ ~kept')
    BY <1>1, <1>3, <2>3 DEF Safe
  <2> QED
    BY <1>1, <2>2, <2>4, ReachableBySteps
<1> QED
  BY <1>4, <1>5, <1>6

LEMMA ThrowReachable ==
  ASSUME Shape, ReachableOK, NEW p \in Processes, NEW o \in Owners,
         queue[p][o] # << >>, Throw(p, o)
  PROVE  ReachableOK'
<1>1. /\ queue' = Drop(p, o) /\ req' = Left(p, o) /\ written' = Miss(o, queue')
      /\ UNCHANGED <<clustered, pend, inflight, tree, index, head, kept, phase>>
  BY ThrowLeaves DEF repoVars, closeVars
<1>2. written' = "safe" => written = "safe"
  BY <1>1 DEF Miss
<1>3. CASE clustered
  BY <1>1, <1>3, ReachableClustered
<1>4. CASE ~clustered /\ o # Watched
  <2>1. Line2 = Line
    BY <1>1, <1>4, WatchedDrop DEF Line2
  <2>2. \A x \in Requests :
          req[x].at = "queued" /\ req[x].owner = Watched => req'[x] = req[x]
    BY <1>1, <1>4, OtherRequests
  <2> QED
    BY <1>1, <1>2, <2>1, <2>2, ReachableGrow DEF First
<1>5. CASE ~clustered /\ o = Watched
  <2>1. p = "server" /\ inflight = {}
    BY <1>5, OnlyServer, Types
  <2>2. Line # << >> /\ Line \in Seq(TaskType) /\ Line2 = Tail(Line)
    BY <1>1, <1>5, <2>1, WatchedLine, WatchedDrop DEF Line, Line2
  <2>3. ResetKeeps'
    BY <1>5, <2>2, NoResetBehind
  <2>4. \A i \in DOMAIN Line : i > 1 => Line[i].op \in {"add", "keep"}
    BY LineRequests
  <2>5. ASSUME written' = "safe", ~head', ~kept'
        PROVE  tree' /\ CommitsFirst(pend'[Watched], Line2, index')
    <3>1. Safe /\ tree /\ First
      BY <1>1, <1>2, <1>5, <2>5 DEF ReachableOK, Safe, First, Line
    <3>2. Due(queue')
      BY <1>1, <1>5, <2>5, <3>1 DEF Miss, Uncommitted, Safe
    <3> DEFINE u == Tail(Line)
    <3>3. /\ Len(Line) \in Nat /\ DOMAIN u = 1..(Len(Line) - 1)
          /\ \A i \in DOMAIN u : u[i] = Line[i + 1] /\ i + 1 \in DOMAIN Line
                                 /\ i + 1 > 1
      BY <2>2, DropTask
    <3>4. pend[Watched] # NoEntry
          \/ \E i \in DOMAIN u : u[i].op \in {"add", "commit"}
      BY <1>1, <2>1, <2>2, <3>2 DEF Due, Line2
    <3> HIDE DEF u
    <3>5. ASSUME NEW i \in DOMAIN u, u[i].op \in OfRequest
          PROVE  \E k \in DOMAIN u : u[k].op = "add"
      <4>1. pend[Watched] = NoEntry
        BY <3>1, <3>3, <3>5 DEF First, CommitsFirst
      <4>2. PICK k \in DOMAIN u : u[k].op \in {"add", "commit"}
        BY <3>4, <4>1
      <4>3. u[k].op # "commit"
        BY <2>4, <3>3
      <4> QED
        BY <4>2, <4>3
    <3>6. CommitsFirst(pend[Watched], Tail(Line), index)
      BY <2>2, <2>4, <3>1, <3>5, FirstAfterTask DEF First, NoneOfRequest, u
    <3> QED
      BY <1>1, <2>2, <3>1, <3>6
  <2> QED
    BY <1>1, <2>3, <2>5, ReachableBySteps
<1> QED
  BY <1>3, <1>4, <1>5

(* All processes are gone, or the only one.                                 *)
LEMMA EmptyReachable ==
  ASSUME Shape, ReachableOK, queue' = [q \in Processes |-> NoTasks],
         clustered' = clustered, UNCHANGED <<tree, head, kept>>,
         written' = "safe" => written = "safe"
  PROVE  ReachableOK'
<1>1. Line2 = << >> /\ DOMAIN << >> = {}
  BY WatchedIn DEF Line2, NoTasks
<1>2. ResetKeeps' /\ \A pe, ix : CommitsFirst(pe, Line2, ix)
  BY <1>1 DEF ResetKeeps, CommitsFirst, Line2
<1> QED
  BY <1>2, ReachableBySteps DEF ReachableOK

LEMMA ReachableKept ==
  ASSUME Shape, ScheduledOK, ReachableOK, Next
  PROVE  ReachableOK'
<1>1. ASSUME NEW o \in Owners, NEW followed \in BOOLEAN, Write(o, followed)
      PROVE  ReachableOK'
  BY <1>1, WriteReachable
<1>2. ASSUME NEW o \in Owners, TimerFires(o) \/ FlushNext(o)
      PROVE  ReachableOK'
  BY <1>2, TimerFiresReachable, FlushNextReachable
<1>3. ASSUME NEW o \in Owners, Publish(o)
      PROVE  ReachableOK'
  <2>1. clustered /\ clustered' = clustered
    BY <1>3, Types DEF Publish
  <2> QED
    BY <2>1, ReachableClustered
<1>4. ASSUME NEW o \in Owners, NEW r \in Requests,
             NEW op \in {"rollback", "revert", "preview"},
             NEW target \in BOOLEAN, Ask(r, op, o, target)
      PROVE  ReachableOK'
  BY <1>4, AskReachable
<1>5. ASSUME NEW o \in Owners, RunAdd(o) \/ RunCommit(o)
      PROVE  ReachableOK'
  BY <1>5, RunAddReachable, RunCommitReachable
<1>6. ASSUME NEW o \in Owners, NEW p \in Processes,
             RunKeep(p, o) \/ RunReset(p, o) \/ RunRevert(p, o)
      PROVE  ReachableOK'
  BY <1>6, RunKeepReachable, RunResetReachable, RunRevertReachable
<1>7. ASSUME NEW o \in Owners, NEW p \in Processes,
             RevertConflicts(p, o) \/ GitFails(p, o)
      PROVE  ReachableOK'
  <2>1. queue[p][o] # << >> /\ Throw(p, o)
    BY <1>7 DEF RevertConflicts, GitFails, At
  <2> QED
    BY <2>1, ThrowReachable
<1>8. ASSUME NEW p \in Processes, Kill(p)
      PROVE  ReachableOK'
  <2>1. clustered' = clustered /\ UNCHANGED <<tree, head, kept>>
    BY <1>8 DEF Kill, repoVars
  <2>2. CASE p = "server"
    <3>1. /\ queue' = [q \in Processes |-> NoTasks]
          /\ written' = "safe" => written = "safe"
      BY <1>8, <2>2 DEF Kill
    <3> QED
      BY <2>1, <3>1, EmptyReachable
  <2>3. CASE p # "server"
    BY <1>8, <2>1, <2>3, ReachableClustered DEF Kill, Processes
  <2> QED
    BY <2>2, <2>3
<1>9. CASE HandlerThrows
  BY <1>9, ReachableClustered DEF HandlerThrows
<1>10. CASE Tick
  BY <1>10, TickReachable
<1>11. CASE ChangeAuth
  BY <1>11, ReachableStill DEF ChangeAuth, repoVars
<1>12. CASE BeginClose
  BY <1>12, ReachableStill, ReachableClustered DEF BeginClose, repoVars
<1>13. CASE Exit
  <2>1. /\ queue' = [q \in Processes |-> NoTasks]
        /\ written' = "safe" => written = "safe"
        /\ clustered' = clustered /\ UNCHANGED <<tree, head, kept>>
    BY <1>13 DEF Exit, repoVars
  <2> QED
    BY <2>1, EmptyReachable
<1> QED
  BY <1>1, <1>2, <1>3, <1>4, <1>5, <1>6, <1>7, <1>8, <1>9, <1>10, <1>11, <1>12,
     <1>13
  DEF Next, Run

THEOREM ReachableInvariance == Spec => []ReachableOK
<1>1. Init => ReachableOK
  <2>1. ASSUME Init
        PROVE  queue["server"][Watched] = << >> /\ DOMAIN << >> = {}
               /\ written = "no"
    BY <2>1, WatchedIn DEF Init
  <2> QED
    BY <2>1 DEF ReachableOK, ResetKeeps
<1>2. Shape /\ ScheduledOK /\ ReachableOK /\ [Next]_vars => ReachableOK'
  <2>1. ASSUME Shape, ReachableOK, UNCHANGED vars
        PROVE  ReachableOK'
    BY <2>1, ReachableStill DEF vars
  <2> QED
    BY <2>1, ReachableKept
<1> QED
  BY <1>1, <1>2, ShapeInvariance, ScheduledInvariance, PTL DEF Spec

(* With one process no rollback, revert, timer or failing Git command loses *)
(* a write recorded before it: it is in the tree or in a commit that can    *)
(* still be reached.                                                        *)
THEOREM NoWriteIsLost == Spec => []WritesStayReachable
<1>1. ReachableOK => WritesStayReachable
  BY DEF ReachableOK, WritesStayReachable
<1> QED
  BY <1>1, ReachableInvariance, PTL
-----------------------------------------------------------------------------
(* A change that is in the tree and not in the head is in no kept commit.   *)
NotKeptYet == tree /\ ~head => ~kept

LEMMA NotKeptYetKept ==
  ASSUME Shape, StagedOK, NotKeptYet, Next
  PROVE  NotKeptYet'
<1>1. ASSUME NEW o \in Owners, NEW followed \in BOOLEAN, Write(o, followed)
      PROVE  NotKeptYet'
  BY <1>1 DEF Write, NotKeptYet, StagedOK
<1>2. CASE HandlerThrows
  BY <1>2 DEF HandlerThrows, NotKeptYet, StagedOK
<1>3. ASSUME NEW o \in Owners, RunCommit(o)
      PROVE  NotKeptYet'
  <2>1. /\ tree' = tree
        /\ head' = IF o = Watched THEN index ELSE head
        /\ kept' = IF o = Watched THEN kept \/ head ELSE kept
    BY <1>3 DEF RunCommit
  <2> QED
    BY <2>1 DEF NotKeptYet, StagedOK
<1>4. ASSUME NEW o \in Owners, NEW p \in Processes, RunKeep(p, o)
      PROVE  NotKeptYet'
  <2>1. /\ UNCHANGED <<tree, head>>
        /\ \/ kept' = kept
           \/ kept' = (kept \/ head)
    BY <1>4 DEF RunKeep
  <2> QED
    BY <2>1 DEF NotKeptYet
<1>5. ASSUME NEW o \in Owners, NEW p \in Processes, RunReset(p, o)
      PROVE  NotKeptYet'
  <2>1. kept' = kept /\ (head' = tree' \/ UNCHANGED <<tree, head>>)
    BY <1>5 DEF RunReset
  <2> QED
    BY <2>1 DEF NotKeptYet
<1>6. ASSUME NEW o \in Owners, NEW p \in Processes, RunRevert(p, o)
      PROVE  NotKeptYet'
  <2>1. PICK undoes \in BOOLEAN :
          /\ tree' = (tree /\ ~undoes) /\ head' = (head /\ ~undoes)
          /\ kept' = (kept \/ undoes)
    BY <1>6 DEF RunRevert
  <2> QED
    BY <2>1 DEF NotKeptYet
<1>7. ASSUME UNCHANGED repoVars
      PROVE  NotKeptYet'
  BY <1>7 DEF NotKeptYet, repoVars
<1>8. ASSUME NEW o \in Owners,
             \/ Publish(o) \/ TimerFires(o) \/ FlushNext(o)
             \/ \E r \in Requests, op \in {"rollback", "revert", "preview"},
                   target \in BOOLEAN : Ask(r, op, o, target)
             \/ \E p \in Processes : RevertConflicts(p, o) \/ GitFails(p, o)
      PROVE  NotKeptYet'
  BY <1>7, <1>8
  DEF Publish, TimerFires, FlushNext, Ask, RevertConflicts, GitFails, Throw
<1>9. ASSUME NEW o \in Owners, RunAdd(o)
      PROVE  NotKeptYet'
  BY <1>9 DEF RunAdd, NotKeptYet
<1>10. CASE (\E p \in Processes : Kill(p)) \/ ChangeAuth \/ Tick \/ BeginClose \/ Exit
  BY <1>7, <1>10 DEF Kill, ChangeAuth, Tick, BeginClose, Exit
<1> QED
  BY <1>1, <1>2, <1>3, <1>4, <1>5, <1>6, <1>8, <1>9, <1>10 DEF Next, Run

(* While close() runs, the commit of a write recorded before is a task, or  *)
(* its entry is one the flush has yet to take.                              *)
ByFlush(pe, fl, s, ix) ==
  \/ pe # NoEntry /\ Watched \in fl
  \/ Comes(NoEntry, {}, s, ix)
Flushes  == ByFlush(pend[Watched], toFlush, Line, index)
Flushes2 == ByFlush(pend'[Watched], toFlush', Line2, index')

FlushOK ==
  /\ phase = "closing" /\ Uncommitted /\ written = "safe" => Flushes
  /\ phase = "closed" /\ written = "safe" => ~Uncommitted

LEMMA FlushByStep ==
  ASSUME FlushOK, UNCHANGED <<phase, tree, head>>,
         written' = "safe" => written = "safe",
         phase = "closing" /\ Flushes => Flushes2
  PROVE  FlushOK'
BY DEF FlushOK, Uncommitted, Flushes, Flushes2, Line, Line2

LEMMA FlushForNothing ==
  ASSUME phase' \notin {"closing", "closed"} \/ ~tree' \/ head' \/ written' # "safe"
  PROVE  FlushOK'
BY DEF FlushOK, Uncommitted

LEMMA FlushStill ==
  ASSUME FlushOK,
         UNCHANGED <<phase, tree, head, written, pend, toFlush, queue, index>>
  PROVE  FlushOK'
BY FlushByStep DEF Flushes, Flushes2, Line, Line2

(* An entry and a queue that only gain.                                     *)
LEMMA FlushesMore ==
  ASSUME NEW s \in Seq(TaskType), NEW t \in TaskType, NEW pe, NEW fl, NEW ix
  PROVE  /\ ByFlush(pe, fl, s, ix) => ByFlush(pe, fl, Append(s, t), ix)
         /\ \A pe2, fl2 : t.op = "add" => ByFlush(pe2, fl2, Append(s, t), ix)
BY ComesBehind DEF ByFlush

LEMMA RecordFlushes ==
  ASSUME Shape, NEW q, NEW rq, QueuesOK(q, rq), NEW o \in Owners,
         /\ \A a \in Owners : a # o => pend'[a] = pend[a]
         /\ \/ queue' = q /\ pend' = pend
            \/ queue' = Put(q, "server", o, Task("add", "timer"))
            \/ queue' = q /\ pend'[o] # NoEntry,
         toFlush' = toFlush, NEW ix,
         ByFlush(pend[Watched], toFlush, q["server"][Watched], ix)
  PROVE  ByFlush(pend'[Watched], toFlush', Line2, ix)
<1> DEFINE s == q["server"][Watched]
           t == Task("add", "timer")
<1>1. q \in Queues /\ s \in Seq(TaskType) /\ t \in TaskType /\ t.op = "add"
  BY WatchedIn, TimerTask DEF QueuesOK, Queues
<1> HIDE DEF t
<1>2. CASE queue' = q /\ pend' = pend
  BY <1>2 DEF Line2
<1>3. CASE queue' = Put(q, "server", o, t)
  <2>1. Line2 = IF o = Watched THEN Append(s, t) ELSE s
    BY <1>1, <1>3, WatchedIn, WatchedPut DEF Line2
  <2>2. CASE o = Watched
    <3>1. ByFlush(pend'[Watched], toFlush', Append(s, t), ix)
      BY <1>1, FlushesMore
    <3> QED
      BY <2>1, <2>2, <3>1
  <2>3. CASE o # Watched
    <3>1. pend'[Watched] = pend[Watched]
      BY <2>3, WatchedIn
    <3> QED
      BY <2>1, <2>3, <3>1
  <2> QED
    BY <2>2, <2>3
<1>4. CASE queue' = q /\ pend'[o] # NoEntry
  <2>1. pend[Watched] # NoEntry => pend'[Watched] # NoEntry
    BY <1>4, WatchedIn
  <2> QED
    BY <1>4, <2>1 DEF ByFlush, Line2
<1> QED
  BY <1>2, <1>3, <1>4 DEF t

LEMMA WriteFlush ==
  ASSUME Shape, FlushOK, NEW o \in Owners, NEW followed \in BOOLEAN,
         Write(o, followed)
  PROVE  FlushOK'
<1>1. /\ Record(o, queue, Nobody) /\ tree' = (tree \/ followed)
      /\ written' = IF followed THEN Promised ELSE Recorded(o, Nobody)
      /\ UNCHANGED <<index, head, phase, toFlush>>
  BY DEF Write, closeVars
<1>2. Flushes => Flushes2
  <2>1. QueuesOK(queue, req)
    BY Types
  <2> QED
    BY <1>1, <2>1, RecordStep, RecordFlushes DEF Flushes, Flushes2, Line
<1>3. CASE followed
  <2>1. phase # "open" => written' # "safe"
    BY <1>1, <1>3 DEF Promised
  <2> QED
    BY <1>1, <2>1, Types, FlushForNothing
<1>4. CASE ~followed
  <2>1. tree' = tree /\ (written' = "safe" => written = "safe")
    BY <1>1, <1>4, Types DEF Recorded
  <2> QED
    BY <1>1, <1>2, <2>1, FlushByStep
<1> QED
  BY <1>3, <1>4

LEMMA PublishFlush ==
  ASSUME Shape, FlushOK, NEW o \in Owners, Publish(o)
  PROVE  FlushOK'
<1>1. /\ Schedule(o, queue)
      /\ UNCHANGED <<tree, index, head, phase, toFlush, written>>
  BY DEF Publish, repoVars, closeVars
<1>2. QueuesOK(queue, req)
  BY Types
<1>3. Flushes => Flushes2
  BY <1>1, <1>2, ScheduleStep, RecordFlushes DEF Flushes, Flushes2, Line
<1> QED
  BY <1>1, <1>3, FlushByStep

LEMMA TickFlush ==
  ASSUME Shape, FlushOK, Tick
  PROVE  FlushOK'
<1>1. pend[Watched] # NoEntry => pend'[Watched] # NoEntry
  <2> SUFFICES ASSUME pend[Watched] # NoEntry
               PROVE  pend'[Watched] # NoEntry
    OBVIOUS
  <2>1. pend[Watched].age \in Nat
    BY Types, WatchedIn, Times DEF Pendings
  <2>2. pend'[Watched] = [age |-> pend[Watched].age + 1,
                          left |-> pend[Watched].left - 1]
    BY WatchedIn DEF Tick, Entry
  <2>3. pend'[Watched].age # NoEntry.age
    BY <2>1, <2>2 DEF NoEntry
  <2> QED
    BY <2>3
<1>2. UNCHANGED <<queue, tree, index, head, phase, toFlush, written>>
  BY DEF Tick, repoVars, closeVars
<1> QED
  BY <1>1, <1>2, FlushByStep DEF Flushes, Flushes2, ByFlush, Line, Line2

LEMMA TimerFiresFlush ==
  ASSUME Shape, FlushOK, NEW o \in Owners, TimerFires(o)
  PROVE  FlushOK'
<1>1. /\ pend' = [pend EXCEPT ![o] = NoEntry]
      /\ queue' = Put(queue, "server", o, Task("add", "timer"))
      /\ UNCHANGED <<tree, index, head, phase, toFlush, written>>
  BY DEF TimerFires, repoVars, closeVars
<1>2. QueuesOK(queue, req) /\ \A a \in Owners : a # o => pend'[a] = pend[a]
  BY <1>1, Types DEF Pendings
<1>3. Flushes => Flushes2
  BY <1>1, <1>2, RecordFlushes DEF Flushes, Flushes2, Line
<1> QED
  BY <1>1, <1>3, FlushByStep

(* close() takes an entry.                                                  *)
LEMMA FlushNextFlush ==
  ASSUME Shape, FlushOK, NEW o \in Owners, FlushNext(o)
  PROVE  FlushOK'
<1> DEFINE t == Task("add", "close")
<1>1. /\ toFlush' = toFlush \ {o} /\ pend' = [pend EXCEPT ![o] = NoEntry]
      /\ queue' = IF pend[o] = NoEntry THEN queue ELSE Put(queue, "server", o, t)
      /\ UNCHANGED <<tree, index, head, phase, written>>
  BY DEF FlushNext, repoVars
<1>2. t \in TaskType /\ t.op = "add" /\ queue \in Queues
  BY TimerTask, Types
<1> HIDE DEF t
<1>3. Flushes => Flushes2
  <2>1. CASE o # Watched
    <3>1. Line2 = Line
      BY <1>1, <1>2, <2>1, WatchedIn, WatchedPut DEF Line, Line2
    <3>2. pend'[Watched] = pend[Watched]
      BY <1>1, <2>1, WatchedIn, Types DEF Pendings
    <3> QED
      BY <1>1, <2>1, <3>1, <3>2 DEF Flushes, Flushes2, ByFlush
  <2>2. CASE o = Watched /\ pend[o] = NoEntry
    <3>1. Line2 = Line
      BY <1>1, <2>2 DEF Line, Line2
    <3> QED
      BY <1>1, <2>2, <3>1 DEF Flushes, Flushes2, ByFlush
  <2>3. CASE o = Watched /\ pend[o] # NoEntry
    <3>1. Line2 = Append(Line, t)
      BY <1>1, <1>2, <2>3, WatchedIn, WatchedPut DEF Line, Line2
    <3> QED
      BY <1>2, <3>1, WatchedLine, FlushesMore DEF Flushes2
  <2> QED
    BY <2>1, <2>2, <2>3
<1> QED
  BY <1>1, <1>3, FlushByStep

LEMMA RunAddFlush ==
  ASSUME Shape, FlushOK, NEW o \in Owners, RunAdd(o)
  PROVE  FlushOK'
<1>1. /\ queue' = Next1("server", o, "commit") /\ queue["server"][o] # << >>
      /\ index' = IF o = Watched THEN tree ELSE index
      /\ UNCHANGED <<pend, tree, head, phase, toFlush, written>>
  BY DEF RunAdd, Staged, At, closeVars
<1>2. /\ "commit" \in Ops /\ queue \in Queues /\ "server" \in Processes
  BY WatchedIn, Types DEF Ops
<1>3. /\ 1 \in DOMAIN queue'["server"][o]
      /\ queue'["server"][o][1].op = "commit"
      /\ o # Watched => Line2 = Line
  BY <1>1, <1>2, WatchedIn, NextLine DEF Line, Line2
<1>4. CASE o = Watched /\ tree
  <2>1. Flushes2
    BY <1>1, <1>3, <1>4 DEF Flushes2, ByFlush, Comes, Line2
  <2> QED
    BY <1>1, <2>1, FlushByStep
<1>5. CASE ~tree
  BY <1>1, <1>5, FlushForNothing
<1>6. CASE o # Watched
  BY <1>1, <1>3, <1>6, FlushByStep DEF Flushes, Flushes2
<1> QED
  BY <1>4, <1>5, <1>6

LEMMA RunCommitFlush ==
  ASSUME Shape, StagedOK, FlushOK, NEW o \in Owners, RunCommit(o)
  PROVE  FlushOK'
<1> DEFINE w == Current("server", o).waiter
           q == Drop("server", o)["server"][Watched]
<1>1. /\ queue["server"][o] # << >> /\ Current("server", o).op = "commit"
      /\ Flushed(w, o)
      /\ head' = IF o = Watched THEN index ELSE head
      /\ written' = IF o = Watched /\ index /\ written # "no" THEN "safe"
                    ELSE written
      /\ UNCHANGED <<pend, tree, index, phase, toFlush>>
  BY DEF RunCommit, At, closeVars
<1>2. /\ "server" \in Processes /\ Line \in Seq(TaskType)
      /\ q = IF o = Watched THEN Tail(Line) ELSE Line
  BY <1>1, WatchedIn, WatchedDrop, WatchedLine
<1>3. \/ Line2 = q
      \/ /\ o = Watched /\ w \in Requests
         /\ Line2 = Append(q, Task("keep", w))
  BY <1>1, FlushedQueue DEF Line2
<1>4. ByFlush(pend[Watched], toFlush, q, index) => Flushes2
  <2>1. q \in Seq(TaskType)
    BY <1>1, <1>2, DropTask DEF Line
  <2>2. w \in Requests => Task("keep", w) \in TaskType
    BY TimerTask
  <2> QED
    BY <1>1, <1>3, <2>1, <2>2, FlushesMore DEF Flushes2
<1>5. CASE o # Watched
  BY <1>1, <1>2, <1>4, <1>5, FlushByStep DEF Flushes
<1>6. CASE o = Watched /\ ~index
  <2>1. Line[1].op = "commit" /\ Line # << >>
    BY <1>1, <1>6, WatchedIn, CurrentTask DEF Line
  <2>2. Flushes => ByFlush(pend[Watched], toFlush, q, index)
    BY <1>2, <1>6, <2>1, ComesAfter DEF Flushes, ByFlush
  <2>3. CASE tree
    <3>1. head' = head /\ written' = written
      BY <1>1, <1>6, <2>3, Types DEF StagedOK
    <3> QED
      BY <1>1, <1>4, <2>2, <3>1, FlushByStep
  <2>4. CASE ~tree
    BY <1>1, <2>4, FlushForNothing
  <2> QED
    BY <2>3, <2>4
<1>7. CASE o = Watched /\ index
  BY <1>1, <1>7, FlushForNothing
<1> QED
  BY <1>5, <1>6, <1>7

LEMMA RunKeepFlush ==
  ASSUME Shape, FlushOK, NEW p \in Processes, NEW o \in Owners, RunKeep(p, o)
  PROVE  FlushOK'
<1>1. PICK op \in {"reset", "revert"} : Staged(p, o, "keep", op)
  BY DEF RunKeep
<1>2. /\ queue' = Next1(p, o, op) /\ queue[p][o] # << >>
      /\ Current(p, o).op = "keep" /\ op \in Ops
      /\ UNCHANGED <<pend, tree, index, head, phase, toFlush, written>>
  BY <1>1 DEF RunKeep, Staged, At, Ops, closeVars
<1>3. queue[p][o][1].op = "keep" /\ queue \in Queues
  BY <1>2, CurrentTask, Types
<1>4. /\ DOMAIN queue'[p][o] = DOMAIN queue[p][o]
      /\ \A i \in DOMAIN queue[p][o] : i # 1 => queue'[p][o][i] = queue[p][o][i]
      /\ \A p2 \in Processes, o2 \in Owners :
           p2 # p \/ o2 # o => queue'[p2][o2] = queue[p2][o2]
  BY <1>2, <1>3, NextLine
<1>5. CASE p = "server" /\ o = Watched
  <2>1. \A i \in DOMAIN Line : Line[i].op \in {"add", "commit"}
          => i \in DOMAIN Line2 /\ Line2[i] = Line[i]
    <3>1. \A i \in DOMAIN Line : Line[i].op \in {"add", "commit"} => i # 1
      BY <1>3, <1>5 DEF Line
    <3> QED
      BY <1>4, <1>5, <3>1 DEF Line, Line2
  <2> QED
    BY <1>2, <2>1, FlushByStep DEF Flushes, Flushes2, ByFlush, Comes
<1>6. CASE ~(p = "server" /\ o = Watched)
  <2>1. Line2 = Line
    BY <1>4, <1>6, WatchedIn DEF Line, Line2
  <2> QED
    BY <1>2, <2>1, FlushByStep DEF Flushes, Flushes2
<1> QED
  BY <1>5, <1>6

(* The task of a request ends: what is behind it, or recorded, is flushed.  *)
LEMMA LeaveFlushes ==
  ASSUME Shape, NEW p \in Processes, NEW o \in Owners, queue[p][o] # << >>,
         Current(p, o).op \in OfRequest, Leave(p, o, Current(p, o).waiter),
         toFlush' = toFlush, Flushes
  PROVE  ByFlush(pend'[Watched], toFlush', Line2, index)
<1> DEFINE q == Drop(p, o)
<1>1. Record(o, q, Current(p, o).waiter) /\ QueuesOK(q, Left(p, o))
  BY Types, TaskEnds DEF Leave
<1>2. q["server"][Watched] =
        IF p = "server" /\ o = Watched THEN Tail(Line) ELSE Line
  BY WatchedDrop
<1>3. ByFlush(pend[Watched], toFlush, q["server"][Watched], index)
  <2>1. CASE p = "server" /\ o = Watched
    <3>1. Line # << >> /\ Line[1].op \notin {"add", "commit"}
      BY <2>1, CurrentTask DEF Line, OfRequest
    <3> QED
      BY <1>2, <2>1, <3>1, WatchedLine, ComesAfter DEF Flushes, ByFlush
  <2>2. CASE ~(p = "server" /\ o = Watched)
    BY <1>2, <2>2 DEF Flushes
  <2> QED
    BY <2>1, <2>2
<1> HIDE DEF q
<1> QED
  BY <1>1, <1>3, RecordStep, RecordFlushes

LEMMA RunResetFlush ==
  ASSUME Shape, FlushOK, NEW p \in Processes, NEW o \in Owners, RunReset(p, o)
  PROVE  FlushOK'
<1> DEFINE r == Current(p, o).waiter
<1>1. /\ queue[p][o] # << >> /\ Current(p, o).op \in OfRequest /\ Leave(p, o, r)
      /\ IF o = Watched
         THEN tree' = req[r].target /\ index' = tree' /\ head' = tree'
         ELSE UNCHANGED <<tree, index, head>>
      /\ written' = Recorded(o, r) /\ UNCHANGED <<phase, toFlush>>
  BY DEF RunReset, At, OfRequest, closeVars
<1>2. CASE o = Watched
  BY <1>1, <1>2, FlushForNothing
<1>3. CASE o # Watched
  <2>1. written' = written
    BY <1>1, <1>3 DEF Recorded
  <2>2. Flushes => Flushes2
    BY <1>1, <1>3, LeaveFlushes DEF Flushes2
  <2> QED
    BY <1>1, <1>3, <2>1, <2>2, FlushByStep
<1> QED
  BY <1>2, <1>3

LEMMA RunRevertFlush ==
  ASSUME Shape, FlushOK, NEW p \in Processes, NEW o \in Owners, RunRevert(p, o)
  PROVE  FlushOK'
<1> DEFINE r == Current(p, o).waiter
           undoes == o = Watched /\ req[r].target
<1>1. /\ queue[p][o] # << >> /\ Current(p, o).op \in OfRequest /\ Leave(p, o, r)
      /\ tree' = (tree /\ ~undoes) /\ index' = (index /\ ~undoes)
      /\ head' = (head /\ ~undoes)
      /\ written' = IF Suppressed(r) THEN Miss(o, Drop(p, o)) ELSE Recorded(o, r)
      /\ UNCHANGED <<phase, toFlush>>
  BY DEF RunRevert, At, OfRequest, closeVars
<1>2. CASE undoes
  BY <1>1, <1>2, FlushForNothing
<1>3. CASE ~undoes
  <2>1. UNCHANGED <<tree, index, head>>
    BY <1>1, <1>3, Types
  <2>2. written' = "safe" => written = "safe"
    BY <1>1 DEF Recorded, Miss
  <2>3. Flushes => Flushes2
    BY <1>1, <2>1, LeaveFlushes DEF Flushes2
  <2> QED
    BY <1>1, <2>1, <2>2, <2>3, FlushByStep
<1> QED
  BY <1>2, <1>3

LEMMA ThrowFlush ==
  ASSUME Shape, FlushOK, NEW p \in Processes, NEW o \in Owners,
         queue[p][o] # << >>, Throw(p, o)
  PROVE  FlushOK'
<1>1. /\ queue' = Drop(p, o) /\ written' = Miss(o, queue')
      /\ UNCHANGED <<pend, tree, index, head, phase, toFlush>>
  BY ThrowLeaves DEF repoVars, closeVars
<1>2. written' = "safe" => written = "safe"
  BY <1>1 DEF Miss
<1>3. CASE o # Watched
  <2>1. Line2 = Line
    BY <1>1, <1>3, WatchedDrop DEF Line2
  <2> QED
    BY <1>1, <1>2, <2>1, FlushByStep DEF Flushes, Flushes2
<1>4. CASE o = Watched /\ phase = "closing"
  <2>1. Uncommitted => written' # "safe"
    BY <1>1, <1>4 DEF Miss
  <2>2. CASE Uncommitted
    BY <2>1, <2>2, FlushForNothing
  <2>3. CASE ~Uncommitted
    BY <1>1, <2>3, Types, FlushForNothing DEF Uncommitted
  <2> QED
    BY <2>2, <2>3
<1>5. CASE phase # "closing"
  BY <1>1, <1>2, <1>5, FlushByStep
<1> QED
  BY <1>3, <1>4, <1>5

(* close() begins: what is due is due before it, or has an entry.           *)
LEMMA BeginCloseFlush ==
  ASSUME Shape, ScheduledOK, ReachableOK, NotKeptYet, BeginClose
  PROVE  FlushOK'
<1>1. /\ phase = "open" /\ phase' = "closing"
      /\ toFlush' = {o \in Owners : pend[o] # NoEntry}
      /\ UNCHANGED <<clustered, pend, tree, index, head, kept>>
  BY DEF BeginClose, repoVars
<1> SUFFICES ASSUME Uncommitted', written' = "safe"
             PROVE  Flushes2
  BY <1>1 DEF FlushOK, Flushes, Flushes2, Line, Line2
<1>2. Uncommitted /\ ~kept
  BY <1>1 DEF Uncommitted, NotKeptYet
<1>3. CASE clustered
  <2>1. MailCutOff /\ queue' = [queue EXCEPT !["worker"] = NoTasks]
    BY <1>3 DEF BeginClose
  <2>2. Line2 = Line
    BY <2>1, WatchedIn, Types DEF Line, Line2, Queues
  <2>3. written = "safe" /\ (Watched \notin inflight \/ pend[Watched] # NoEntry)
    BY <1>2, <2>1 DEF MailCutOff
  <2>4. IsDue
    BY <1>1, <1>2, <1>3, <2>3 DEF ScheduledOK, Held, IsDue, Line
  <2> QED
    BY <1>1, <2>2, <2>3, <2>4, WatchedIn DEF IsDue, Comes, Flushes2, ByFlush
<1>4. CASE ~clustered
  <2>1. Line2 = Line /\ written = "safe" /\ inflight = {}
    BY <1>4, Types DEF BeginClose, Line, Line2
  <2>2. CASE IsDue
    BY <1>1, <2>1, <2>2, WatchedIn DEF IsDue, Comes, Flushes2, ByFlush
  <2>3. CASE Held(req)
    <3>1. PICK r \in Requests : req[r].at = "queued" /\ req[r].owner = Watched
      BY <2>3 DEF Held
    <3>2. PICK i \in DOMAIN Line : Line[i].waiter = r
      BY <1>4, <3>1, Types DEF QueuesOK, InLine, Host, Line
    <3>3. Line[i].op \in OfRequest
      BY <3>1, <3>2, WatchedLine DEF LineOK
    <3>4. CommitsFirst(pend[Watched], Line, index)
      BY <1>2, <1>4, <2>1 DEF ReachableOK, Uncommitted, Line
    <3>5. \E j \in DOMAIN Line :
            Line[j].op = "add" \/ (Line[j].op = "commit" /\ index)
      BY <3>3, <3>4 DEF CommitsFirst
    <3> QED
      BY <1>1, <2>1, <3>5 DEF Flushes2, ByFlush, Comes
  <2> QED
    BY <1>1, <1>2, <2>1, <2>2, <2>3 DEF ScheduledOK, IsDue, Line
<1> QED
  BY <1>3, <1>4

LEMMA ExitFlush ==
  ASSUME Shape, FlushOK, Exit
  PROVE  FlushOK'
<1>1. /\ phase = "closing" /\ toFlush = {} /\ phase' = "closed"
      /\ written' = IF /\ Uncommitted
                       /\ \E i \in DOMAIN Line : Line[i].op \in {"add", "commit"}
                    THEN "late" ELSE written
      /\ UNCHANGED <<tree, head>>
  BY DEF Exit, repoVars, Line
<1> SUFFICES ASSUME written' = "safe", Uncommitted'
             PROVE  FALSE
  BY <1>1 DEF FlushOK
<1>2. Uncommitted /\ written = "safe"
  BY <1>1 DEF Uncommitted
<1>3. Flushes
  BY <1>1, <1>2 DEF FlushOK
<1>4. \E i \in DOMAIN Line : Line[i].op \in {"add", "commit"}
  BY <1>1, <1>3 DEF Flushes, ByFlush, Comes
<1> QED
  BY <1>1, <1>2, <1>4

LEMMA FlushKept ==
  ASSUME Shape, StagedOK, ScheduledOK, ReachableOK, NotKeptYet, FlushOK, Next
  PROVE  FlushOK'
<1>1. ASSUME NEW o \in Owners, NEW followed \in BOOLEAN, Write(o, followed)
      PROVE  FlushOK'
  BY <1>1, WriteFlush
<1>2. ASSUME NEW o \in Owners, Publish(o) \/ TimerFires(o) \/ FlushNext(o)
      PROVE  FlushOK'
  BY <1>2, PublishFlush, TimerFiresFlush, FlushNextFlush
<1>3. ASSUME NEW o \in Owners, RunAdd(o) \/ RunCommit(o)
      PROVE  FlushOK'
  BY <1>3, RunAddFlush, RunCommitFlush
<1>4. ASSUME NEW o \in Owners, NEW p \in Processes,
             RunKeep(p, o) \/ RunReset(p, o) \/ RunRevert(p, o)
      PROVE  FlushOK'
  BY <1>4, RunKeepFlush, RunResetFlush, RunRevertFlush
<1>5. ASSUME NEW o \in Owners, NEW p \in Processes,
             RevertConflicts(p, o) \/ GitFails(p, o)
      PROVE  FlushOK'
  <2>1. queue[p][o] # << >> /\ Throw(p, o)
    BY <1>5 DEF RevertConflicts, GitFails, At
  <2> QED
    BY <2>1, ThrowFlush
<1>6. CASE Tick
  BY <1>6, TickFlush
<1>7. CASE ChangeAuth
  BY <1>7, FlushStill DEF ChangeAuth, repoVars, closeVars
<1>8. CASE BeginClose
  BY <1>8, BeginCloseFlush
<1>9. CASE Exit
  BY <1>9, ExitFlush
<1>10. ASSUME phase' = "open"
       PROVE  FlushOK'
  BY <1>10, FlushForNothing
<1>11. ASSUME NEW o \in Owners, NEW r \in Requests,
              NEW op \in {"rollback", "revert", "preview"},
              NEW target \in BOOLEAN, Ask(r, op, o, target)
       PROVE  FlushOK'
  BY <1>10, <1>11 DEF Ask, closeVars
<1>12. CASE HandlerThrows \/ \E p \in Processes : Kill(p)
  BY <1>10, <1>12 DEF HandlerThrows, Kill, closeVars
<1> QED
  BY <1>1, <1>2, <1>3, <1>4, <1>5, <1>6, <1>7, <1>8, <1>9, <1>11, <1>12
  DEF Next, Run

(* After close() a write recorded before it is committed, whatever timers,  *)
(* tasks, other writes and rollbacks run beside the flush, unless its       *)
(* commit was a task that close() does not await.                           *)
THEOREM CloseFlushesWrites == Spec => []FlushedAtClose
<1>1. Init => NotKeptYet /\ FlushOK
  BY DEF Init, NotKeptYet, FlushOK
<1>2. Shape /\ StagedOK /\ ScheduledOK /\ ReachableOK /\ NotKeptYet /\ FlushOK
        /\ [Next]_vars => NotKeptYet' /\ FlushOK'
  <2>1. ASSUME NotKeptYet, FlushOK, UNCHANGED vars
        PROVE  NotKeptYet' /\ FlushOK'
    BY <2>1, FlushStill DEF NotKeptYet, vars, repoVars, closeVars
  <2> QED
    BY <2>1, NotKeptYetKept, FlushKept
<1>3. FlushOK => FlushedAtClose
  BY DEF FlushOK, FlushedAtClose
<1> QED
  BY <1>1, <1>2, <1>3, ShapeInvariance, StagedInvariance, ScheduledInvariance,
     ReachableInvariance, PTL DEF Spec
=============================================================================
