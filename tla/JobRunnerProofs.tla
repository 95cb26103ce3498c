---------------------------- MODULE JobRunnerProofs ----------------------------
(***************************************************************************)
(* Proofs about JobRunner, for any workers, guests and schedules, and any  *)
(* number of requests, failed runs and exits: type correctness, the        *)
(* distance between a runner's runs, and that a guest whose files are gone *)
(* leaves every process's user index.                                      *)
(***************************************************************************)
EXTENDS JobRunner, TLAPS

Todos == UNION {[S -> Numbers] : S \in SUBSET Guests}

(* The invariant's parts, one fact a line.                                  *)
LEMMA Types ==
  ASSUME IInv
  PROVE  /\ phase \in [Runtimes -> Phases]
         /\ due \in [Runtimes -> 0..Every] /\ age \in [Runtimes -> 0..Every]
         /\ lock \in [Runtimes -> 0..Ttl]
         /\ todo \in [Runtimes -> Todos]
         /\ disk \subseteq Guests
         /\ latest \in [Guests -> Numbers] /\ cutoff \in [Guests -> Numbers]
         /\ known \in [Runtimes -> SUBSET Guests]
         /\ seen \in [Runtimes -> [Guests -> Numbers]]
         /\ up \in [Runtimes -> Seq(Ops)] /\ down \in [Workers -> Seq(Messages)]
         /\ lost \subseteq Guests
         /\ requests \in 0..MaxRequests /\ faults \in 0..MaxFaults
         /\ CountersOK /\ TimersWait /\ RemovalsOK /\ DeltasOK /\ DownIsEmpty
BY DEF IInv, TypeOK, Todos

LEMMA TypesGiveInvariant ==
  ASSUME /\ phase' \in [Runtimes -> Phases]
         /\ due' \in [Runtimes -> 0..Every] /\ age' \in [Runtimes -> 0..Every]
         /\ lock' \in [Runtimes -> 0..Ttl]
         /\ todo' \in [Runtimes -> Todos]
         /\ disk' \subseteq Guests
         /\ latest' \in [Guests -> Numbers] /\ cutoff' \in [Guests -> Numbers]
         /\ known' \in [Runtimes -> SUBSET Guests]
         /\ seen' \in [Runtimes -> [Guests -> Numbers]]
         /\ up' \in [Runtimes -> Seq(Ops)] /\ down' \in [Workers -> Seq(Messages)]
         /\ lost' \subseteq Guests
         /\ requests' \in 0..MaxRequests /\ faults' \in 0..MaxFaults,
         CountersOK', TimersWait', RemovalsOK', DeltasOK', DownIsEmpty'
  PROVE  IInv'
BY DEF IInv, TypeOK, Todos

LEMMA Constants ==
  /\ Primary \in Runtimes /\ Primary \notin Workers /\ Workers \subseteq Runtimes
  /\ Servers \subseteq Runtimes
  /\ \A r \in Runtimes : r \in Workers \/ r = Primary
  /\ Every \in Nat /\ Every > 0 /\ Ttl \in Nat
  /\ MaxRequests \in Nat /\ MaxFaults \in Nat
  /\ 0 \in Numbers /\ 1 \in Numbers
  /\ Numbers = 0..(MaxRequests + 1) /\ Numbers \subseteq Nat
BY ScheduleAssumption DEF Runtimes, Servers, Numbers

(* Runs: no run has nobody to judge, a new one has the guests its runtime   *)
(* lists, and judging takes some away.                                      *)
LEMMA TodoTypes ==
  /\ Nobody \in Todos
  /\ \A S \in SUBSET Guests : \A f \in [Guests -> Numbers] :
       [g \in S |-> f[g]] \in Todos
  /\ \A t \in Todos : \A S : Without(t, S) \in Todos
<1>1. Nobody \in Todos
  <2>1. Nobody \in [{} -> Numbers]
    BY DEF Nobody
  <2> QED
    BY <2>1 DEF Todos
<1>2. ASSUME NEW S \in SUBSET Guests, NEW f \in [Guests -> Numbers]
      PROVE  [g \in S |-> f[g]] \in Todos
  <2>1. [g \in S |-> f[g]] \in [S -> Numbers]
    BY <1>2
  <2> QED
    BY <2>1 DEF Todos
<1>3. ASSUME NEW t \in Todos, NEW S
      PROVE  Without(t, S) \in Todos
  <2>1. PICK T \in SUBSET Guests : t \in [T -> Numbers]
    BY DEF Todos
  <2>2. Without(t, S) \in [T \ S -> Numbers]
    BY <2>1 DEF Without
  <2>3. T \ S \in SUBSET Guests
    OBVIOUS
  <2> QED
    BY <2>2, <2>3 DEF Todos
<1> QED
  BY <1>1, <1>2, <1>3

(* Queues: what sending, dropping and telling do to the elements.           *)
LEMMA AppendOp ==
  ASSUME NEW q \in Seq(Ops), NEW x \in Ops
  PROVE  /\ Append(q, x) \in Seq(Ops)
         /\ \A i \in DOMAIN q : i \in DOMAIN Append(q, x) /\ Append(q, x)[i] = q[i]
         /\ \E i \in DOMAIN Append(q, x) : Append(q, x)[i] = x
<1>1. /\ Append(q, x) \in Seq(Ops) /\ Len(q) \in Nat /\ DOMAIN q = 1..Len(q)
      /\ DOMAIN Append(q, x) = 1..(Len(q) + 1)
      /\ \A i \in DOMAIN q : Append(q, x)[i] = q[i]
      /\ Append(q, x)[Len(q) + 1] = x
  OBVIOUS
<1>2. Len(q) + 1 \in DOMAIN Append(q, x)
  BY <1>1
<1> QED
  BY <1>1, <1>2

LEMMA DropOp ==
  ASSUME NEW q \in Seq(Ops), q # << >>
  PROVE  /\ Tail(q) \in Seq(Ops) /\ Head(q) = q[1] /\ Head(q) \in Ops
         /\ \A i \in DOMAIN q :
              i # 1 => i - 1 \in DOMAIN Tail(q) /\ Tail(q)[i - 1] = q[i]
OBVIOUS

LEMMA DropMessage ==
  ASSUME NEW q \in Seq(Messages), q # << >>
  PROVE  /\ Tail(q) \in Seq(Messages) /\ Head(q) = q[1] /\ Head(q) \in Messages
         /\ DOMAIN q \subseteq Nat /\ 1 \in DOMAIN q
         /\ \A i \in DOMAIN q :
              i # 1 => i - 1 \in DOMAIN Tail(q) /\ Tail(q)[i - 1] = q[i]
         /\ \A i \in DOMAIN Tail(q) : i + 1 \in DOMAIN q /\ Tail(q)[i] = q[i + 1]
OBVIOUS

LEMMA FewMessages ==
  /\ << >> \in Seq(Messages) /\ DOMAIN << >> = {}
  /\ \A x \in Messages :
       /\ <<x>> \in Seq(Messages) /\ 1 \in DOMAIN <<x>>
       /\ \A i \in DOMAIN <<x>> : <<x>>[i] = x
OBVIOUS

LEMMA JoinMessages ==
  ASSUME NEW q \in Seq(Messages), NEW t \in Seq(Messages)
  PROVE  /\ q \o t \in Seq(Messages)
         /\ \A i \in DOMAIN q : i \in DOMAIN (q \o t) /\ (q \o t)[i] = q[i]
         /\ \A i \in DOMAIN t :
              /\ Len(q) + i \in DOMAIN (q \o t) /\ (q \o t)[Len(q) + i] = t[i]
              /\ \A j \in DOMAIN q : j < Len(q) + i
         /\ \A k \in DOMAIN (q \o t) :
              k \in DOMAIN q \/ (k - Len(q) \in DOMAIN t
                                 /\ (q \o t)[k] = t[k - Len(q)])
OBVIOUS

(* A removal that waits in a queue still does when queues only grow.        *)
LEMMA RemovalsStay ==
  ASSUME NEW g, RemovalOnItsWay(g),
         \A r \in Runtimes : \A i \in DOMAIN up[r] :
           i \in DOMAIN up'[r] /\ up'[r][i] = up[r][i]
  PROVE  RemovalOnItsWay(g)'
BY DEF RemovalOnItsWay

LEMMA SendKeeps ==
  ASSUME IInv, NEW r \in Runtimes, NEW m \in Ops, Send(r, m)
  PROVE  /\ up' \in [Runtimes -> Seq(Ops)]
         /\ \A s \in Runtimes : \A i \in DOMAIN up[s] :
              i \in DOMAIN up'[s] /\ up'[s][i] = up[s][i]
         /\ \E i \in DOMAIN up'[r] : up'[r][i] = m
<1>1. up \in [Runtimes -> Seq(Ops)] /\ up' = [up EXCEPT ![r] = Append(up[r], m)]
  BY Types DEF Send
<1>2. up[r] \in Seq(Ops)
  BY <1>1
<1>3. /\ Append(up[r], m) \in Seq(Ops)
      /\ \A i \in DOMAIN up[r] :
           i \in DOMAIN Append(up[r], m) /\ Append(up[r], m)[i] = up[r][i]
      /\ \E i \in DOMAIN Append(up[r], m) : Append(up[r], m)[i] = m
  BY <1>2, AppendOp
<1>4. up'[r] = Append(up[r], m) /\ \A s \in Runtimes : s # r => up'[s] = up[s]
  BY <1>1
<1>5. up' \in [Runtimes -> Seq(Ops)]
  BY <1>1, <1>3
<1>6. \A s \in Runtimes : \A i \in DOMAIN up[s] :
        i \in DOMAIN up'[s] /\ up'[s][i] = up[s][i]
  BY <1>3, <1>4
<1> QED
  BY <1>3, <1>4, <1>5, <1>6
-----------------------------------------------------------------------------
(* Parts of the invariant a step leaves alone.                              *)
LEMMA Unchanged ==
  /\ CountersOK /\ UNCHANGED <<latest, cutoff, requests>> => CountersOK'
  /\ TimersWait /\ UNCHANGED <<phase, due, age, lock>> => TimersWait'
  /\ RemovalsOK /\ UNCHANGED <<known, disk, lost, up>> => RemovalsOK'
  /\ DeltasOK /\ UNCHANGED <<known, down>> => DeltasOK'
  /\ DownIsEmpty /\ UNCHANGED <<phase, known, down>> => DownIsEmpty'
<1>1. CountersOK /\ UNCHANGED <<latest, cutoff, requests>> => CountersOK'
  BY DEF CountersOK
<1>2. TimersWait /\ UNCHANGED <<phase, due, age, lock>> => TimersWait'
  BY DEF TimersWait
<1>3. RemovalsOK /\ UNCHANGED <<known, disk, lost, up>> => RemovalsOK'
  BY DEF RemovalsOK, RemovalOnItsWay
<1>4. DeltasOK /\ UNCHANGED <<known, down>> => DeltasOK'
  BY DEF DeltasOK
<1>5. DownIsEmpty /\ UNCHANGED <<phase, known, down>> => DownIsEmpty'
  BY DEF DownIsEmpty
<1> QED
  BY <1>1, <1>2, <1>3, <1>4, <1>5

(* Time.                                                                    *)
LEMMA TickStep ==
  ASSUME IInv, Tick
  PROVE  IInv'
<1>0. UNCHANGED <<phase, todo, disk, latest, cutoff, known, seen, up, down,
                  lost, requests, faults>>
  BY DEF Tick, diskVars, indexVars, wireVars, boundVars
<1>1. /\ due' \in [Runtimes -> 0..Every] /\ age' \in [Runtimes -> 0..Every]
      /\ lock' \in [Runtimes -> 0..Ttl]
  <2>1. /\ due \in [Runtimes -> 0..Every] /\ age \in [Runtimes -> 0..Every]
        /\ lock \in [Runtimes -> 0..Ttl] /\ Every \in Nat /\ Ttl \in Nat
    BY Types, Constants
  <2>2. due' \in [Runtimes -> 0..Every]
    BY <2>1 DEF Tick, Before
  <2>3. age' \in [Runtimes -> 0..Every]
    BY <2>1 DEF Tick
  <2>4. lock' \in [Runtimes -> 0..Ttl]
    BY <2>1 DEF Tick, Before
  <2> QED
    BY <2>2, <2>3, <2>4
<1>2. TimersWait'
  <2> SUFFICES ASSUME NEW r \in Runtimes
               PROVE  /\ phase'[r] = "scheduled" => due'[r] + age'[r] >= Every
                      /\ phase'[r] \in {"scheduled", "down"} => lock'[r] = 0
    BY DEF TimersWait
  <2>1. /\ due[r] \in 0..Every /\ age[r] \in 0..Every /\ lock[r] \in 0..Ttl
        /\ Every \in Nat /\ Ttl \in Nat
    BY Types, Constants
  <2>2. /\ phase'[r] = phase[r]
        /\ due'[r] = IF due[r] > 0 THEN due[r] - 1 ELSE 0
        /\ age'[r] = IF age[r] < Every THEN age[r] + 1 ELSE Every
        /\ lock'[r] = IF lock[r] > 0 THEN lock[r] - 1 ELSE 0
    BY <1>0 DEF Tick, Before
  <2>3. /\ phase[r] = "scheduled" => due[r] + age[r] >= Every
        /\ phase[r] \in {"scheduled", "down"} => lock[r] = 0
    BY Types DEF TimersWait
  <2> QED
    BY <2>1, <2>2, <2>3
<1>3. CountersOK' /\ RemovalsOK' /\ DeltasOK' /\ DownIsEmpty'
  BY <1>0, Types, Unchanged
<1> QED
  BY <1>0, <1>1, <1>2, <1>3, Types, TypesGiveInvariant

LEMMA GrowOldStep ==
  ASSUME IInv, NEW g \in Guests, GrowOld(g)
  PROVE  IInv'
<1>0. UNCHANGED <<phase, due, age, lock, todo, disk, latest, known, seen, up,
                  down, lost, requests, faults>>
  BY DEF GrowOld, runnerVars, indexVars, wireVars, boundVars
<1>1. /\ cutoff[g] < latest[g] /\ cutoff' = [cutoff EXCEPT ![g] = cutoff[g] + 1]
      /\ latest \in [Guests -> Numbers] /\ cutoff \in [Guests -> Numbers]
      /\ CountersOK
  BY Types DEF GrowOld
<1>2. cutoff' \in [Guests -> Numbers]
  <2>1. cutoff[g] \in Numbers /\ latest[g] \in Numbers
    BY <1>1
  <2>2. cutoff[g] + 1 \in Numbers
    BY <1>1, <2>1, Constants
  <2> QED
    BY <1>1, <2>2
<1>3. CountersOK'
  BY <1>0, <1>1, Constants DEF CountersOK
<1>4. TimersWait' /\ RemovalsOK' /\ DeltasOK' /\ DownIsEmpty'
  BY <1>0, Types, Unchanged
<1> QED
  BY <1>0, <1>2, <1>3, <1>4, Types, TypesGiveInvariant
-----------------------------------------------------------------------------
(* Requests: files are written before the operation is sent.                *)
LEMMA RequestStep ==
  ASSUME IInv, NEW s \in Servers, NEW m \in Ops, Request(s), Send(s, m),
         disk' \subseteq Guests, disk \subseteq disk',
         latest' \in [Guests -> Numbers],
         \A g \in Guests : latest[g] <= latest'[g] /\ latest'[g] <= requests + 2
  PROVE  IInv'
<1>0. /\ UNCHANGED <<phase, due, age, lock, todo, cutoff, known, seen, down,
                     lost, faults>>
      /\ requests < MaxRequests /\ requests' = requests + 1
  BY DEF Request, runnerVars, indexVars
<1>1. requests' \in 0..MaxRequests
  BY <1>0, Types, Constants
<1>2. s \in Runtimes
  BY Constants
<1>3. /\ up' \in [Runtimes -> Seq(Ops)]
      /\ \A r \in Runtimes : \A i \in DOMAIN up[r] :
           i \in DOMAIN up'[r] /\ up'[r][i] = up[r][i]
  BY <1>2, SendKeeps
<1>4. CountersOK'
  <2> SUFFICES ASSUME NEW g \in Guests
               PROVE  cutoff'[g] <= latest'[g] /\ latest'[g] <= requests' + 1
    BY DEF CountersOK
  <2>1. cutoff[g] <= latest[g]
    BY Types DEF CountersOK
  <2>2. /\ cutoff[g] \in Nat /\ latest[g] \in Nat /\ latest'[g] \in Nat
        /\ requests \in Nat
    BY Types, Constants
  <2> QED
    BY <1>0, <2>1, <2>2
<1>5. RemovalsOK'
  <2> SUFFICES ASSUME NEW g \in known'[Primary] \ (disk' \union lost')
               PROVE  RemovalOnItsWay(g)'
    BY DEF RemovalsOK
  <2>1. RemovalOnItsWay(g)
    BY <1>0, Types DEF RemovalsOK
  <2> QED
    BY <1>3, <2>1, RemovalsStay
<1>6. TimersWait' /\ DeltasOK' /\ DownIsEmpty'
  BY <1>0, Types, Unchanged
<1> QED
  BY <1>0, <1>1, <1>3, <1>4, <1>5, <1>6, Types, TypesGiveInvariant

LEMMA MessageTypes ==
  ASSUME NEW kind \in Kinds, NEW g \in Guests, NEW n \in Numbers
  PROVE  /\ Message(kind, g, n) \in Ops
         /\ Message(kind, g, n).kind = kind /\ Message(kind, g, n).guest = g
BY DEF Message, Ops

LEMMA SignUpStep ==
  ASSUME IInv, NEW s \in Servers, NEW g \in Guests, SignUp(s, g)
  PROVE  IInv'
<1>1. /\ Request(s) /\ Send(s, Message("write", g, 1))
      /\ disk' = disk \union {g} /\ latest' = [latest EXCEPT ![g] = 1]
      /\ latest[g] = 0
  BY DEF SignUp
<1>2. Message("write", g, 1) \in Ops
  BY Constants, MessageTypes DEF Kinds
<1>3. latest' \in [Guests -> Numbers]
  BY <1>1, Types, Constants
<1>4. \A h \in Guests : latest[h] <= latest'[h] /\ latest'[h] <= requests + 2
  <2> SUFFICES ASSUME NEW h \in Guests
               PROVE  latest[h] <= latest'[h] /\ latest'[h] <= requests + 2
    OBVIOUS
  <2>1. latest \in [Guests -> Numbers] /\ latest[h] <= requests + 1
    BY Types DEF CountersOK
  <2>2. latest[h] \in Nat /\ requests \in Nat
    BY <2>1, Types, Constants
  <2>3. latest'[h] = IF h = g THEN 1 ELSE latest[h]
    BY <1>1, <2>1
  <2> QED
    BY <1>1, <2>1, <2>2, <2>3
<1>5. disk' \subseteq Guests /\ disk \subseteq disk'
  BY <1>1, Types
<1> QED
  BY <1>1, <1>2, <1>3, <1>4, <1>5, RequestStep

LEMMA WriteStep ==
  ASSUME IInv, NEW s \in Servers, NEW g \in Guests, Write(s, g)
  PROVE  IInv'
<1>1. /\ Request(s) /\ Send(s, Message("write", g, latest[g] + 1))
      /\ disk' = disk /\ latest' = [latest EXCEPT ![g] = latest[g] + 1]
      /\ requests < MaxRequests
  BY DEF Write, Request
<1>2. latest \in [Guests -> Numbers] /\ CountersOK /\ requests \in 0..MaxRequests
  BY Types
<1>3. latest[g] + 1 \in Numbers
  BY <1>1, <1>2, Constants DEF CountersOK
<1>4. Message("write", g, latest[g] + 1) \in Ops
  BY <1>3, MessageTypes DEF Kinds
<1>5. latest' \in [Guests -> Numbers]
  BY <1>1, <1>2, <1>3
<1>6. \A h \in Guests : latest[h] <= latest'[h] /\ latest'[h] <= requests + 2
  BY <1>1, <1>2, Constants DEF CountersOK
<1>7. disk' \subseteq Guests /\ disk \subseteq disk'
  BY <1>1, Types
<1> QED
  BY <1>1, <1>4, <1>5, <1>6, <1>7, RequestStep

LEMMA VisitStep ==
  ASSUME IInv, NEW s \in Servers, NEW g \in Guests, Visit(s, g)
  PROVE  IInv'
<1>1. /\ Request(s) /\ UNCHANGED <<disk, latest>>
      /\ \E kind \in {"auth", "files"} : Send(s, Message(kind, g, 1))
  BY DEF Visit
<1>2. PICK kind \in Kinds : Send(s, Message(kind, g, 1))
  BY <1>1 DEF Kinds
<1>3. Message(kind, g, 1) \in Ops
  BY Constants, MessageTypes
<1>4. latest' \in [Guests -> Numbers]
  BY <1>1, Types
<1>5. \A h \in Guests : latest[h] <= latest'[h] /\ latest'[h] <= requests + 2
  <2> SUFFICES ASSUME NEW h \in Guests
               PROVE  latest[h] <= latest'[h] /\ latest'[h] <= requests + 2
    OBVIOUS
  <2>1. latest \in [Guests -> Numbers] /\ latest[h] <= requests + 1
    BY Types DEF CountersOK
  <2>2. latest[h] \in Nat /\ requests \in Nat
    BY <2>1, Types, Constants
  <2>3. latest'[h] = latest[h]
    BY <1>1
  <2> QED
    BY <1>1, <2>1, <2>2, <2>3
<1>6. disk' \subseteq Guests /\ disk \subseteq disk'
  BY <1>1, Types
<1> QED
  BY <1>1, <1>2, <1>3, <1>4, <1>5, <1>6, RequestStep
-----------------------------------------------------------------------------
(* The primary's queue.                                                     *)

(* What running an operation does to the primary's index.                   *)
LEMMA IndexTypes ==
  ASSUME IInv, NEW op \in Ops, Index(op)
  PROVE  /\ known' \in [Runtimes -> SUBSET Guests]
         /\ seen' \in [Runtimes -> [Guests -> Numbers]]
         /\ \A w \in Workers : known'[w] = known[w] /\ seen'[w] = seen[w]
         /\ \A g \in Guests : g # op.guest =>
              (g \in known'[Primary]) = (g \in known[Primary])
         /\ op.guest \in known'[Primary] =>
              op.guest \in disk \/ (op.kind = "write" /\ known' = known)
<1>0. /\ known \in [Runtimes -> SUBSET Guests] /\ disk \subseteq Guests
      /\ seen \in [Runtimes -> [Guests -> Numbers]]
      /\ latest \in [Guests -> Numbers]
      /\ op.guest \in Guests /\ op.change \in Numbers
  BY Types DEF Ops
<1>1. CASE /\ op.guest \in disk
           /\ known' = [known EXCEPT ![Primary] = @ \union {op.guest}]
           /\ \E n \in Newest(seen[Primary][op.guest], op.change)..latest[op.guest] :
                seen' = [seen EXCEPT ![Primary][op.guest] = n]
  <2>1. PICK n \in Newest(seen[Primary][op.guest], op.change)..latest[op.guest] :
          seen' = [seen EXCEPT ![Primary][op.guest] = n]
    BY <1>1
  <2>2. n \in Numbers
    <3>1. /\ seen[Primary][op.guest] \in Numbers /\ latest[op.guest] \in Numbers
          /\ op.change \in Numbers
      BY <1>0, Constants
    <3>2. Newest(seen[Primary][op.guest], op.change) \in Nat
      BY <3>1, Constants DEF Newest
    <3> QED
      BY <3>1, <3>2, Constants
  <2> QED
    BY <1>0, <1>1, <2>1, <2>2, Constants
<1>2. CASE /\ op.guest \notin disk /\ op.kind # "write"
           /\ known' = [known EXCEPT ![Primary] = @ \ {op.guest}]
           /\ seen' = [seen EXCEPT ![Primary][op.guest] = 0]
  BY <1>0, <1>2, Constants
<1>3. CASE /\ op.guest \notin disk /\ op.kind = "write"
           /\ UNCHANGED <<known, seen>>
  BY <1>0, <1>3, Constants
<1> QED
  BY <1>1, <1>2, <1>3 DEF Index

(* What a worker is told: that a guest who was listed no longer is, and of  *)
(* no guest that it is listed who is not.                                   *)
LEMMA News ==
  ASSUME IInv, NEW op \in Ops, Index(op), NEW r \in Runtimes, NEW w \in Workers,
         NEW t, t = Tell(r, w, op.guest) \o Reply(r, w, op)
  PROVE  /\ t \in Seq(Messages)
         /\ op.guest \in known[Primary] \ known'[Primary] =>
              \E i \in DOMAIN t : Is(t[i], "unlisted", op.guest)
         /\ \A i \in DOMAIN t : \A g :
              Is(t[i], "listed", g) => g \in known'[Primary]
<1> DEFINE on  == Message("listed", op.guest, 0)
           off == Message("unlisted", op.guest, 0)
           a == Message(op.kind, op.guest, seen'[Primary][op.guest])
<1>1. op.guest \in Guests /\ op.kind \in Kinds
  BY DEF Ops
<1>2. on \in Messages /\ on.kind = "listed" /\ on.guest = op.guest
  BY <1>1, Constants DEF Message, Messages, Deltas
<1>3. off \in Messages /\ Is(off, "unlisted", op.guest) /\ off.kind # "listed"
  BY <1>1, Constants DEF Message, Messages, Deltas, Is
<1>4. a \in Messages /\ a.kind # "listed"
  <2>1. seen'[Primary][op.guest] \in Numbers
    BY <1>1, IndexTypes, Constants
  <2> QED
    BY <1>1, <2>1 DEF Message, Messages, Kinds
<1>5. \/ op.guest \in known'[Primary] \ known[Primary] /\ Change(op.guest) = <<on>>
      \/ op.guest \in known[Primary] \ known'[Primary] /\ Change(op.guest) = <<off>>
      \/ op.guest \notin known[Primary] \ known'[Primary] /\ Change(op.guest) = << >>
  BY DEF Change
<1>6. Reply(r, w, op) = << >> \/ Reply(r, w, op) = <<a>>
  BY DEF Reply
<1> HIDE DEF on, off, a
<1>7. /\ Reply(r, w, op) \in Seq(Messages)
      /\ \A i \in DOMAIN Reply(r, w, op) : Reply(r, w, op)[i].kind # "listed"
  BY <1>4, <1>6, FewMessages
<1>8. /\ Change(op.guest) \in Seq(Messages)
      /\ op.guest \in known[Primary] \ known'[Primary] =>
           \E i \in DOMAIN Change(op.guest) :
             Is(Change(op.guest)[i], "unlisted", op.guest)
      /\ \A i \in DOMAIN Change(op.guest) : \A g :
           Is(Change(op.guest)[i], "listed", g) => g \in known'[Primary]
  <2>1. CASE op.guest \in known'[Primary] \ known[Primary] /\ Change(op.guest) = <<on>>
    BY <1>2, <2>1, FewMessages DEF Is
  <2>2. CASE op.guest \in known[Primary] \ known'[Primary] /\ Change(op.guest) = <<off>>
    BY <1>3, <2>2, FewMessages DEF Is
  <2>3. CASE /\ op.guest \notin known[Primary] \ known'[Primary]
             /\ Change(op.guest) = << >>
    BY <2>3, FewMessages
  <2> QED
    BY <1>5, <2>1, <2>2, <2>3
<1> DEFINE c == Change(op.guest)
           y == Reply(r, w, op)
<1>9. t = c \o y
  BY DEF Tell
<1> HIDE DEF c, y
<1>10. /\ t \in Seq(Messages)
       /\ \A i \in DOMAIN c : i \in DOMAIN t /\ t[i] = c[i]
       /\ \A k \in DOMAIN t :
            (k \in DOMAIN c /\ t[k] = c[k])
              \/ (k - Len(c) \in DOMAIN y /\ t[k] = y[k - Len(c)])
  BY <1>7, <1>8, <1>9, JoinMessages DEF c, y
<1> QED
  <2>1. op.guest \in known[Primary] \ known'[Primary] =>
          \E i \in DOMAIN t : Is(t[i], "unlisted", op.guest)
    BY <1>8, <1>10 DEF c
  <2>2. ASSUME NEW k \in DOMAIN t, NEW g, Is(t[k], "listed", g)
        PROVE  g \in known'[Primary]
    <3>1. CASE k \in DOMAIN c /\ t[k] = c[k]
      BY <1>8, <2>2, <3>1 DEF c
    <3>2. CASE k - Len(c) \in DOMAIN y /\ t[k] = y[k - Len(c)]
      BY <1>7, <2>2, <3>2 DEF y, Is
    <3> QED
      BY <1>10, <3>1, <3>2
  <2> QED
    BY <1>10, <2>1, <2>2

LEMMA HandleStep ==
  ASSUME IInv, NEW r \in Runtimes, Handle(r)
  PROVE  IInv'
<1> DEFINE op == Head(up[r])
<1>0. /\ UNCHANGED <<due, age, lock, todo, disk, latest, cutoff, lost, requests,
                     faults>>
      /\ up[r] # << >> /\ up' = [up EXCEPT ![r] = Tail(up[r])]
      /\ Index(op)
      /\ down' = [w \in Workers |->
                    IF phase[w] = "down" THEN << >>
                    ELSE down[w] \o (Tell(r, w, op.guest) \o Reply(r, w, op))]
      /\ phase' = IF r = Primary /\ op.kind = "remove"
                  THEN [phase EXCEPT ![r] = "running"] ELSE phase
  BY DEF Handle, diskVars, boundVars
<1>1. /\ up[r] \in Seq(Ops) /\ up \in [Runtimes -> Seq(Ops)]
      /\ down \in [Workers -> Seq(Messages)] /\ phase \in [Runtimes -> Phases]
  BY Types
<1>2. /\ Tail(up[r]) \in Seq(Ops) /\ op = up[r][1] /\ op \in Ops
      /\ \A i \in DOMAIN up[r] :
           i # 1 => i - 1 \in DOMAIN Tail(up[r]) /\ Tail(up[r])[i - 1] = up[r][i]
  BY <1>0, <1>1, DropOp
<1> HIDE DEF op
<1>3. /\ known' \in [Runtimes -> SUBSET Guests]
      /\ seen' \in [Runtimes -> [Guests -> Numbers]]
      /\ \A w \in Workers : known'[w] = known[w]
      /\ \A g \in Guests : g # op.guest =>
           (g \in known'[Primary]) = (g \in known[Primary])
      /\ op.guest \in known'[Primary] =>
           op.guest \in disk \/ (op.kind = "write" /\ known' = known)
  BY <1>0, <1>2, IndexTypes
<1>4. up' \in [Runtimes -> Seq(Ops)]
  BY <1>0, <1>1, <1>2
<1>5. phase' \in [Runtimes -> Phases] /\ phase'[Primary] # "down"
  BY <1>0, <1>1, Types, Constants DEF Phases, DownIsEmpty
<1>6. \A w \in Workers : phase'[w] = phase[w]
  BY <1>0, <1>1, Constants
<1>7. ASSUME NEW w \in Workers
      PROVE  \/ phase[w] = "down" /\ down'[w] = << >>
             \/ \E t \in Seq(Messages) :
                  /\ down'[w] = down[w] \o t
                  /\ op.guest \in known[Primary] \ known'[Primary] =>
                       \E i \in DOMAIN t : Is(t[i], "unlisted", op.guest)
                  /\ \A i \in DOMAIN t : \A g :
                       Is(t[i], "listed", g) => g \in known'[Primary]
  <2>1. CASE phase[w] = "down"
    BY <1>0, <2>1
  <2>2. CASE phase[w] # "down"
    <3> DEFINE t == Tell(r, w, op.guest) \o Reply(r, w, op)
    <3>1. down'[w] = down[w] \o t
      BY <1>0, <2>2
    <3>2. /\ t \in Seq(Messages)
          /\ op.guest \in known[Primary] \ known'[Primary] =>
               \E i \in DOMAIN t : Is(t[i], "unlisted", op.guest)
          /\ \A i \in DOMAIN t : \A g :
               Is(t[i], "listed", g) => g \in known'[Primary]
      BY <1>0, <1>2, News
    <3> QED
      BY <3>1, <3>2
  <2> QED
    BY <2>1, <2>2
<1>8. down' \in [Workers -> Seq(Messages)]
  <2>1. ASSUME NEW w \in Workers
        PROVE  down'[w] \in Seq(Messages)
    <3>1. CASE phase[w] = "down" /\ down'[w] = << >>
      BY <3>1
    <3>2. CASE \E t \in Seq(Messages) : down'[w] = down[w] \o t
      <4>1. PICK t \in Seq(Messages) : down'[w] = down[w] \o t
        BY <3>2
      <4>2. down[w] \in Seq(Messages)
        BY <1>1
      <4> QED
        BY <4>1, <4>2, JoinMessages
    <3> QED
      BY <1>7, <3>1, <3>2
  <2> QED
    BY <1>0, <2>1
<1>9. RemovalsOK'
  <2> SUFFICES ASSUME NEW g \in known'[Primary], g \notin disk, g \notin lost
               PROVE  RemovalOnItsWay(g)'
    BY <1>0 DEF RemovalsOK
  <2>1. g \in Guests /\ g \in known[Primary]
    BY <1>3, Constants
  <2>2. RemovalOnItsWay(g)
    BY <2>1, Types DEF RemovalsOK
  <2>3. PICK s \in Runtimes : \E i \in DOMAIN up[s] : Is(up[s][i], "remove", g)
    BY <2>2 DEF RemovalOnItsWay
  <2>4. PICK i \in DOMAIN up[s] : Is(up[s][i], "remove", g)
    BY <2>3
  <2>5. ~Is(op, "remove", g)
    BY <1>3 DEF Is
  <2>6. CASE s = r
    <3>1. i # 1
      BY <1>2, <2>4, <2>5, <2>6
    <3>2. i - 1 \in DOMAIN up'[r] /\ Is(up'[r][i - 1], "remove", g)
      BY <1>0, <1>1, <1>2, <2>4, <2>6, <3>1
    <3> QED
      BY <3>2 DEF RemovalOnItsWay
  <2>7. CASE s # r
    <3>1. up'[s] = up[s]
      BY <1>0, <1>1, <2>7
    <3> QED
      BY <2>4, <3>1 DEF RemovalOnItsWay
  <2> QED
    BY <2>6, <2>7
<1>10. DownIsEmpty'
  BY <1>0, <1>3, <1>5, <1>6, Types DEF DownIsEmpty
<1>11. DeltasOK'
  <2> SUFFICES ASSUME NEW w \in Workers, NEW g \in Guests, g \notin known'[Primary]
               PROVE  /\ g \in known'[w] =>
                           \E i \in DOMAIN down'[w] : Is(down'[w][i], "unlisted", g)
                      /\ \A i \in DOMAIN down'[w] :
                           Is(down'[w][i], "listed", g) =>
                             \E j \in DOMAIN down'[w] :
                               i < j /\ Is(down'[w][j], "unlisted", g)
    BY DEF DeltasOK
  <2>1. CASE phase[w] = "down"
    <3>1. down'[w] = << >> /\ known'[w] = {}
      BY <1>0, <1>3, <2>1, Types DEF DownIsEmpty
    <3> QED
      BY <3>1
  <2>2. CASE phase[w] # "down"
    <3>1. PICK t \in Seq(Messages) :
            /\ down'[w] = down[w] \o t
            /\ op.guest \in known[Primary] \ known'[Primary] =>
                 \E i \in DOMAIN t : Is(t[i], "unlisted", op.guest)
            /\ \A i \in DOMAIN t : \A h :
                 Is(t[i], "listed", h) => h \in known'[Primary]
      BY <1>7, <2>2
    <3>2. down[w] \in Seq(Messages) /\ known'[w] = known[w]
      BY <1>1, <1>3
    <3>3. /\ \A i \in DOMAIN down[w] :
               i \in DOMAIN down'[w] /\ down'[w][i] = down[w][i]
          /\ \A i \in DOMAIN t :
               /\ Len(down[w]) + i \in DOMAIN down'[w]
               /\ down'[w][Len(down[w]) + i] = t[i]
               /\ \A j \in DOMAIN down[w] : j < Len(down[w]) + i
          /\ \A k \in DOMAIN down'[w] :
               k \in DOMAIN down[w] \/ (k - Len(down[w]) \in DOMAIN t
                                        /\ down'[w][k] = t[k - Len(down[w])])
      BY <3>1, <3>2, JoinMessages, SMTT(30)
    <3>4. \A k \in DOMAIN down'[w] : Is(down'[w][k], "listed", g) =>
            k \in DOMAIN down[w] /\ Is(down[w][k], "listed", g)
      BY <3>1, <3>3
    <3>5. CASE g \in known[Primary]
      <4>1. g = op.guest
        BY <1>3, <3>5
      <4>2. PICK i \in DOMAIN t : Is(t[i], "unlisted", g)
        BY <3>1, <3>5, <4>1
      <4>3. /\ Len(down[w]) + i \in DOMAIN down'[w]
            /\ Is(down'[w][Len(down[w]) + i], "unlisted", g)
            /\ \A j \in DOMAIN down[w] : j < Len(down[w]) + i
        BY <3>3, <4>2
      <4> QED
        BY <3>4, <4>3
    <3>6. CASE g \notin known[Primary]
      <4>1. /\ g \in known[w] =>
                 \E i \in DOMAIN down[w] : Is(down[w][i], "unlisted", g)
            /\ \A i \in DOMAIN down[w] :
                 Is(down[w][i], "listed", g) =>
                   \E j \in DOMAIN down[w] : i < j /\ Is(down[w][j], "unlisted", g)
        BY <3>6, Types DEF DeltasOK
      <4> QED
        BY <3>2, <3>3, <3>4, <4>1
    <3> QED
      BY <3>5, <3>6
  <2> QED
    BY <2>1, <2>2
<1>12. TimersWait'
  BY <1>0, <1>1, Types DEF TimersWait
<1>13. CountersOK'
  BY <1>0, Types, Unchanged
<1> QED
  BY <1>0, <1>3, <1>4, <1>5, <1>8, <1>9, <1>10, <1>11, <1>12, <1>13, Types,
     TypesGiveInvariant

(* A worker applies a delta or takes an answer.                             *)
LEMMA ReceiveStep ==
  ASSUME IInv, NEW w \in Workers, Receive(w)
  PROVE  IInv'
<1> DEFINE m == Head(down[w])
<1>0. /\ UNCHANGED <<due, age, lock, todo, disk, latest, cutoff, up, lost,
                     requests, faults>>
      /\ down[w] # << >> /\ down' = [down EXCEPT ![w] = Tail(down[w])]
      /\ \/ /\ m.kind \in Deltas
            /\ known' = [known EXCEPT ![w] = IF m.kind = "listed"
                                             THEN known[w] \union {m.guest}
                                             ELSE known[w] \ {m.guest}]
            /\ UNCHANGED <<seen, phase>>
         \/ /\ m.kind \in Kinds
            /\ seen' = [seen EXCEPT ![w][m.guest] = m.change]
            /\ phase' = IF m.kind = "remove" THEN [phase EXCEPT ![w] = "running"]
                        ELSE phase
            /\ UNCHANGED known
  BY DEF Receive, diskVars, boundVars
<1>1. /\ down \in [Workers -> Seq(Messages)] /\ down[w] \in Seq(Messages)
      /\ phase \in [Runtimes -> Phases] /\ known \in [Runtimes -> SUBSET Guests]
      /\ seen \in [Runtimes -> [Guests -> Numbers]]
      /\ w \in Runtimes /\ w # Primary /\ Workers \subseteq Runtimes
  BY Types, Constants
<1>2. /\ Tail(down[w]) \in Seq(Messages) /\ m = down[w][1] /\ m \in Messages
      /\ DOMAIN down[w] \subseteq Nat /\ 1 \in DOMAIN down[w]
      /\ \A i \in DOMAIN down[w] : i # 1 =>
           i - 1 \in DOMAIN Tail(down[w]) /\ Tail(down[w])[i - 1] = down[w][i]
      /\ \A i \in DOMAIN Tail(down[w]) :
           i + 1 \in DOMAIN down[w] /\ Tail(down[w])[i] = down[w][i + 1]
      /\ DOMAIN Tail(down[w]) \subseteq Nat
  BY <1>0, <1>1, DropMessage
<1> HIDE DEF m
<1>3. m.guest \in Guests /\ m.change \in Numbers
  BY <1>2 DEF Messages
<1>4. down' \in [Workers -> Seq(Messages)]
  BY <1>0, <1>1, <1>2
<1>5. /\ known' \in [Runtimes -> SUBSET Guests]
      /\ seen' \in [Runtimes -> [Guests -> Numbers]]
      /\ phase' \in [Runtimes -> Phases]
      /\ \A r \in Runtimes : r # w => known'[r] = known[r] /\ phase'[r] = phase[r]
      /\ phase'[w] = phase[w] \/ phase'[w] = "running"
  <2>1. CASE m.kind \in Deltas
    <3>1. Deltas \intersect Kinds = {}
      BY DEF Deltas, Kinds
    <3>2. UNCHANGED <<seen, phase>>
      BY <1>0, <2>1, <3>1
    <3>3. PICK S \in SUBSET Guests : known' = [known EXCEPT ![w] = S]
      <4>1. \/ known' = [known EXCEPT ![w] = known[w] \union {m.guest}]
            \/ known' = [known EXCEPT ![w] = known[w] \ {m.guest}]
        BY <1>0, <2>1, <3>1
      <4>2. known[w] \union {m.guest} \in SUBSET Guests
        BY <1>1, <1>3
      <4>3. known[w] \ {m.guest} \in SUBSET Guests
        BY <1>1
      <4> QED
        BY <4>1, <4>2, <4>3
    <3> QED
      BY <1>1, <3>2, <3>3
  <2>2. CASE m.kind \in Kinds
    <3>1. Deltas \intersect Kinds = {} /\ "running" \in Phases
      BY DEF Deltas, Kinds, Phases
    <3>2. /\ seen' = [seen EXCEPT ![w][m.guest] = m.change] /\ known' = known
          /\ phase' = [phase EXCEPT ![w] = "running"] \/ phase' = phase
      BY <1>0, <2>2, <3>1
    <3>3. seen' \in [Runtimes -> [Guests -> Numbers]]
      BY <1>1, <1>3, <3>2
    <3> QED
      BY <1>1, <3>1, <3>2, <3>3
  <2> QED
    BY <1>0, <2>1, <2>2
<1>6. phase[w] # "down"
  BY <1>0, Types DEF DownIsEmpty
<1>7. DeltasOK'
  <2> SUFFICES ASSUME NEW v \in Workers, NEW g \in Guests, g \notin known'[Primary]
               PROVE  /\ g \in known'[v] =>
                           \E i \in DOMAIN down'[v] : Is(down'[v][i], "unlisted", g)
                      /\ \A i \in DOMAIN down'[v] :
                           Is(down'[v][i], "listed", g) =>
                             \E j \in DOMAIN down'[v] :
                               i < j /\ Is(down'[v][j], "unlisted", g)
    BY DEF DeltasOK
  <2>1. g \notin known[Primary]
    BY <1>1, <1>5, Constants
  <2>2. /\ g \in known[v] =>
             \E i \in DOMAIN down[v] : Is(down[v][i], "unlisted", g)
        /\ \A i \in DOMAIN down[v] :
             Is(down[v][i], "listed", g) =>
               \E j \in DOMAIN down[v] : i < j /\ Is(down[v][j], "unlisted", g)
    BY <2>1, Types DEF DeltasOK
  <2>3. CASE v # w
    BY <1>0, <1>1, <1>5, <2>2, <2>3
  <2>4. CASE v = w
    <3>1. down'[w] = Tail(down[w])
      BY <1>0, <1>1
    <3>2. ASSUME NEW i \in DOMAIN down'[w], Is(down'[w][i], "listed", g)
          PROVE  \E j \in DOMAIN down'[w] : i < j /\ Is(down'[w][j], "unlisted", g)
      <4>1. i + 1 \in DOMAIN down[w] /\ Is(down[w][i + 1], "listed", g) /\ i \in Nat
        BY <1>2, <3>1, <3>2
      <4>2. PICK j \in DOMAIN down[w] : i + 1 < j /\ Is(down[w][j], "unlisted", g)
        BY <2>2, <2>4, <4>1
      <4>3. j \in Nat /\ j # 1 /\ i < j - 1
        BY <1>2, <4>1, <4>2
      <4> QED
        BY <1>2, <3>1, <4>2, <4>3
    <3>3. ASSUME g \in known'[w]
          PROVE  \E i \in DOMAIN down'[w] : Is(down'[w][i], "unlisted", g)
      <4>1. CASE Is(m, "listed", g)
        <5>1. PICK j \in DOMAIN down[w] : 1 < j /\ Is(down[w][j], "unlisted", g)
          BY <1>2, <2>2, <2>4, <4>1
        <5>2. j # 1
          BY <1>2, <5>1
        <5> QED
          BY <1>2, <3>1, <5>1, <5>2
      <4>2. CASE ~Is(m, "listed", g)
        <5>1. g \in known[w] /\ ~Is(m, "unlisted", g)
          <6>1. Deltas \intersect Kinds = {} /\ "unlisted" \notin Kinds
            BY DEF Deltas, Kinds
          <6> QED
            BY <1>0, <1>1, <3>3, <4>2, <6>1 DEF Is
        <5>2. PICK i \in DOMAIN down[w] : Is(down[w][i], "unlisted", g)
          BY <2>2, <2>4, <5>1
        <5>3. i # 1
          BY <1>2, <5>1, <5>2
        <5> QED
          BY <1>2, <3>1, <5>2, <5>3
      <4> QED
        BY <4>1, <4>2
    <3> QED
      BY <2>4, <3>2, <3>3
  <2> QED
    BY <2>3, <2>4
<1>8. DownIsEmpty'
  <2>1. phase'[w] # "down" /\ phase'[Primary] # "down"
    BY <1>1, <1>5, <1>6, Types, Constants DEF DownIsEmpty
  <2>2. ASSUME NEW v \in Workers, phase'[v] = "down"
        PROVE  down'[v] = << >> /\ known'[v] = {}
    <3>1. v # w /\ v \in Runtimes
      BY <1>1, <2>1, <2>2
    <3>2. phase[v] = "down" /\ known'[v] = known[v] /\ down'[v] = down[v]
      BY <1>0, <1>1, <1>5, <2>2, <3>1
    <3> QED
      BY <3>2, Types DEF DownIsEmpty
  <2> QED
    BY <2>1, <2>2 DEF DownIsEmpty
<1>9. RemovalsOK'
  BY <1>0, <1>1, <1>5, Types, Constants DEF RemovalsOK, RemovalOnItsWay
<1>10. TimersWait'
  BY <1>0, <1>5, Types DEF TimersWait
<1>11. CountersOK'
  BY <1>0, Types, Unchanged
<1> QED
  BY <1>0, <1>4, <1>5, <1>7, <1>8, <1>9, <1>10, <1>11, Types, TypesGiveInvariant
-----------------------------------------------------------------------------
(* The runner.                                                              *)
LEMMA FireStep ==
  ASSUME IInv, NEW r \in Runtimes, Fire(r)
  PROVE  IInv'
<1>0. /\ UNCHANGED <<disk, latest, cutoff, known, seen, up, down, lost, requests,
                     faults>>
      /\ phase[r] = "scheduled" /\ age' = [age EXCEPT ![r] = 0]
  BY DEF Fire, diskVars, indexVars, wireVars, boundVars
<1>1. /\ phase \in [Runtimes -> Phases] /\ age \in [Runtimes -> 0..Every]
      /\ lock \in [Runtimes -> 0..Ttl] /\ due \in [Runtimes -> 0..Every]
      /\ todo \in [Runtimes -> Todos] /\ known[r] \in SUBSET Guests
      /\ cutoff \in [Guests -> Numbers] /\ Every \in Nat /\ Ttl \in Nat
  BY Types, Constants
<1>2. lock[r] = 0
  BY <1>0, Types DEF TimersWait
<1>3. /\ phase' = [phase EXCEPT ![r] = "running"]
      /\ lock' = [lock EXCEPT ![r] = Ttl]
      /\ todo' = [todo EXCEPT ![r] = [g \in known[r] |-> cutoff[g]]]
      /\ due' = due
  BY <1>2 DEF Fire
<1>4. phase' \in [Runtimes -> Phases]
  BY <1>1, <1>3 DEF Phases
<1>5. age' \in [Runtimes -> 0..Every] /\ lock' \in [Runtimes -> 0..Ttl]
  BY <1>0, <1>1, <1>3
<1>6. todo' \in [Runtimes -> Todos]
  <2>1. [g \in known[r] |-> cutoff[g]] \in Todos
    BY <1>1, TodoTypes
  <2> QED
    BY <1>1, <1>3, <2>1
<1>7. TimersWait'
  <2> SUFFICES ASSUME NEW s \in Runtimes
               PROVE  /\ phase'[s] = "scheduled" => due'[s] + age'[s] >= Every
                      /\ phase'[s] \in {"scheduled", "down"} => lock'[s] = 0
    BY DEF TimersWait
  <2>1. CASE s = r
    BY <1>1, <1>3, <2>1
  <2>2. CASE s # r
    BY <1>0, <1>1, <1>3, <2>2, Types DEF TimersWait
  <2> QED
    BY <2>1, <2>2
<1>8. DownIsEmpty'
  BY <1>0, <1>1, <1>3, Types, Constants DEF DownIsEmpty
<1>9. CountersOK' /\ RemovalsOK' /\ DeltasOK'
  BY <1>0, Types, Unchanged
<1> QED
  BY <1>0, <1>3, <1>4, <1>5, <1>6, <1>7, <1>8, <1>9, Types, TypesGiveInvariant

LEMMA RemoveStep ==
  ASSUME IInv, NEW r \in Runtimes, NEW g \in Guests, Remove(r, g)
  PROVE  IInv'
<1>0. /\ UNCHANGED <<due, age, lock, latest, cutoff, known, seen, down, lost,
                     requests, faults>>
      /\ phase[r] = "running"
      /\ \E S : todo' = [todo EXCEPT ![r] = Without(todo[r], S)]
      /\ \/ disk' = disk \ {g} /\ Commit(r, g)
         \/ UNCHANGED <<disk, phase, up>>
  BY DEF Remove, indexVars, boundVars
<1>1. todo' \in [Runtimes -> Todos]
  <2>1. PICK S : todo' = [todo EXCEPT ![r] = Without(todo[r], S)]
    BY <1>0
  <2>2. todo \in [Runtimes -> Todos]
    BY Types
  <2>3. Without(todo[r], S) \in Todos
    BY <2>2, TodoTypes
  <2> QED
    BY <2>1, <2>2, <2>3
<1>2. CASE disk' = disk \ {g} /\ Commit(r, g)
  <2>1. /\ phase' = [phase EXCEPT ![r] = "committing"]
        /\ Send(r, Message("remove", g, 0))
    BY <1>2 DEF Commit
  <2>2. /\ Message("remove", g, 0) \in Ops
        /\ Message("remove", g, 0).kind = "remove"
        /\ Message("remove", g, 0).guest = g
    BY Constants, MessageTypes DEF Kinds
  <2>3. /\ up' \in [Runtimes -> Seq(Ops)]
        /\ \A s \in Runtimes : \A i \in DOMAIN up[s] :
             i \in DOMAIN up'[s] /\ up'[s][i] = up[s][i]
        /\ \E i \in DOMAIN up'[r] : up'[r][i] = Message("remove", g, 0)
    BY <2>1, <2>2, SendKeeps
  <2>4. phase \in [Runtimes -> Phases] /\ phase' \in [Runtimes -> Phases]
    BY <2>1, Types DEF Phases
  <2>5. RemovalsOK'
    <3> SUFFICES ASSUME NEW h \in known'[Primary] \ (disk' \union lost')
                 PROVE  RemovalOnItsWay(h)'
      BY DEF RemovalsOK
    <3>1. CASE h = g
      BY <2>2, <2>3, <3>1 DEF RemovalOnItsWay, Is
    <3>2. CASE h # g
      <4>1. RemovalOnItsWay(h)
        BY <1>0, <1>2, <3>2, Types DEF RemovalsOK
      <4> QED
        BY <2>3, <4>1, RemovalsStay
    <3> QED
      BY <3>1, <3>2
  <2>6. TimersWait'
    BY <1>0, <2>1, <2>4, Types DEF TimersWait
  <2>7. DownIsEmpty'
    BY <1>0, <2>1, <2>4, Types, Constants DEF DownIsEmpty
  <2>8. CountersOK' /\ DeltasOK'
    BY <1>0, Types, Unchanged
  <2>9. disk' \subseteq Guests
    BY <1>2, Types
  <2> QED
    BY <1>0, <1>1, <2>3, <2>4, <2>5, <2>6, <2>7, <2>8, <2>9, Types,
       TypesGiveInvariant
<1>3. CASE UNCHANGED <<disk, phase, up>>
  <2>1. CountersOK' /\ TimersWait' /\ RemovalsOK' /\ DeltasOK' /\ DownIsEmpty'
    BY <1>0, <1>3, Types, Unchanged
  <2> QED
    BY <1>0, <1>1, <1>3, <2>1, Types, TypesGiveInvariant
<1> QED
  BY <1>0, <1>2, <1>3

(* However a run ends, it leaves the lock and waits for its time.           *)
LEMMA EndRunStep ==
  ASSUME IInv, NEW r \in Runtimes, EndRun(r), faults' \in 0..MaxFaults
  PROVE  IInv'
<1>0. /\ UNCHANGED <<age, disk, latest, cutoff, known, seen, up, down, lost,
                     requests>>
      /\ phase' = [phase EXCEPT ![r] = "scheduled"]
      /\ lock' = [lock EXCEPT ![r] = 0] /\ todo' = [todo EXCEPT ![r] = Nobody]
      /\ due' = [due EXCEPT ![r] = Every - age[r]]
  BY DEF EndRun, Reschedule, diskVars, indexVars, wireVars
<1>1. /\ phase \in [Runtimes -> Phases] /\ age \in [Runtimes -> 0..Every]
      /\ lock \in [Runtimes -> 0..Ttl] /\ due \in [Runtimes -> 0..Every]
      /\ todo \in [Runtimes -> Todos] /\ Every \in Nat /\ Ttl \in Nat
  BY Types, Constants
<1>2. phase' \in [Runtimes -> Phases] /\ lock' \in [Runtimes -> 0..Ttl]
  BY <1>0, <1>1 DEF Phases
<1>3. due' \in [Runtimes -> 0..Every]
  <2>1. age[r] \in 0..Every
    BY <1>1
  <2>2. Every - age[r] \in 0..Every
    BY <1>1, <2>1
  <2> QED
    BY <1>0, <1>1, <2>2
<1>4. todo' \in [Runtimes -> Todos]
  BY <1>0, <1>1, TodoTypes
<1>5. TimersWait'
  <2> SUFFICES ASSUME NEW s \in Runtimes
               PROVE  /\ phase'[s] = "scheduled" => due'[s] + age'[s] >= Every
                      /\ phase'[s] \in {"scheduled", "down"} => lock'[s] = 0
    BY DEF TimersWait
  <2>1. CASE s = r
    <3>1. due'[s] = Every - age[s] /\ age'[s] = age[s] /\ lock'[s] = 0
      BY <1>0, <1>1, <2>1
    <3>2. age[s] \in 0..Every
      BY <1>1
    <3> QED
      BY <1>1, <3>1, <3>2
  <2>2. CASE s # r
    BY <1>0, <1>1, <2>2, Types DEF TimersWait
  <2> QED
    BY <2>1, <2>2
<1>6. DownIsEmpty'
  BY <1>0, <1>1, Types, Constants DEF DownIsEmpty
<1>7. CountersOK' /\ RemovalsOK' /\ DeltasOK'
  BY <1>0, Types, Unchanged
<1> QED
  BY <1>0, <1>2, <1>3, <1>4, <1>5, <1>6, <1>7, Types, TypesGiveInvariant

LEMMA FinishRunStep ==
  ASSUME IInv, NEW r \in Runtimes, FinishRun(r)
  PROVE  IInv'
BY EndRunStep, Types DEF FinishRun

LEMMA FailRunStep ==
  ASSUME IInv, NEW r \in Runtimes, FailRun(r)
  PROVE  IInv'
<1>1. EndRun(r) /\ faults < MaxFaults /\ faults' = faults + 1
  BY DEF FailRun
<1>2. faults' \in 0..MaxFaults
  BY <1>1, Types, Constants
<1> QED
  BY <1>1, <1>2, EndRunStep
-----------------------------------------------------------------------------
(* Workers come and go: what one had to say of removals is recorded as lost.*)
LEMMA CrashStep ==
  ASSUME IInv, NEW w \in Workers, Crash(w)
  PROVE  IInv'
<1>0. /\ UNCHANGED <<due, age, disk, latest, cutoff, requests>>
      /\ faults < MaxFaults /\ faults' = faults + 1
      /\ phase' = [phase EXCEPT ![w] = "down"]
      /\ lock' = [lock EXCEPT ![w] = 0] /\ todo' = [todo EXCEPT ![w] = Nobody]
      /\ known' = [known EXCEPT ![w] = {}]
      /\ seen' = [seen EXCEPT ![w] = [g \in Guests |-> 0]]
      /\ up' = [up EXCEPT ![w] = << >>] /\ down' = [down EXCEPT ![w] = << >>]
      /\ lost' = lost \union Unsaid(w)
  BY DEF Crash, diskVars
<1>1. /\ phase \in [Runtimes -> Phases] /\ lock \in [Runtimes -> 0..Ttl]
      /\ todo \in [Runtimes -> Todos] /\ known \in [Runtimes -> SUBSET Guests]
      /\ seen \in [Runtimes -> [Guests -> Numbers]]
      /\ up \in [Runtimes -> Seq(Ops)] /\ down \in [Workers -> Seq(Messages)]
      /\ w \in Runtimes /\ w # Primary /\ Workers \subseteq Runtimes
  BY Types, Constants
<1>2. faults' \in 0..MaxFaults
  BY <1>0, Types, Constants
<1>3. /\ phase' \in [Runtimes -> Phases] /\ lock' \in [Runtimes -> 0..Ttl]
      /\ todo' \in [Runtimes -> Todos]
  BY <1>0, <1>1, TodoTypes, Constants DEF Phases
<1>4. /\ known' \in [Runtimes -> SUBSET Guests]
      /\ up' \in [Runtimes -> Seq(Ops)] /\ down' \in [Workers -> Seq(Messages)]
  BY <1>0, <1>1
<1>5. seen' \in [Runtimes -> [Guests -> Numbers]]
  <2>1. [g \in Guests |-> 0] \in [Guests -> Numbers]
    BY Constants
  <2> QED
    BY <1>0, <1>1, <2>1
<1>6. lost' \subseteq Guests
  <2>1. up[w] \in Seq(Ops)
    BY <1>1
  <2>2. \A i \in DOMAIN up[w] : up[w][i].guest \in Guests
    <3>1. \A i \in DOMAIN up[w] : up[w][i] \in Ops
      BY <2>1
    <3> QED
      BY <3>1 DEF Ops
  <2> QED
    BY <1>0, <2>2, Types DEF Unsaid
<1>7. RemovalsOK'
  <2> SUFFICES ASSUME NEW g \in known'[Primary], g \notin disk', g \notin lost'
               PROVE  RemovalOnItsWay(g)'
    BY DEF RemovalsOK
  <2>1. g \in known[Primary] /\ g \notin disk /\ g \notin lost
    BY <1>0, <1>1, Constants
  <2>2. RemovalOnItsWay(g)
    BY <2>1, Types DEF RemovalsOK
  <2>3. PICK s \in Runtimes : \E i \in DOMAIN up[s] : Is(up[s][i], "remove", g)
    BY <2>2 DEF RemovalOnItsWay
  <2>4. s # w
    <3> SUFFICES ASSUME s = w
                 PROVE  FALSE
      OBVIOUS
    <3>1. g \in Unsaid(w)
      BY <2>3 DEF Unsaid, Is
    <3> QED
      BY <1>0, <3>1
  <2>5. up'[s] = up[s]
    BY <1>0, <1>1, <2>4
  <2> QED
    BY <2>3, <2>5 DEF RemovalOnItsWay
<1>8. DeltasOK'
  <2> SUFFICES ASSUME NEW v \in Workers, NEW g \in Guests, g \notin known'[Primary]
               PROVE  /\ g \in known'[v] =>
                           \E i \in DOMAIN down'[v] : Is(down'[v][i], "unlisted", g)
                      /\ \A i \in DOMAIN down'[v] :
                           Is(down'[v][i], "listed", g) =>
                             \E j \in DOMAIN down'[v] :
                               i < j /\ Is(down'[v][j], "unlisted", g)
    BY DEF DeltasOK
  <2>1. g \notin known[Primary]
    BY <1>0, <1>1, Constants
  <2>2. CASE v = w
    <3>1. down'[v] = << >> /\ known'[v] = {}
      BY <1>0, <1>1, <2>2
    <3> QED
      BY <3>1
  <2>3. CASE v # w
    <3>1. down'[v] = down[v] /\ known'[v] = known[v]
      BY <1>0, <1>1, <2>3
    <3> QED
      BY <2>1, <3>1, Types DEF DeltasOK
  <2> QED
    BY <2>2, <2>3
<1>9. TimersWait'
  BY <1>0, <1>1, Types DEF TimersWait
<1>10. DownIsEmpty'
  BY <1>0, <1>1, Types, Constants DEF DownIsEmpty
<1>11. CountersOK'
  BY <1>0, Types, Unchanged
<1> QED
  BY <1>0, <1>2, <1>3, <1>4, <1>5, <1>6, <1>7, <1>8, <1>9, <1>10, <1>11, Types,
     TypesGiveInvariant

LEMMA StartStep ==
  ASSUME IInv, NEW w \in Workers, Start(w)
  PROVE  IInv'
<1>0. /\ UNCHANGED <<lock, todo, disk, latest, cutoff, seen, up, down, lost,
                     requests, faults>>
      /\ phase[w] = "down" /\ phase' = [phase EXCEPT ![w] = "scheduled"]
      /\ due' = [due EXCEPT ![w] = Every] /\ age' = [age EXCEPT ![w] = Every]
      /\ known' = [known EXCEPT ![w] = known[Primary]]
  BY DEF Start, diskVars, wireVars, boundVars
<1>1. /\ phase \in [Runtimes -> Phases] /\ known \in [Runtimes -> SUBSET Guests]
      /\ due \in [Runtimes -> 0..Every] /\ age \in [Runtimes -> 0..Every]
      /\ Every \in Nat
      /\ w \in Runtimes /\ w # Primary /\ Workers \subseteq Runtimes
  BY Types, Constants
<1>2. /\ phase' \in [Runtimes -> Phases] /\ due' \in [Runtimes -> 0..Every]
      /\ age' \in [Runtimes -> 0..Every]
  BY <1>0, <1>1 DEF Phases
<1>3. known' \in [Runtimes -> SUBSET Guests] /\ known'[Primary] = known[Primary]
  BY <1>0, <1>1, Constants
<1>4. TimersWait'
  <2> SUFFICES ASSUME NEW s \in Runtimes
               PROVE  /\ phase'[s] = "scheduled" => due'[s] + age'[s] >= Every
                      /\ phase'[s] \in {"scheduled", "down"} => lock'[s] = 0
    BY DEF TimersWait
  <2>1. CASE s = w
    <3>1. due'[s] = Every /\ age'[s] = Every /\ lock'[s] = lock[s]
      BY <1>0, <1>1, <2>1
    <3>2. lock[s] = 0
      BY <1>0, <2>1, Types DEF TimersWait
    <3> QED
      BY <1>1, <3>1, <3>2
  <2>2. CASE s # w
    BY <1>0, <1>1, <2>2, Types DEF TimersWait
  <2> QED
    BY <2>1, <2>2
<1>5. DeltasOK'
  <2> SUFFICES ASSUME NEW v \in Workers, NEW g \in Guests, g \notin known'[Primary]
               PROVE  /\ g \in known'[v] =>
                           \E i \in DOMAIN down'[v] : Is(down'[v][i], "unlisted", g)
                      /\ \A i \in DOMAIN down'[v] :
                           Is(down'[v][i], "listed", g) =>
                             \E j \in DOMAIN down'[v] :
                               i < j /\ Is(down'[v][j], "unlisted", g)
    BY DEF DeltasOK
  <2>1. g \notin known[Primary]
    BY <1>3
  <2>2. CASE v = w
    <3>1. down'[v] = << >> /\ g \notin known'[v]
      BY <1>0, <1>1, <2>1, <2>2, Types DEF DownIsEmpty
    <3> QED
      BY <3>1
  <2>3. CASE v # w
    <3>1. down'[v] = down[v] /\ known'[v] = known[v]
      BY <1>0, <1>1, <2>3
    <3> QED
      BY <2>1, <3>1, Types DEF DeltasOK
  <2> QED
    BY <2>2, <2>3
<1>6. DownIsEmpty'
  <2>1. phase'[Primary] # "down"
    BY <1>0, <1>1, Types, Constants DEF DownIsEmpty
  <2>2. ASSUME NEW v \in Workers, phase'[v] = "down"
        PROVE  down'[v] = << >> /\ known'[v] = {}
    <3>1. v # w
      BY <1>0, <1>1, <2>2
    <3>2. phase[v] = "down" /\ known'[v] = known[v] /\ down'[v] = down[v]
      BY <1>0, <1>1, <2>2, <3>1
    <3> QED
      BY <3>2, Types DEF DownIsEmpty
  <2> QED
    BY <2>1, <2>2 DEF DownIsEmpty
<1>7. RemovalsOK'
  BY <1>0, <1>3, Types DEF RemovalsOK, RemovalOnItsWay
<1>8. CountersOK'
  BY <1>0, Types, Unchanged
<1> QED
  BY <1>0, <1>2, <1>3, <1>4, <1>5, <1>6, <1>7, <1>8, Types, TypesGiveInvariant
-----------------------------------------------------------------------------
LEMMA InitStep ==
  ASSUME Init
  PROVE  IInv
<1>0. /\ phase = [r \in Runtimes |-> "scheduled"]
      /\ due = [r \in Runtimes |-> Every] /\ age = [r \in Runtimes |-> Every]
      /\ lock = [r \in Runtimes |-> 0] /\ todo = [r \in Runtimes |-> Nobody]
      /\ disk \in SUBSET Guests
      /\ latest = [g \in Guests |-> IF g \in disk THEN 1 ELSE 0]
      /\ cutoff \in [Guests -> 0..1] /\ \A g \in Guests : cutoff[g] <= latest[g]
      /\ known = [r \in Runtimes |-> {}]
      /\ seen = [r \in Runtimes |-> [g \in Guests |-> 0]]
      /\ up = [r \in Runtimes |-> << >>] /\ down = [w \in Workers |-> << >>]
      /\ lost = {} /\ requests = 0 /\ faults = 0
  BY DEF Init
<1>1. TypeOK
  <2>1. /\ phase \in [Runtimes -> Phases]
        /\ due \in [Runtimes -> 0..Every] /\ age \in [Runtimes -> 0..Every]
        /\ lock \in [Runtimes -> 0..Ttl]
    BY <1>0, Constants DEF Phases
  <2>2. todo \in [Runtimes -> Todos]
    BY <1>0, TodoTypes
  <2>3. latest \in [Guests -> Numbers] /\ cutoff \in [Guests -> Numbers]
    BY <1>0, Constants
  <2>4. [g \in Guests |-> 0] \in [Guests -> Numbers]
    BY Constants
  <2>5. known \in [Runtimes -> SUBSET Guests] /\ seen \in [Runtimes -> [Guests -> Numbers]]
    BY <1>0, <2>4
  <2>6. up \in [Runtimes -> Seq(Ops)] /\ down \in [Workers -> Seq(Messages)]
    BY <1>0
  <2>7. requests \in 0..MaxRequests /\ faults \in 0..MaxFaults
    BY <1>0, Constants
  <2> QED
    BY <1>0, <2>1, <2>2, <2>3, <2>5, <2>6, <2>7 DEF TypeOK, Todos
<1>2. CountersOK
  BY <1>0 DEF CountersOK
<1>3. TimersWait
  BY <1>0, Constants DEF TimersWait
<1>4. RemovalsOK
  BY <1>0, Constants DEF RemovalsOK
<1>5. DeltasOK
  <2>1. \A w \in Workers : known[w] = {} /\ down[w] = << >>
    BY <1>0, Constants
  <2> QED
    BY <2>1 DEF DeltasOK
<1>6. DownIsEmpty
  <2>1. \A r \in Runtimes : phase[r] # "down"
    BY <1>0
  <2> QED
    BY <2>1, Constants DEF DownIsEmpty
<1> QED
  BY <1>1, <1>2, <1>3, <1>4, <1>5, <1>6 DEF IInv

LEMMA StutterStep ==
  ASSUME IInv, UNCHANGED vars
  PROVE  IInv'
<1>1. UNCHANGED <<phase, due, age, lock, todo, disk, latest, cutoff, known, seen,
                  up, down, lost, requests, faults>>
  BY DEF vars
<1>2. CountersOK' /\ TimersWait' /\ RemovalsOK' /\ DeltasOK' /\ DownIsEmpty'
  BY <1>1, Types, Unchanged
<1> QED
  BY <1>1, <1>2, Types, TypesGiveInvariant

(* Every step of the system keeps the invariant.                            *)
LEMMA NextStep ==
  ASSUME IInv, [Next]_vars
  PROVE  IInv'
<1>1. CASE Tick
  BY <1>1, TickStep
<1>2. CASE \E g \in Guests : GrowOld(g)
  BY <1>2, GrowOldStep
<1>3. CASE \E g \in Guests : \E s \in Servers : SignUp(s, g)
  BY <1>3, SignUpStep
<1>4. CASE \E g \in Guests : \E s \in Servers : Write(s, g)
  BY <1>4, WriteStep
<1>5. CASE \E g \in Guests : \E s \in Servers : Visit(s, g)
  BY <1>5, VisitStep
<1>6. CASE \E r \in Runtimes : Handle(r)
  BY <1>6, HandleStep
<1>7. CASE \E r \in Runtimes : Run(r)
  BY <1>7, FireStep, RemoveStep, FinishRunStep DEF Run
<1>8. CASE \E r \in Runtimes : FailRun(r)
  BY <1>8, FailRunStep
<1>9. CASE \E w \in Workers : Receive(w)
  BY <1>9, ReceiveStep
<1>10. CASE \E w \in Workers : Crash(w)
  BY <1>10, CrashStep
<1>11. CASE \E w \in Workers : Start(w)
  BY <1>11, StartStep
<1>12. CASE UNCHANGED vars
  BY <1>12, StutterStep
<1> QED
  BY <1>1, <1>2, <1>3, <1>4, <1>5, <1>6, <1>7, <1>8, <1>9, <1>10, <1>11, <1>12
  DEF Next

(* The inductive invariant of the runners (startClusteredServer and         *)
(* createAgentServer): timers wait for what is left of everyMs, a removal   *)
(* the primary's index does not show is queued, and the last thing a worker *)
(* hears of a guest the primary does not list is that it is gone.           *)
THEOREM JobInvariance == Spec => []IInv
<1>1. Init => IInv
  BY InitStep
<1>2. IInv /\ [Next]_vars => IInv'
  BY NextStep
<1> QED
  BY <1>1, <1>2, PTL DEF Spec

(* The runners, the indexes and the messages keep their types.              *)
THEOREM JobTypes == Spec => []TypeOK
<1>1. IInv => TypeOK
  BY DEF IInv
<1> QED
  BY <1>1, JobInvariance, PTL

(* A timer of scheduleJob never fires before everyMs has passed since the   *)
(* runner's last start, and runJob then finds the lock of its process free. *)
THEOREM RunsAreSpaced == Spec => []RunsSpaced
<1>1. IInv => RunsSpaced
  <2> SUFFICES ASSUME IInv, NEW r \in Runtimes, phase[r] = "scheduled", due[r] = 0
               PROVE  age[r] = Every /\ lock[r] = 0
    BY DEF RunsSpaced
  <2>1. due[r] + age[r] >= Every /\ lock[r] = 0 /\ age[r] \in 0..Every
    BY Types DEF TimersWait
  <2> QED
    BY <2>1, Constants
<1> QED
  BY <1>1, JobInvariance, PTL

(* A guest whose directory a run removed leaves the user index of every     *)
(* process, or the message that will see to it is on its way, unless a      *)
(* worker exited between the removal and its commit.                        *)
THEOREM GoneGuestsAreForgotten == Spec => []GoneIsForgotten
<1>1. IInv => GoneIsForgotten
  <2> SUFFICES ASSUME IInv, NEW r \in Runtimes,
                      NEW g \in known[r], g \notin disk, g \notin lost
               PROVE  \/ RemovalOnItsWay(g)
                      \/ /\ r \in Workers
                         /\ \E i \in DOMAIN down[r] : Is(down[r][i], "unlisted", g)
    BY DEF GoneIsForgotten
  <2>1. g \in Guests
    BY Types
  <2>2. CASE g \in known[Primary]
    BY <2>2, Types DEF RemovalsOK
  <2>3. CASE g \notin known[Primary]
    <3>1. r \in Workers
      BY <2>3, Constants
    <3> QED
      BY <2>1, <2>3, <3>1, Types DEF DeltasOK
  <2> QED
    BY <2>2, <2>3
<1> QED
  BY <1>1, JobInvariance, PTL
=============================================================================
