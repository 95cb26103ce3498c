---------------------------- MODULE SupervisorProofs ----------------------------
(***************************************************************************)
(* Proofs about Supervisor, for any set of children, any number of         *)
(* published revisions and any number of failures: type correctness, that  *)
(* the child behind the proxy serves, and that no serving child is lost.   *)
(***************************************************************************)
EXTENDS Supervisor, SequenceTheorems, TLAPS

(* drainingChildren: what removing and appending an entry does to it.       *)
LEMMA RemovedAt ==
  ASSUME NEW S, NEW s \in Seq(S), NEW i \in DOMAIN s
  PROVE  /\ RemoveAt(s, i) \in Seq(S)
         /\ Len(RemoveAt(s, i)) = Len(s) - 1
         /\ \A j \in 1..(Len(s) - 1) :
              RemoveAt(s, i)[j] = IF j < i THEN s[j] ELSE s[j + 1]
<1> DEFINE front == SubSeq(s, 1, i - 1)
           back == SubSeq(s, i + 1, Len(s))
<1>1. i \in 1..Len(s) /\ Len(s) \in Nat
  OBVIOUS
<1>2. /\ front \in Seq(S) /\ Len(front) = i - 1
      /\ \A j \in 1..(i - 1) : front[j] = s[j]
  <2>1. \A j \in 1..(i - 1) : s[j] \in S
    BY <1>1
  <2> QED
    BY <1>1, <2>1, SubSeqProperties
<1>3. /\ back \in Seq(S) /\ Len(back) = Len(s) - i
      /\ \A j \in 1..(Len(s) - i) : back[j] = s[j + i]
  BY <1>1, SubSeqProperties
<1> HIDE DEF front, back
<1>4. /\ front \o back \in Seq(S)
      /\ Len(front \o back) = Len(s) - 1
      /\ \A j \in 1..(Len(s) - 1) :
           (front \o back)[j] = IF j < i THEN front[j] ELSE back[j - (i - 1)]
  BY <1>1, <1>2, <1>3
<1>5. ASSUME NEW j \in 1..(Len(s) - 1)
      PROVE  (front \o back)[j] = IF j < i THEN s[j] ELSE s[j + 1]
  <2>1. CASE j < i
    BY <1>1, <1>2, <1>4, <2>1
  <2>2. CASE ~(j < i)
    <3>1. j - (i - 1) \in 1..(Len(s) - i) /\ (j - (i - 1)) + i = j + 1
      BY <1>1, <2>2
    <3> QED
      BY <1>3, <1>4, <2>2, <3>1
  <2> QED
    BY <2>1, <2>2
<1>6. RemoveAt(s, i) = front \o back
  BY DEF RemoveAt, front, back
<1> QED
  BY <1>4, <1>5, <1>6

LEMMA Removed ==
  ASSUME NEW S, NEW s \in Seq(S), NEW i \in DOMAIN s, Distinct(s)
  PROVE  /\ RemoveAt(s, i) \in Seq(S)
         /\ Distinct(RemoveAt(s, i))
         /\ ToSet(RemoveAt(s, i)) = ToSet(s) \ {s[i]}
<1> DEFINE t == RemoveAt(s, i)
<1>1. /\ t \in Seq(S) /\ Len(t) = Len(s) - 1
      /\ \A j \in 1..(Len(s) - 1) : t[j] = IF j < i THEN s[j] ELSE s[j + 1]
  BY RemovedAt
<1>2. /\ i \in 1..Len(s) /\ Len(s) \in Nat
      /\ DOMAIN s = 1..Len(s) /\ DOMAIN t = 1..(Len(s) - 1)
  BY <1>1
<1> HIDE DEF t
<1>3. Distinct(t)
  <2> SUFFICES ASSUME NEW j \in 1..(Len(s) - 1), NEW k \in 1..(Len(s) - 1),
                      t[j] = t[k]
               PROVE  j = k
    BY <1>2 DEF Distinct
  <2> DEFINE p == IF j < i THEN j ELSE j + 1
             q == IF k < i THEN k ELSE k + 1
  <2>1. p \in DOMAIN s /\ q \in DOMAIN s /\ s[p] = s[q]
    BY <1>1, <1>2
  <2>2. p = q
    BY <2>1 DEF Distinct
  <2> QED
    BY <1>2, <2>2
<1>4. ToSet(t) \subseteq ToSet(s) \ {s[i]}
  <2> SUFFICES ASSUME NEW j \in 1..(Len(s) - 1)
               PROVE  t[j] \in ToSet(s) /\ t[j] # s[i]
    BY <1>2 DEF ToSet
  <2> DEFINE p == IF j < i THEN j ELSE j + 1
  <2>1. p \in DOMAIN s /\ p # i /\ t[j] = s[p]
    BY <1>1, <1>2
  <2> QED
    BY <2>1 DEF Distinct, ToSet
<1>5. ToSet(s) \ {s[i]} \subseteq ToSet(t)
  <2> SUFFICES ASSUME NEW p \in DOMAIN s, s[p] # s[i]
               PROVE  s[p] \in ToSet(t)
    BY DEF ToSet
  <2> DEFINE j == IF p < i THEN p ELSE p - 1
  <2>1. j \in 1..(Len(s) - 1) /\ t[j] = s[p]
    BY <1>1, <1>2
  <2> QED
    BY <1>2, <2>1 DEF ToSet
<1> QED
  BY <1>1, <1>3, <1>4, <1>5 DEF t

LEMMA Appended ==
  ASSUME NEW S, NEW s \in Seq(S), NEW e \in S, Distinct(s), e \notin ToSet(s)
  PROVE  /\ Append(s, e) \in Seq(S)
         /\ Distinct(Append(s, e))
         /\ ToSet(Append(s, e)) = ToSet(s) \union {e}
<1> DEFINE t == Append(s, e)
<1>1. /\ t \in Seq(S) /\ Len(t) = Len(s) + 1 /\ Len(s) \in Nat
      /\ DOMAIN s = 1..Len(s) /\ DOMAIN t = 1..(Len(s) + 1)
      /\ \A j \in 1..Len(s) : t[j] = s[j]
      /\ t[Len(s) + 1] = e
  OBVIOUS
<1> HIDE DEF t
<1>2. \A j \in 1..Len(s) : s[j] # e
  BY <1>1 DEF ToSet
<1>3. Distinct(t)
  BY <1>1, <1>2 DEF Distinct
<1>4. ToSet(t) = ToSet(s) \union {e}
  <2>1. \A j \in DOMAIN t : t[j] \in ToSet(s) \union {e}
    BY <1>1 DEF ToSet
  <2>2. \A j \in DOMAIN s : s[j] \in ToSet(t)
    BY <1>1 DEF ToSet
  <2>3. e \in ToSet(t)
    BY <1>1 DEF ToSet
  <2> QED
    BY <2>1, <2>2, <2>3 DEF ToSet
<1> QED
  BY <1>1, <1>3, <1>4 DEF t
-----------------------------------------------------------------------------
(* Flows: their fields, and the flows that moving on makes.                 *)
UpdateAts == {"idle", "checking", "staging", "starting"}
RestartAts == {"idle", "starting", "waiting", "discarding"}
BootAts == {"starting", "listening", "done", "failed"}

LEMMA FlowFields ==
  ASSUME NEW A, NEW f \in Flow(A)
  PROVE  /\ f.at \in A /\ f.child \in Children \union {NoChild}
         /\ f.target \in Revisions
BY DEF Flow

LEMMA FlowMovesOn ==
  ASSUME NEW A, NEW f \in Flow(A), NEW a \in A,
         NEW c \in Children \union {NoChild}
  PROVE  /\ MoveOn(f, a, c) \in Flow(A)
         /\ MoveOn(f, a, c).at = a /\ MoveOn(f, a, c).child = c
         /\ MoveOn(f, a, c).target = f.target
BY DEF Flow, MoveOn

LEMMA FlowOf ==
  ASSUME NEW A, NEW a \in A, NEW c \in Children \union {NoChild},
         NEW r \in Revisions
  PROVE  [at |-> a, child |-> c, target |-> r] \in Flow(A)
BY DEF Flow

LEMMA BootOf ==
  ASSUME NEW a \in BootAts, NEW c \in Children \union {NoChild}
  PROVE  [at |-> a, child |-> c] \in
           [at : {"starting", "listening", "done", "failed"},
            child : Children \union {NoChild}]
BY DEF BootAts

(* The fields of the three flows, and the drained children.                 *)
LEMMA Fields ==
  ASSUME IInv
  PROVE  /\ update \in Flow(UpdateAts) /\ restart \in Flow(RestartAts)
         /\ update.target \in Revisions /\ restart.target \in Revisions
         /\ update.child \in Children \union {NoChild}
         /\ restart.child \in Children \union {NoChild}
         /\ boot.child \in Children \union {NoChild}
         /\ ToSet(draining) \subseteq Children
         /\ NoChild \notin Children
         /\ Idle(update) \in Flow(UpdateAts)
         /\ Idle(update).at = "idle" /\ Idle(update).child = NoChild
         /\ Idle(restart) \in Flow(RestartAts)
         /\ Idle(restart).at = "idle" /\ Idle(restart).child = NoChild
<1>1. update \in Flow(UpdateAts) /\ restart \in Flow(RestartAts)
  BY DEF IInv, TypeOK, UpdateAts, RestartAts
<1>2. ToSet(draining) \subseteq Children
  BY DEF IInv, TypeOK, ToSet
<1>3. "idle" \in UpdateAts /\ "idle" \in RestartAts
  BY DEF UpdateAts, RestartAts
<1>4. /\ Idle(update) \in Flow(UpdateAts)
      /\ Idle(update).at = "idle" /\ Idle(update).child = NoChild
      /\ Idle(restart) \in Flow(RestartAts)
      /\ Idle(restart).at = "idle" /\ Idle(restart).child = NoChild
  BY <1>1, <1>3, FlowMovesOn DEF Idle
<1>5. boot.child \in Children \union {NoChild}
  BY DEF IInv, TypeOK
<1> QED
  BY <1>1, <1>2, <1>4, <1>5, FlowFields, SupervisorAssumption

(* A bounded counter counts within its bound.                               *)
LEMMA CountFailure ==
  ASSUME TypeOK, failures < MaxFailures, failures' = failures + 1
  PROVE  failures' \in 0..MaxFailures
BY SupervisorAssumption DEF TypeOK
-----------------------------------------------------------------------------
LEMMA InitInvariant ==
  ASSUME Init
  PROVE  IInv
<1>1. PICK c \in Children :
        /\ proc = [d \in Children |-> IF d = c THEN "starting" ELSE "gone"]
        /\ boot = [at |-> "starting", child |-> c]
  BY DEF Init
<1>2. 0 \in Revisions /\ 0 \in 0..MaxFailures
  BY SupervisorAssumption DEF Revisions
<1>3. update \in Flow(UpdateAts) /\ restart \in Flow(RestartAts)
  BY <1>2, FlowOf DEF Init, UpdateAts, RestartAts
<1>4. boot \in [at : {"starting", "listening", "done", "failed"},
               child : Children \union {NoChild}]
  BY <1>1
<1>5. TypeOK
  BY <1>1, <1>2, <1>3, <1>4
  DEF Init, TypeOK, ProcessStates, UpdateAts, RestartAts
<1>6. ToSet(draining) = {} /\ Distinct(draining)
  BY DEF Init, ToSet, Distinct
<1>7. FlowsOK
  BY <1>1 DEF Init, FlowsOK, Starting
<1> QED
  BY <1>1, <1>5, <1>6, <1>7, SupervisorAssumption
  DEF Init, IInv, DrainingOK, ActiveServes, NoChildLost

(* start().                                                                 *)
LEMMA BootReadyKeeps ==
  ASSUME IInv, BootReady
  PROVE  IInv'
<1>1. TypeOK'
  BY Fields, BootOf DEF IInv, BootReady, TypeOK, FlowsOK, Starting, BootAts,
     ProcessStates, stopVars
<1>2. FlowsOK'
  BY DEF IInv, BootReady, TypeOK, FlowsOK, Starting
<1>3. DrainingOK'
  BY <1>1, Fields DEF IInv, BootReady, TypeOK, FlowsOK, DrainingOK, Starting, stopVars
<1>4. ActiveServes' /\ NoChildLost'
  BY Fields DEF IInv, BootReady, TypeOK, FlowsOK, DrainingOK, ActiveServes, NoChildLost, Starting, stopVars
<1> QED
  BY <1>1, <1>2, <1>3, <1>4 DEF IInv

(* A start that failed leaves a child that neither starts nor serves.       *)
LEMMA DiscardLeaves ==
  ASSUME IInv, NEW c \in Children, Discard(c)
  PROVE  /\ proc' \in [Children -> ProcessStates]
         /\ proc'[c] \in {"gone", "ending"}
         /\ \A d \in Children \ {c} : proc'[d] = proc[d]
         /\ failures' \in 0..MaxFailures
BY CountFailure DEF IInv, TypeOK, Discard, ProcessStates

LEMMA BootFailsKeeps ==
  ASSUME IInv, BootFails
  PROVE  IInv'
<1> DEFINE c == boot.child
<1>1. c \in Children /\ proc[c] = "starting" /\ active = NoChild
  BY DEF IInv, BootFails, FlowsOK, Starting
<1>2. /\ proc' \in [Children -> ProcessStates]
      /\ proc'[c] \in {"gone", "ending"}
      /\ \A d \in Children \ {c} : proc'[d] = proc[d]
      /\ failures' \in 0..MaxFailures
  BY <1>1, DiscardLeaves DEF BootFails
<1>3. TypeOK'
  BY <1>2, BootOf DEF IInv, BootFails, TypeOK, BootAts, activeVars, stopVars
<1>4. FlowsOK'
  BY <1>1, <1>2 DEF IInv, BootFails, TypeOK, FlowsOK, Starting, activeVars
<1>5. DrainingOK' /\ ActiveServes' /\ NoChildLost'
  BY <1>1, <1>2, Fields DEF IInv, BootFails, TypeOK, DrainingOK, ActiveServes, NoChildLost, activeVars, stopVars
<1> QED
  BY <1>3, <1>4, <1>5 DEF IInv

LEMMA ProxyKeeps ==
  ASSUME IInv, ProxyListens \/ ProxyFails
  PROVE  IInv'
<1>1. TypeOK'
  BY BootOf, CountFailure
  DEF IInv, ProxyListens, ProxyFails, TypeOK, BootAts, childVars, activeVars, stopVars
<1>2. FlowsOK'
  BY DEF IInv, ProxyListens, ProxyFails, FlowsOK, Starting, childVars, activeVars
<1>3. DrainingOK' /\ ActiveServes' /\ NoChildLost'
  BY DEF IInv, ProxyListens, ProxyFails, DrainingOK, ActiveServes, NoChildLost,
     childVars, activeVars, stopVars
<1> QED
  BY <1>1, <1>2, <1>3 DEF IInv
-----------------------------------------------------------------------------
(* The remote and the update check.                                         *)
LEMMA CheckKeeps ==
  ASSUME IInv, Publish \/ CheckForUpdates \/ RemoteAnswers
  PROVE  IInv'
<1>1. /\ update' \in Flow(UpdateAts)
      /\ boot.at # "done" => update'.at = "idle"
      /\ \/ update'.at # "starting" /\ update.at # "starting"
         \/ update' = update
  <2>1. CASE Publish
    BY <2>1, Fields DEF Publish, IInv, FlowsOK
  <2>2. CASE CheckForUpdates
    <3>1. "checking" \in UpdateAts
      BY DEF UpdateAts
    <3> QED
      BY <2>2, <3>1, Fields, FlowMovesOn DEF CheckForUpdates
  <2>3. CASE RemoteAnswers
    <3>1. "staging" \in UpdateAts /\ remote \in Revisions
      BY DEF UpdateAts, IInv, TypeOK
    <3>2. CASE update' = Idle(update)
      BY <2>3, <3>2, Fields DEF RemoteAnswers
    <3>3. CASE update' = [at |-> "staging", child |-> NoChild, target |-> remote]
      BY <2>3, <3>1, <3>3, FlowOf DEF RemoteAnswers, IInv, FlowsOK
    <3> QED
      BY <2>3, <3>2, <3>3 DEF RemoteAnswers
  <2> QED
    BY <2>1, <2>2, <2>3
<1>2. /\ remote' \in Revisions
      /\ UNCHANGED <<childVars, activeVars, draining, boot, restart, stopVars, failures>>
  BY SupervisorAssumption
  DEF Publish, CheckForUpdates, RemoteAnswers, IInv, TypeOK, Revisions
<1>3. TypeOK'
  BY <1>1, <1>2 DEF IInv, TypeOK, UpdateAts, childVars, activeVars, stopVars
<1>4. FlowsOK'
  <2>1. Starting(update)' <=> Starting(update)
    BY <1>1 DEF Starting
  <2>2. Starting(boot)' => update'.at = "idle"
    BY <1>1, <1>2 DEF Starting
  <2>3. Starting(update)' => update' = update
    BY <1>1 DEF Starting
  <2> QED
    BY <1>1, <1>2, <2>1, <2>2, <2>3
    DEF IInv, FlowsOK, Starting, childVars, activeVars
<1>5. DrainingOK' /\ ActiveServes' /\ NoChildLost'
  BY <1>2 DEF IInv, DrainingOK, ActiveServes, NoChildLost, childVars, activeVars, stopVars
<1> QED
  BY <1>3, <1>4, <1>5 DEF IInv

(* What a spawned child is: in nobody's hands until now.                    *)
LEMMA FreshFacts ==
  ASSUME IInv, NEW c \in Fresh
  PROVE  /\ c \in Children /\ proc[c] = "gone" /\ c # active
         /\ c \notin ToSet(draining)
         /\ c # boot.child /\ c # update.child /\ c # restart.child
BY DEF Fresh

LEMMA SpawnTypes ==
  ASSUME IInv, NEW c \in Children, NEW r \in Revisions, Spawn(c, r)
  PROVE  /\ proc' \in [Children -> ProcessStates] /\ proc'[c] = "starting"
         /\ \A d \in Children \ {c} : proc'[d] = proc[d]
         /\ release' \in [Children -> Revisions]
BY DEF IInv, TypeOK, Spawn, ProcessStates

LEMMA StagedKeeps ==
  ASSUME IInv, Staged
  PROVE  IInv'
<1>1. PICK c \in Fresh : /\ Spawn(c, update.target)
                         /\ update' = MoveOn(update, "starting", c)
  BY DEF Staged
<1>2. /\ c \in Children /\ proc[c] = "gone" /\ c # active
      /\ c \notin ToSet(draining)
      /\ c # boot.child /\ c # update.child /\ c # restart.child
  BY FreshFacts
<1>3. /\ proc' \in [Children -> ProcessStates] /\ proc'[c] = "starting"
      /\ \A d \in Children \ {c} : proc'[d] = proc[d]
      /\ release' \in [Children -> Revisions]
  BY <1>1, <1>2, Fields, SpawnTypes
<1>4. /\ update' \in Flow(UpdateAts)
      /\ update'.at = "starting" /\ update'.child = c
  <2>1. "starting" \in UpdateAts /\ c \in Children \union {NoChild}
    BY <1>2 DEF UpdateAts
  <2>2. update \in Flow(UpdateAts)
    BY Fields
  <2> QED
    BY <1>1, <2>1, <2>2, FlowMovesOn
<1>5. /\ update.at = "staging" /\ boot.at = "done"
      /\ UNCHANGED <<activeVars, draining, boot, restart, stopVars, remote, failures>>
  BY DEF Staged, IInv, FlowsOK
<1>6. TypeOK'
  BY <1>3, <1>4, <1>5 DEF IInv, TypeOK, UpdateAts, activeVars, stopVars
<1>7. FlowsOK'
  BY <1>2, <1>3, <1>4, <1>5 DEF IInv, FlowsOK, Starting, activeVars
<1>8. DrainingOK' /\ ActiveServes' /\ NoChildLost'
  BY <1>2, <1>3, <1>5, Fields
  DEF IInv, TypeOK, DrainingOK, ActiveServes, NoChildLost, activeVars, stopVars
<1> QED
  BY <1>6, <1>7, <1>8 DEF IInv

LEMMA UpdateFailsKeeps ==
  ASSUME IInv, UpdateFails
  PROVE  IInv'
<1> DEFINE c == update.child
<1>1. /\ update' = Idle(update)
      /\ UNCHANGED <<release, activeVars, draining, boot, restart, stopVars, remote>>
  BY DEF UpdateFails
<1>2. /\ update' \in Flow(UpdateAts) /\ ~Starting(update)'
      /\ update'.at = "idle"
  BY <1>1, Fields DEF Starting
<1>3. /\ proc' \in [Children -> ProcessStates] /\ failures' \in 0..MaxFailures
      /\ \A d \in Children : \/ ~(Starting(update) /\ d = c) /\ proc'[d] = proc[d]
                             \/ /\ Starting(update) /\ d = c
                                /\ proc[d] = "starting"
                                /\ proc'[d] \in {"gone", "ending"}
  <2>1. CASE update.at \in {"checking", "staging"} /\ UNCHANGED proc
             /\ failures < MaxFailures /\ failures' = failures + 1
    BY <2>1, CountFailure DEF IInv, TypeOK, Starting
  <2>2. CASE update.at = "starting" /\ Discard(c)
    <3>1. c \in Children /\ proc[c] = "starting"
      BY <2>2 DEF IInv, FlowsOK, Starting
    <3> QED
      BY <2>2, <3>1, DiscardLeaves DEF Starting
  <2> QED
    BY <2>1, <2>2 DEF UpdateFails
<1>4. TypeOK'
  BY <1>1, <1>2, <1>3 DEF IInv, TypeOK, UpdateAts, activeVars, stopVars
<1>5. FlowsOK'
  BY <1>1, <1>2, <1>3 DEF IInv, FlowsOK, Starting, activeVars
<1>6. DrainingOK' /\ ActiveServes' /\ NoChildLost'
  BY <1>1, <1>3, Fields
  DEF IInv, TypeOK, DrainingOK, ActiveServes, NoChildLost, activeVars, stopVars
<1> QED
  BY <1>4, <1>5, <1>6 DEF IInv

(* Promotion: the child that became healthy is nobody's old child, and the  *)
(* child it takes over from is drained while it runs.                       *)
LEMMA UpdateReadyKeeps ==
  ASSUME IInv, UpdateReady
  PROVE  IInv'
<1> DEFINE c == update.child
<1>1. /\ c \in Children /\ proc[c] = "starting" /\ update.at = "starting"
      /\ active' = c /\ activeTarget' = update.target
      /\ proc' = [proc EXCEPT ![c] = "serving"] /\ update' = Idle(update)
      /\ UNCHANGED <<release, boot, restart, stopVars, remote, failures>>
  BY DEF UpdateReady, Promote, IInv, FlowsOK, Starting
<1>2. /\ c \notin ToSet(draining) /\ c # active /\ boot.at = "done"
      /\ Starting(restart) => restart.child # c
  BY <1>1, Fields DEF IInv, DrainingOK, FlowsOK, Starting
<1>3. /\ proc' \in [Children -> ProcessStates] /\ proc'[c] = "serving"
      /\ \A d \in Children \ {c} : proc'[d] = proc[d]
  BY <1>1 DEF IInv, TypeOK, ProcessStates
<1>4. /\ draining' \in Seq(Children) /\ Distinct(draining')
      /\ \/ /\ active # NoChild /\ Running(active)
            /\ ToSet(draining') = ToSet(draining) \union {active}
         \/ /\ ~(active # NoChild /\ Running(active))
            /\ ToSet(draining') = ToSet(draining)
  <2>1. draining \in Seq(Children) /\ Distinct(draining)
        /\ active \notin ToSet(draining) /\ active \in Children \union {NoChild}
    BY DEF IInv, TypeOK, DrainingOK
  <2>2. CASE active # NoChild /\ Running(active)
    <3>1. draining' = Append(draining, active) /\ active \in Children
      BY <2>1, <2>2 DEF UpdateReady, Promote
    <3> QED
      BY <2>1, <2>2, <3>1, Appended
  <2>3. CASE ~(active # NoChild /\ Running(active))
    <3>1. draining' = draining
      BY <2>3 DEF UpdateReady, Promote
    <3> QED
      BY <2>1, <2>3, <3>1
  <2> QED
    BY <2>2, <2>3
<1>5. /\ update' \in Flow(UpdateAts) /\ update'.at = "idle" /\ update.target \in Revisions
  BY <1>1, Fields
<1>6. TypeOK'
  BY <1>1, <1>3, <1>4, <1>5 DEF IInv, TypeOK, UpdateAts, stopVars
<1>7. FlowsOK'
  BY <1>1, <1>2, <1>3, <1>5 DEF IInv, FlowsOK, Starting
<1>8. DrainingOK'
  BY <1>1, <1>2, <1>3, <1>4, Fields
  DEF IInv, TypeOK, DrainingOK, ActiveServes, Running, ProcessStates, stopVars
<1>9. ActiveServes' /\ NoChildLost'
  BY <1>1, <1>2, <1>3, <1>4, Fields
  DEF IInv, TypeOK, DrainingOK, ActiveServes, NoChildLost, Running, ProcessStates, stopVars
<1> QED
  BY <1>6, <1>7, <1>8, <1>9 DEF IInv

(* The end of a drain: the record leaves the list before the child is told  *)
(* to stop.                                                                 *)
LEMMA DrainOverKeeps ==
  ASSUME IInv, NEW c \in Children, DrainOver(c)
  PROVE  IInv'
<1>1. /\ draining' \in Seq(Children) /\ Distinct(draining')
      /\ ToSet(draining') = ToSet(draining) \ {c} /\ c \in ToSet(draining)
  <2>1. PICK i \in DOMAIN draining : /\ draining[i] = c
                                     /\ draining' = RemoveAt(draining, i)
    BY DEF DrainOver
  <2>2. draining \in Seq(Children) /\ Distinct(draining)
    BY DEF IInv, TypeOK, DrainingOK
  <2> QED
    BY <2>1, <2>2, Removed DEF ToSet
<1>2. /\ proc' = [proc EXCEPT ![c] = Ended(c)]
      /\ UNCHANGED <<release, activeVars, boot, update, restart, stopVars, remote, failures>>
  BY DEF DrainOver
<1>3. /\ proc' \in [Children -> ProcessStates]
      /\ proc[c] # "starting" /\ proc'[c] \notin {"starting", "serving"}
      /\ \A d \in Children \ {c} : proc'[d] = proc[d]
  BY <1>1, <1>2 DEF IInv, TypeOK, DrainingOK, Ended, ProcessStates
<1>4. TypeOK'
  BY <1>1, <1>2, <1>3 DEF IInv, TypeOK, activeVars, stopVars
<1>5. FlowsOK'
  BY <1>2, <1>3 DEF IInv, FlowsOK, Starting, activeVars
<1>6. DrainingOK' /\ ActiveServes' /\ NoChildLost'
  BY <1>1, <1>2, <1>3, Fields
  DEF IInv, TypeOK, DrainingOK, ActiveServes, NoChildLost, activeVars, stopVars
<1> QED
  BY <1>4, <1>5, <1>6 DEF IInv

(* A child that was told to stop has stopped.                               *)
LEMMA ExitKeeps ==
  ASSUME IInv, NEW c \in Children, Exit(c)
  PROVE  IInv'
<1>1. /\ proc[c] = "ending" /\ proc'[c] = "gone"
      /\ proc' \in [Children -> ProcessStates]
      /\ \A d \in Children \ {c} : proc'[d] = proc[d]
      /\ UNCHANGED <<release, activeVars, draining, boot, update, restart, stopVars,
                     remote, failures>>
  BY DEF Exit, IInv, TypeOK, ProcessStates
<1>2. TypeOK' /\ FlowsOK'
  BY <1>1 DEF IInv, TypeOK, FlowsOK, Starting, activeVars, stopVars
<1>3. DrainingOK' /\ ActiveServes' /\ NoChildLost'
  BY <1>1, Fields
  DEF IInv, TypeOK, DrainingOK, ActiveServes, NoChildLost, activeVars, stopVars
<1> QED
  BY <1>2, <1>3 DEF IInv
-----------------------------------------------------------------------------
(* A crash that the active child's exit handler ignores.                    *)
LEMMA CrashBesideKeeps ==
  ASSUME IInv, NEW c \in Children, Crash(c), CrashBeside(c)
  PROVE  IInv'
<1>1. /\ proc[c] = "serving" /\ proc'[c] = "gone"
      /\ proc' \in [Children -> ProcessStates]
      /\ \A d \in Children \ {c} : proc'[d] = proc[d]
      /\ c # active \/ stopping # "no"
      /\ UNCHANGED <<release, activeVars, draining, boot, update, restart, stopVars, remote>>
  BY DEF Crash, CrashBeside, IInv, TypeOK, ProcessStates
<1>2. failures' \in 0..MaxFailures
  BY CountFailure DEF IInv, Crash
<1>3. TypeOK' /\ FlowsOK'
  BY <1>1, <1>2 DEF IInv, TypeOK, FlowsOK, Starting, activeVars, stopVars
<1>4. DrainingOK' /\ ActiveServes' /\ NoChildLost'
  BY <1>1, Fields
  DEF IInv, TypeOK, DrainingOK, ActiveServes, NoChildLost, activeVars, stopVars
<1> QED
  BY <1>3, <1>4 DEF IInv

(* The fallback was serving and is listed no more.                          *)
LEMMA CrashFallsBackKeeps ==
  ASSUME IInv, NEW c \in Children, Crash(c), CrashFallsBack(c)
  PROVE  IInv'
<1>1. PICK i \in DOMAIN draining : IsFallback(i) /\ FallBack(i)
  BY DEF CrashFallsBack
<1> DEFINE f == draining[i]
<1>2. /\ proc[c] = "serving" /\ proc'[c] = "gone" /\ c = active /\ stopping = "no"
      /\ proc' \in [Children -> ProcessStates]
      /\ \A d \in Children \ {c} : proc'[d] = proc[d]
      /\ active' = f /\ activeTarget' = release[f]
      /\ UNCHANGED <<release, boot, update, restart, stopVars, remote>>
  BY <1>1 DEF Crash, CrashFallsBack, FallBack, IInv, TypeOK, ProcessStates
<1>3. f \in ToSet(draining) /\ f \in Children
  BY <1>1, Fields DEF ToSet
<1>4. f # c /\ proc[f] = "serving"
  BY <1>1, <1>2, <1>3 DEF IInv, TypeOK, DrainingOK, IsFallback, Running
<1>5. /\ draining' \in Seq(Children) /\ Distinct(draining')
      /\ ToSet(draining') = ToSet(draining) \ {f}
  <2>1. draining \in Seq(Children) /\ Distinct(draining)
    BY DEF IInv, TypeOK, DrainingOK
  <2> QED
    BY <1>1, <2>1, Removed DEF FallBack
<1>6. failures' \in 0..MaxFailures /\ release[f] \in Revisions
  BY <1>3, CountFailure DEF IInv, TypeOK, Crash
<1> HIDE DEF f
<1>7. TypeOK'
  BY <1>2, <1>3, <1>5, <1>6 DEF IInv, TypeOK, stopVars
<1>8. FlowsOK'
  <2>1. boot.at # "starting"
    BY <1>2, Fields DEF IInv, FlowsOK, Starting
  <2> QED
    BY <1>2, <1>3, <1>4, <2>1 DEF IInv, FlowsOK, Starting
<1>9. DrainingOK' /\ ActiveServes' /\ NoChildLost'
  BY <1>2, <1>3, <1>4, <1>5, Fields
  DEF IInv, TypeOK, DrainingOK, ActiveServes, NoChildLost, stopVars
<1> QED
  BY <1>7, <1>8, <1>9 DEF IInv

(* Without a fallback there is no active child until a flow brings one.     *)
LEMMA CrashRestartsKeeps ==
  ASSUME IInv, NEW c \in Children, Crash(c), CrashRestarts(c)
  PROVE  IInv'
<1>1. /\ proc[c] = "serving" /\ c = active /\ stopping = "no" /\ active' = NoChild
      /\ UNCHANGED <<activeTarget, draining, boot, update, stopVars, remote>>
  BY DEF Crash, CrashRestarts
<1>2. failures' \in 0..MaxFailures
  BY CountFailure DEF IInv, Crash
<1>3. boot.at # "starting"
  BY <1>1, Fields DEF IInv, FlowsOK, Starting
<1>4. CASE restart.at # "idle" /\ proc' = [proc EXCEPT ![c] = "gone"]
                              /\ UNCHANGED <<release, restart>>
  <2>1. /\ proc' \in [Children -> ProcessStates] /\ proc'[c] = "gone"
        /\ \A d \in Children \ {c} : proc'[d] = proc[d]
    BY <1>4 DEF IInv, TypeOK, ProcessStates
  <2>2. TypeOK'
    BY <1>1, <1>2, <1>4, <2>1 DEF IInv, TypeOK, stopVars
  <2>3. FlowsOK'
    BY <1>1, <1>3, <1>4, <2>1 DEF IInv, FlowsOK, Starting
  <2>4. DrainingOK' /\ ActiveServes' /\ NoChildLost'
    BY <1>1, <2>1, Fields
    DEF IInv, TypeOK, DrainingOK, ActiveServes, NoChildLost, stopVars
  <2> QED
    BY <2>2, <2>3, <2>4 DEF IInv
<1>5. CASE restart.at = "idle" /\ \E d \in Fresh :
             /\ proc' = [proc EXCEPT ![c] = "gone", ![d] = "starting"]
             /\ release' = [release EXCEPT ![d] = release[c]]
             /\ restart' = [at |-> "starting", child |-> d, target |-> release[c]]
  <2>1. PICK d \in Fresh :
             /\ proc' = [proc EXCEPT ![c] = "gone", ![d] = "starting"]
             /\ release' = [release EXCEPT ![d] = release[c]]
             /\ restart' = [at |-> "starting", child |-> d, target |-> release[c]]
    BY <1>5
  <2>2. /\ d \in Children /\ d # c /\ d # active /\ d \notin ToSet(draining)
        /\ proc[d] = "gone" /\ d # boot.child /\ d # update.child
    BY <1>1, FreshFacts
  <2>3. /\ proc' \in [Children -> ProcessStates]
        /\ proc'[c] = "gone" /\ proc'[d] = "starting"
        /\ \A e \in Children \ {c, d} : proc'[e] = proc[e]
    BY <2>1, <2>2 DEF IInv, TypeOK, ProcessStates
  <2>4. release' \in [Children -> Revisions] /\ release[c] \in Revisions
    BY <2>1 DEF IInv, TypeOK
  <2>5. restart' \in Flow(RestartAts)
    <3>1. "starting" \in RestartAts
      BY DEF RestartAts
    <3> QED
      BY <2>1, <2>2, <2>4, <3>1, FlowOf
  <2>6. TypeOK'
    BY <1>1, <1>2, <2>3, <2>4, <2>5 DEF IInv, TypeOK, RestartAts, stopVars
  <2>7. FlowsOK'
    BY <1>1, <1>3, <1>5, <2>1, <2>2, <2>3 DEF IInv, FlowsOK, Starting
  <2>8. DrainingOK' /\ ActiveServes' /\ NoChildLost'
    BY <1>1, <2>2, <2>3, Fields
    DEF IInv, TypeOK, DrainingOK, ActiveServes, NoChildLost, stopVars
  <2> QED
    BY <2>6, <2>7, <2>8 DEF IInv
<1> QED
  BY <1>4, <1>5 DEF CrashRestarts
-----------------------------------------------------------------------------
(* The restarted child takes over only where there is no active child.      *)
LEMMA RestartReadyKeeps ==
  ASSUME IInv, RestartReady
  PROVE  IInv'
<1> DEFINE c == restart.child
<1>1. /\ restart.at = "starting" /\ proc[c] = "starting" /\ c \in Children
      /\ c # active /\ c \notin ToSet(draining)
      /\ boot.at # "starting" /\ (Starting(update) => update.child # c)
      /\ UNCHANGED <<release, draining, boot, update, stopVars, remote, failures>>
  BY Fields DEF RestartReady, IInv, FlowsOK, DrainingOK, Starting
<1>2. CASE /\ active = NoChild
           /\ active' = c /\ activeTarget' = restart.target
           /\ restart' = Idle(restart)
           /\ proc' = [proc EXCEPT ![c] = "serving"]
  <2>1. /\ proc' \in [Children -> ProcessStates] /\ proc'[c] = "serving"
        /\ \A d \in Children \ {c} : proc'[d] = proc[d]
    BY <1>1, <1>2 DEF IInv, TypeOK, ProcessStates
  <2>2. restart' \in Flow(RestartAts) /\ restart'.at = "idle" /\ restart.target \in Revisions
    BY <1>2, Fields
  <2>3. TypeOK'
    BY <1>1, <1>2, <2>1, <2>2 DEF IInv, TypeOK, RestartAts, stopVars
  <2>4. FlowsOK'
    BY <1>1, <2>1, <2>2 DEF IInv, FlowsOK, Starting
  <2>5. DrainingOK' /\ ActiveServes' /\ NoChildLost'
    BY <1>1, <1>2, <2>1, Fields
    DEF IInv, TypeOK, DrainingOK, ActiveServes, NoChildLost, stopVars
  <2> QED
    BY <2>3, <2>4, <2>5 DEF IInv
<1>3. CASE /\ active # NoChild
           /\ restart' = MoveOn(restart, "discarding", c)
           /\ proc' = [proc EXCEPT ![c] = "ending"]
           /\ UNCHANGED activeVars
  <2>1. /\ proc' \in [Children -> ProcessStates] /\ proc'[c] = "ending"
        /\ \A d \in Children \ {c} : proc'[d] = proc[d]
    BY <1>1, <1>3 DEF IInv, TypeOK, ProcessStates
  <2>2. /\ restart' \in Flow(RestartAts)
        /\ restart'.at = "discarding" /\ restart'.child = c
    <3>1. "discarding" \in RestartAts /\ c \in Children \union {NoChild}
      BY <1>1 DEF RestartAts
    <3>2. restart \in Flow(RestartAts)
      BY Fields
    <3> QED
      BY <1>3, <3>1, <3>2, FlowMovesOn
  <2>3. TypeOK'
    BY <1>1, <1>3, <2>1, <2>2 DEF IInv, TypeOK, RestartAts, activeVars, stopVars
  <2>4. FlowsOK'
    BY <1>1, <1>3, <2>1, <2>2 DEF IInv, FlowsOK, Starting, activeVars
  <2>5. DrainingOK' /\ ActiveServes' /\ NoChildLost'
    BY <1>1, <1>3, <2>1, Fields
    DEF IInv, TypeOK, DrainingOK, ActiveServes, NoChildLost, activeVars, stopVars
  <2> QED
    BY <2>3, <2>4, <2>5 DEF IInv
<1> QED
  BY <1>2, <1>3 DEF RestartReady

LEMMA RestartFailsKeeps ==
  ASSUME IInv, RestartFails
  PROVE  IInv'
<1> DEFINE c == restart.child
<1>1. /\ restart.at = "starting" /\ proc[c] = "starting" /\ c \in Children
      /\ Starting(update) => update.child # c
      /\ c # active /\ c \notin ToSet(draining)
      /\ UNCHANGED <<release, activeVars, draining, boot, update, stopVars, remote>>
  BY Fields DEF RestartFails, IInv, FlowsOK, DrainingOK, Starting
<1>2. /\ proc' \in [Children -> ProcessStates]
      /\ proc'[c] \in {"gone", "ending"}
      /\ \A d \in Children \ {c} : proc'[d] = proc[d]
      /\ failures' \in 0..MaxFailures
  BY <1>1, DiscardLeaves DEF RestartFails
<1>3. restart' \in Flow(RestartAts) /\ restart'.at \in {"idle", "waiting"}
  <2>1. "waiting" \in RestartAts /\ NoChild \in Children \union {NoChild}
    BY DEF RestartAts
  <2>2. restart \in Flow(RestartAts)
    BY Fields
  <2>3. /\ MoveOn(restart, "waiting", NoChild) \in Flow(RestartAts)
        /\ MoveOn(restart, "waiting", NoChild).at = "waiting"
    BY <2>1, <2>2, FlowMovesOn
  <2> QED
    BY <2>3, Fields DEF RestartFails
<1>4. boot.at # "starting"
  BY <1>1 DEF IInv, FlowsOK, Starting
<1>5. TypeOK'
  BY <1>1, <1>2, <1>3 DEF IInv, TypeOK, RestartAts, activeVars, stopVars
<1>6. FlowsOK'
  BY <1>1, <1>2, <1>3, <1>4 DEF IInv, FlowsOK, Starting, activeVars
<1>7. DrainingOK' /\ ActiveServes' /\ NoChildLost'
  BY <1>1, <1>2, Fields
  DEF IInv, TypeOK, DrainingOK, ActiveServes, NoChildLost, activeVars, stopVars
<1> QED
  BY <1>5, <1>6, <1>7 DEF IInv

LEMMA BackoffOverKeeps ==
  ASSUME IInv, BackoffOver
  PROVE  IInv'
<1>1. PICK c \in Fresh : /\ Spawn(c, restart.target)
                         /\ restart' = MoveOn(restart, "starting", c)
  BY DEF BackoffOver
<1>2. /\ c \in Children /\ proc[c] = "gone" /\ c # active
      /\ c \notin ToSet(draining)
      /\ c # boot.child /\ c # update.child /\ c # restart.child
  BY FreshFacts
<1>3. /\ proc' \in [Children -> ProcessStates] /\ proc'[c] = "starting"
      /\ \A d \in Children \ {c} : proc'[d] = proc[d]
      /\ release' \in [Children -> Revisions]
  BY <1>1, <1>2, Fields, SpawnTypes
<1>4. /\ restart' \in Flow(RestartAts)
      /\ restart'.at = "starting" /\ restart'.child = c
  <2>1. "starting" \in RestartAts /\ c \in Children \union {NoChild}
    BY <1>2 DEF RestartAts
  <2>2. restart \in Flow(RestartAts)
    BY Fields
  <2> QED
    BY <1>1, <2>1, <2>2, FlowMovesOn
<1>5. /\ restart.at = "waiting" /\ boot.at # "starting"
      /\ UNCHANGED <<activeVars, draining, boot, update, stopVars, remote, failures>>
  BY DEF BackoffOver, IInv, FlowsOK, Starting
<1>6. TypeOK'
  BY <1>3, <1>4, <1>5 DEF IInv, TypeOK, RestartAts, activeVars, stopVars
<1>7. FlowsOK'
  BY <1>2, <1>3, <1>4, <1>5 DEF IInv, FlowsOK, Starting, activeVars
<1>8. DrainingOK' /\ ActiveServes' /\ NoChildLost'
  BY <1>2, <1>3, <1>5, Fields
  DEF IInv, TypeOK, DrainingOK, ActiveServes, NoChildLost, activeVars, stopVars
<1> QED
  BY <1>6, <1>7, <1>8 DEF IInv

LEMMA DiscardedKeeps ==
  ASSUME IInv, Discarded
  PROVE  IInv'
<1>1. /\ restart' \in Flow(RestartAts) /\ restart'.at = "idle"
      /\ restart.at = "discarding"
      /\ UNCHANGED <<childVars, activeVars, draining, boot, update, stopVars, remote, failures>>
  BY Fields DEF Discarded
<1>2. TypeOK'
  BY <1>1 DEF IInv, TypeOK, RestartAts, childVars, activeVars, stopVars
<1>3. FlowsOK'
  BY <1>1 DEF IInv, FlowsOK, Starting, childVars, activeVars
<1>4. DrainingOK' /\ ActiveServes' /\ NoChildLost'
  BY <1>1 DEF IInv, DrainingOK, ActiveServes, NoChildLost, childVars, activeVars, stopVars
<1> QED
  BY <1>2, <1>3, <1>4 DEF IInv
-----------------------------------------------------------------------------
(* stop().                                                                  *)
LEMMA StopKeeps ==
  ASSUME IInv, Stop
  PROVE  IInv'
<1>1. /\ stopping' = "waiting" /\ awaited' = StoppedNow /\ draining' = << >>
      /\ proc' = [c \in Children |-> IF c \in StoppedNow THEN Ended(c) ELSE proc[c]]
      /\ UNCHANGED <<release, activeVars, boot, update, restart, remote, failures>>
  BY DEF Stop
<1>2. proc' \in [Children -> ProcessStates]
  BY <1>1 DEF IInv, TypeOK, Ended, ProcessStates
<1>3. \A c \in Children : proc'[c] = "starting" <=> proc[c] = "starting"
  BY <1>1 DEF Ended
<1>4. StoppedNow \subseteq Children
  BY Fields DEF StoppedNow, IInv, TypeOK
<1>5. TypeOK'
  BY <1>1, <1>2, <1>4 DEF IInv, TypeOK, activeVars
<1>6. FlowsOK'
  BY <1>1, <1>3 DEF IInv, FlowsOK, Starting, activeVars
<1>7. ToSet(draining') = {} /\ Distinct(draining')
  BY <1>1 DEF ToSet, Distinct
<1>8. DrainingOK' /\ ActiveServes' /\ NoChildLost'
  BY <1>1, <1>3, <1>7
  DEF IInv, TypeOK, DrainingOK, ActiveServes, NoChildLost, activeVars
<1> QED
  BY <1>5, <1>6, <1>8 DEF IInv

LEMMA StopEndsKeeps ==
  ASSUME IInv, StopEnds
  PROVE  IInv'
<1>1. /\ stopping = "waiting" /\ stopping' = "stopped" /\ awaited' = {}
      /\ UNCHANGED <<childVars, activeVars, draining, boot, update, restart, remote, failures>>
  BY DEF StopEnds
<1>2. TypeOK' /\ FlowsOK'
  BY <1>1 DEF IInv, TypeOK, FlowsOK, Starting, childVars, activeVars
<1>3. DrainingOK' /\ ActiveServes' /\ NoChildLost'
  BY <1>1 DEF IInv, DrainingOK, ActiveServes, NoChildLost, childVars, activeVars
<1> QED
  BY <1>2, <1>3 DEF IInv

LEMMA StutterKeeps ==
  ASSUME IInv, UNCHANGED vars
  PROVE  IInv'
<1>1. TypeOK'
  BY DEF IInv, TypeOK, vars, childVars, activeVars, stopVars
<1>2. FlowsOK'
  BY DEF IInv, FlowsOK, Starting, vars, childVars, activeVars, stopVars
<1>3. DrainingOK' /\ ActiveServes' /\ NoChildLost'
  BY DEF IInv, DrainingOK, ActiveServes, NoChildLost, vars, childVars, activeVars, stopVars
<1> QED
  BY <1>1, <1>2, <1>3 DEF IInv

LEMMA NextKeeps ==
  ASSUME IInv, [Next]_vars
  PROVE  IInv'
<1>1. CASE Next
  <2>1. ASSUME NEW c \in Children, Crash(c)
        PROVE  IInv'
    BY <2>1, CrashBesideKeeps, CrashFallsBackKeeps, CrashRestartsKeeps DEF Crash
  <2> QED
    BY <1>1, <2>1, BootReadyKeeps, BootFailsKeeps, ProxyKeeps, CheckKeeps, StagedKeeps,
       UpdateReadyKeeps, UpdateFailsKeeps, RestartReadyKeeps, RestartFailsKeeps,
       BackoffOverKeeps, DiscardedKeeps, StopKeeps, StopEndsKeeps, DrainOverKeeps,
       ExitKeeps
    DEF Next
<1>2. CASE UNCHANGED vars
  BY <1>2, StutterKeeps
<1> QED
  BY <1>1, <1>2

(* The inductive invariant: flows own the children they start, and the list *)
(* of old children has neither the active child nor one twice.              *)
THEOREM SupervisorInvariance == Spec => []IInv
<1>1. Init => IInv
  BY InitInvariant
<1>2. IInv /\ [Next]_vars => IInv'
  BY NextKeeps
<1> QED
  BY <1>1, <1>2, PTL DEF Spec

(* The supervisor's children, flows and lists keep their types.             *)
THEOREM SupervisorTypes == Spec => []TypeOK
<1>1. IInv => TypeOK
  BY DEF IInv
<1> QED
  BY <1>1, SupervisorInvariance, PTL

(* Until stop() is called the child behind the proxy is serving and is not  *)
(* one that draining is about to stop: getActiveChild never answers with a  *)
(* child that some other flow is ending.                                    *)
THEOREM ActiveChildServes == Spec => []ActiveServes
<1>1. IInv => ActiveServes
  BY DEF IInv
<1> QED
  BY <1>1, SupervisorInvariance, PTL

(* Until stop() is called every serving child is the active one or is being *)
(* drained: promotions, fallbacks and restarts leak no process.             *)
THEOREM NoServingChildIsLost == Spec => []NoChildLost
<1>1. IInv => NoChildLost
  BY DEF IInv
<1> QED
  BY <1>1, SupervisorInvariance, PTL
=============================================================================
