------------------------ MODULE StateReplicationProofs ------------------------
(***************************************************************************)
(* Proofs about StateReplication, for any number of workers, keys, values, *)
(* versions and any retention: type correctness, the coherence of every    *)
(* replica, and that the protocol implements AbstractReplica.              *)
(***************************************************************************)
EXTENDS StateReplication, TLAPS

(* Queues: what appending and removing do to the elements.                  *)
LEMMA AppendElements ==
  ASSUME NEW S, NEW q \in Seq(S), NEW x \in S
  PROVE  /\ Append(q, x) \in Seq(S)
         /\ Len(Append(q, x)) = Len(q) + 1
         /\ \A i \in 1..Len(q) : Append(q, x)[i] = q[i]
         /\ Append(q, x)[Len(q) + 1] = x
OBVIOUS

LEMMA TailElements ==
  ASSUME NEW S, NEW q \in Seq(S), q # << >>
  PROVE  /\ Tail(q) \in Seq(S)
         /\ Head(q) \in S
         /\ Head(q) = q[1]
         /\ Len(q) \in Nat \ {0}
         /\ Len(Tail(q)) = Len(q) - 1
         /\ \A i \in 1..Len(Tail(q)) : Tail(q)[i] = q[i + 1]
OBVIOUS

(* Applying changes of a delta to a state gives a state.                    *)
LEMMA ApplyType ==
  ASSUME NEW s \in State, NEW c \in Changes
  PROVE  Apply(s, c) \in State
<1>1. PICK K \in SUBSET Keys : c \in [K -> Values \union {Absent}]
  BY DEF Changes
<1>2. DOMAIN c = K
  BY <1>1
<1> QED
  BY <1>1, <1>2 DEF Apply, State

LEMMA EffectiveType ==
  ASSUME NEW s \in State, NEW c \in Changes
  PROVE  /\ Effective(s, c) \in Changes
         /\ DOMAIN Effective(s, c) \subseteq Keys
<1>1. PICK K \in SUBSET Keys : c \in [K -> Values \union {Absent}]
  BY DEF Changes
<1> DEFINE J == {j \in DOMAIN c : c[j] # s[j]}
<1>2. J \in SUBSET Keys
  BY <1>1
<1>3. Effective(s, c) \in [J -> Values \union {Absent}]
  BY <1>1 DEF Effective
<1>4. [J -> Values \union {Absent}] \in {[K2 -> Values \union {Absent}] : K2 \in SUBSET Keys}
  BY <1>2
<1> QED
  BY <1>2, <1>3, <1>4 DEF Changes, Effective

LEMMA NoChangesType == NoChanges \in Changes
<1>1. {} \in SUBSET Keys
  OBVIOUS
<1>2. NoChanges \in [{} -> Values \union {Absent}]
  BY DEF NoChanges
<1> QED
  BY <1>1, <1>2 DEF Changes

LEMMA DeltaFields ==
  ASSUME NEW d \in Delta
  PROVE  /\ d.fromVersion \in Nat
         /\ d.toVersion \in Nat
         /\ d.changes \in Changes
         /\ DOMAIN d.changes \subseteq Keys
         /\ \A k \in DOMAIN d.changes : d.changes[k] \in Values \union {Absent}
<1>1. d.changes \in Changes
  BY DEF Delta
<1>2. PICK K \in SUBSET Keys : d.changes \in [K -> Values \union {Absent}]
  BY <1>1 DEF Changes
<1> QED
  BY <1>1, <1>2 DEF Delta

(* History only grows, so what is true of a delta or a snapshot stays true. *)
HistoryGrows == version <= version' /\ \A v \in 0..version : history'[v] = history[v]

LEMMA DeltaStaysOK ==
  ASSUME TypeOK, HistoryGrows, version' \in Nat,
         NEW d \in Delta, DeltaOK(d)
  PROVE  DeltaOK(d)'
BY DeltaFields DEF HistoryGrows, DeltaOK, TypeOK

LEMMA SnapshotStaysOK ==
  ASSUME TypeOK, HistoryGrows, version' \in Nat,
         NEW s \in Snapshot, SnapshotOK(s)
  PROVE  SnapshotOK(s)'
BY DEF HistoryGrows, SnapshotOK, TypeOK, Snapshot
-----------------------------------------------------------------------------
(* The primary.                                                             *)

(* A chosen last change of k is what the log invariant says of k.           *)
LEMMA LastChangeIsPresent ==
  ASSUME TypeOK, PrimaryOK, LogOK,
         NEW v \in 0..version, v < version, StartsAt(Later(v), v),
         NEW k \in Keys, \E d \in Later(v) : k \in DOMAIN d.changes
  PROVE  LastChange(Later(v), k) = entries[k]
<1> DEFINE IsLast(d) == /\ k \in DOMAIN d.changes
                        /\ \A e \in Later(v) : k \in DOMAIN e.changes
                                                 => e.toVersion <= d.toVersion
<1>1. LastTouch(v, k)
  BY DEF LogOK
<1>2. PICK d \in Later(v) : IsLast(d) /\ d.changes[k] = entries[k]
  BY <1>1 DEF LastTouch
<1>3. ASSUME NEW e \in Later(v), IsLast(e) PROVE e = d
  <2>1. e \in deltaLog /\ d \in deltaLog /\ e \in Delta /\ d \in Delta
    BY DEF Later, TypeOK
  <2>2. e.toVersion = d.toVersion
    BY <1>2, <1>3, <2>1, DeltaFields
  <2> QED
    BY <2>1, <2>2 DEF LogOK
<1> DEFINE chosen == CHOOSE e \in Later(v) : IsLast(e)
<1>4. chosen \in Later(v) /\ IsLast(chosen)
  BY <1>2
<1>5. chosen = d
  BY <1>3, <1>4
<1>6. LastChange(Later(v), k) = chosen.changes[k]
  BY DEF LastChange
<1> QED
  BY <1>2, <1>5, <1>6

(* getDeltaSince answers null or a delta that is true of the history and    *)
(* ends at the present version.                                             *)
LEMMA DeltaSinceOK ==
  ASSUME TypeOK, PrimaryOK, LogOK, NEW v \in 0..version
  PROVE  \/ DeltaSince(v) = NoDelta /\ v < version /\ ~StartsAt(Later(v), v)
         \/ /\ DeltaSince(v) \in Delta
            /\ DeltaOK(DeltaSince(v))
            /\ DeltaSince(v).toVersion = version
<1>1. CASE v >= version
  <2>1. v = version /\ version \in Nat /\ v \in Nat
    BY <1>1 DEF TypeOK
  <2>2. DeltaSince(v) = [fromVersion |-> v, toVersion |-> version,
                         changes |-> NoChanges]
    BY <1>1 DEF DeltaSince
  <2>3. Apply(history[v], NoChanges) = history[v]
    <3>1. history[v] \in State
      BY <2>1 DEF TypeOK
    <3> QED
      BY <3>1 DEF Apply, NoChanges, State
  <2> QED
    BY <2>1, <2>2, <2>3, NoChangesType DEF Delta, DeltaOK
<1>2. CASE v < version /\ ~StartsAt(Later(v), v)
  BY <1>2 DEF DeltaSince, TypeOK
<1>3. CASE v < version /\ StartsAt(Later(v), v)
  <2> DEFINE L == Later(v)
             D == DeltaSince(v)
  <2>0. v \in Nat /\ version \in Nat /\ ~(v >= version)
    BY <1>3 DEF TypeOK
  <2>1. D = [fromVersion |-> v, toVersion |-> LastVersion(L),
             changes |-> Flatten(L)]
    BY <1>3, <2>0 DEF DeltaSince
  <2>2. L \subseteq deltaLog /\ L \subseteq Delta
    BY DEF Later, TypeOK
  <2>3. LastVersion(L) = version
    <3>1. PICK d \in deltaLog : d.toVersion = version
      BY <2>0, ConstantsAssumption DEF LogOK, PrimaryOK
    <3>2. d \in L
      BY <1>3, <3>1 DEF Later
    <3>3. \A e \in L : e.toVersion <= version
      BY <2>2 DEF LogOK, DeltaOK
    <3> DEFINE IsMax(x) == \A e \in L : e.toVersion <= x.toVersion
               m == CHOOSE x \in L : IsMax(x)
    <3>4. IsMax(d)
      BY <3>1, <3>3
    <3>5. m \in L /\ IsMax(m)
      BY <3>2, <3>4
    <3>6. m.toVersion <= version /\ version <= m.toVersion /\ m.toVersion \in Nat
      BY <2>2, <3>1, <3>2, <3>3, <3>5, DeltaFields
    <3>7. LastVersion(L) = m.toVersion
      BY DEF LastVersion
    <3> QED
      BY <2>0, <3>6, <3>7
  <2>4. \A k \in DOMAIN Flatten(L) :
           k \in Keys /\ Flatten(L)[k] = entries[k]
    <3> SUFFICES ASSUME NEW k \in DOMAIN Flatten(L)
                 PROVE  k \in Keys /\ Flatten(L)[k] = entries[k]
      OBVIOUS
    <3>1. k \in UNION {DOMAIN d.changes : d \in L} /\ Flatten(L)[k] = LastChange(L, k)
      BY DEF Flatten
    <3>2. PICK d \in L : k \in DOMAIN d.changes
      BY <3>1
    <3>3. k \in Keys
      BY <2>2, <3>2, DeltaFields
    <3> QED
      BY <1>3, <3>1, <3>2, <3>3, LastChangeIsPresent
  <2>5. entries \in State /\ history[v] \in State
    BY <2>0, <1>3 DEF TypeOK
  <2>6. Flatten(L) \in Changes
    <3>1. Flatten(L) \in [DOMAIN Flatten(L) -> Values \union {Absent}]
      BY <2>4, <2>5 DEF Flatten, State
    <3>2. DOMAIN Flatten(L) \in SUBSET Keys
      BY <2>4
    <3> QED
      BY <3>1, <3>2 DEF Changes
  <2>7. Apply(history[v], Flatten(L)) = entries
    <3>1. ASSUME NEW k \in Keys, k \notin DOMAIN Flatten(L)
          PROVE  history[v][k] = entries[k]
      <4>1. \A d \in L : k \notin DOMAIN d.changes
        BY <3>1 DEF Flatten
      <4>2. LastTouch(v, k)
        BY <1>3 DEF LogOK
      <4> QED
        BY <4>1, <4>2 DEF LastTouch
    <3>2. Apply(history[v], Flatten(L)) = [k \in Keys |-> entries[k]]
      BY <2>4, <3>1 DEF Apply
    <3> QED
      BY <2>5, <3>2 DEF State
  <2>8. DeltaOK(D)
    BY <2>0, <2>1, <2>3, <2>7, <1>3 DEF DeltaOK, PrimaryOK
  <2> QED
    BY <2>0, <2>1, <2>3, <2>6, <2>8 DEF Delta
<1> QED
  BY <1>1, <1>2, <1>3 DEF TypeOK

(* A commit keeps what the invariant says of the primary, only extends the  *)
(* history, and its delta is true of the extended history.                  *)
LEMMA CommitStep ==
  ASSUME TypeOK, PrimaryOK, LogOK,
         NEW c \in Changes, NEW d, d = CommittedDelta(c), CommitEntries(d)
  PROVE  /\ /\ version' \in Nat
            /\ entries' \in State
            /\ deltaLog' \in SUBSET Delta
            /\ history' \in [0..version' -> State]
         /\ HistoryGrows
         /\ PrimaryOK'
         /\ LogOK'
         /\ d # NoDelta => d \in Delta /\ DeltaOK(d)'
<1>0. version \in Nat /\ version >= 1 /\ entries \in State
  BY DEF TypeOK, PrimaryOK
<1>1. CASE d = NoDelta
  <2>1. UNCHANGED primaryVars
    BY <1>1 DEF CommitEntries
  <2>2. PrimaryOK' /\ HistoryGrows
    BY <2>1, <1>0 DEF PrimaryOK, HistoryGrows, primaryVars
  <2>3. LogOK'
    BY <2>1 DEF LogOK, primaryVars, DeltaOK, Later, StartsAt, LastTouch
  <2> QED
    BY <1>1, <2>1, <2>2, <2>3 DEF TypeOK, primaryVars
<1>2. CASE d # NoDelta
  <2> DEFINE E == Effective(entries, c)
             next == Apply(entries, E)
  <2>1. d = [fromVersion |-> version, toVersion |-> version + 1, changes |-> E]
    BY <1>2 DEF CommittedDelta
  <2>2. E \in Changes /\ next \in State
    BY <1>0, EffectiveType, ApplyType
  <2>3. d \in Delta
    BY <2>1, <2>2, <1>0 DEF Delta
  <2>4. /\ version' = version + 1
        /\ entries' = next
        /\ deltaLog' = TrimDeltaLog(deltaLog \union {d}, version + 1)
        /\ history' = [v \in 0..version + 1 |-> IF v <= version THEN history[v] ELSE next]
    BY <1>2, <2>1 DEF CommitEntries
  <2>5. history \in [0..version -> State] /\ deltaLog \in SUBSET Delta
    BY DEF TypeOK
  <2>6. /\ version' \in Nat
        /\ entries' \in State
        /\ deltaLog' \in SUBSET Delta
        /\ history' \in [0..version' -> State]
    BY <1>0, <2>2, <2>3, <2>4, <2>5 DEF TrimDeltaLog
  <2>7. HistoryGrows
    BY <1>0, <2>4 DEF HistoryGrows
  <2>8. PrimaryOK'
    BY <1>0, <2>4, <2>5 DEF PrimaryOK
  <2>9. DeltaOK(d)'
    BY <1>0, <2>1, <2>4, <2>5 DEF DeltaOK, PrimaryOK
  <2>10. \A e \in deltaLog' : e = d \/ e \in deltaLog
    BY <2>4 DEF TrimDeltaLog
  <2>11. \A e \in deltaLog : /\ e \in Delta /\ DeltaOK(e)
                             /\ e.toVersion = e.fromVersion + 1
                             /\ e.toVersion <= version
                             /\ e.toVersion \in Nat /\ e.fromVersion \in Nat
    BY <2>5, DeltaFields DEF LogOK, DeltaOK
  <2>12. \A e \in deltaLog' : DeltaOK(e)' /\ e.toVersion = e.fromVersion + 1
    <3> SUFFICES ASSUME NEW e \in deltaLog'
                 PROVE  DeltaOK(e)' /\ e.toVersion = e.fromVersion + 1
      OBVIOUS
    <3>1. CASE e = d
      BY <3>1, <2>1, <2>9
    <3>2. CASE e \in deltaLog
      BY <3>2, <2>6, <2>7, <2>11, DeltaStaysOK
    <3> QED
      BY <2>10, <3>1, <3>2
  <2>13. \A e, f \in deltaLog' : e.toVersion = f.toVersion => e = f
    <3> SUFFICES ASSUME NEW e \in deltaLog', NEW f \in deltaLog',
                        e.toVersion = f.toVersion
                 PROVE  e = f
      OBVIOUS
    <3>1. d.toVersion = version + 1
      BY <2>1
    <3>2. CASE e \in deltaLog /\ f \in deltaLog
      BY <3>2 DEF LogOK
    <3>3. CASE e = d \/ f = d
      BY <3>1, <3>3, <2>10, <2>11, <1>0
    <3> QED
      BY <3>2, <3>3, <2>10
  <2>14. d \in deltaLog' /\ d.toVersion = version'
    BY <1>0, <2>1, <2>4, ConstantsAssumption DEF TrimDeltaLog
  <2>15. ASSUME NEW v \in 0..version', v < version', StartsAt(Later(v), v)',
                NEW k \in Keys
         PROVE  LastTouch(v, k)'
    <3>0. /\ d \in Later(v)'
          /\ d.toVersion = version + 1 /\ d.fromVersion = version /\ d.changes = E
          /\ v \in 0..version
      BY <1>0, <2>1, <2>4, <2>14, <2>15 DEF Later
    <3>1. \A e \in Later(v)' : e.toVersion <= d.toVersion
      BY <3>0, <2>10, <2>11, <1>0 DEF Later
    <3>2. CASE k \in DOMAIN E
      <4>1. d.changes[k] = entries'[k]
        BY <3>0, <3>2, <2>4 DEF Apply
      <4> QED
        BY <3>0, <3>1, <3>2, <4>1 DEF LastTouch
    <3>3. CASE k \notin DOMAIN E
      <4>1. entries'[k] = entries[k]
        BY <3>3, <2>4 DEF Apply
      <4>2. history'[v] = history[v]
        BY <3>0, <2>7 DEF HistoryGrows
      <4>3. CASE v = version
        <5>1. \A e \in Later(v)' : e = d
          BY <4>3, <2>10, <2>11, <1>0 DEF Later
        <5>2. history[v] = entries
          BY <4>3 DEF PrimaryOK
        <5> QED
          BY <3>0, <3>3, <4>1, <4>2, <5>1, <5>2 DEF LastTouch
      <4>4. CASE v < version
        <5>1. PICK e \in Later(v)' : /\ e.fromVersion = v
                                     /\ \A f \in Later(v)' : e.toVersion <= f.toVersion
          BY <2>15 DEF StartsAt
        <5>2. e \in deltaLog /\ e.toVersion = v + 1 /\ e.toVersion > (version + 1) - DeltaRetention
          <6>1. e \in deltaLog' /\ e # d
            BY <5>1, <4>4, <3>0, <1>0 DEF Later
          <6>2. e \in deltaLog
            BY <6>1, <2>10
          <6>3. e.toVersion > (version + 1) - DeltaRetention
            BY <6>1, <2>4 DEF TrimDeltaLog
          <6> QED
            BY <6>2, <6>3, <5>1, <2>11
        <5>3. \A f \in Later(v) : f \in Later(v)'
          BY <5>2, <2>4, <2>11, <3>0, <1>0, ConstantsAssumption DEF Later, TrimDeltaLog
        <5>4. \A f \in Later(v)' : f = d \/ f \in Later(v)
          BY <2>10 DEF Later
        <5>5. e \in Later(v)
          BY <5>2, <3>0 DEF Later
        <5>6. StartsAt(Later(v), v)
          BY <5>1, <5>3, <5>5 DEF StartsAt
        <5>7. LastTouch(v, k)
          BY <3>0, <4>4, <5>6 DEF LogOK
        <5>8. CASE /\ \A f \in Later(v) : k \notin DOMAIN f.changes
                   /\ history[v][k] = entries[k]
          BY <5>8, <5>4, <3>0, <3>3, <4>1, <4>2 DEF LastTouch
        <5>9. CASE \E f \in Later(v) :
                     /\ k \in DOMAIN f.changes
                     /\ f.changes[k] = entries[k]
                     /\ \A g \in Later(v) : k \in DOMAIN g.changes
                                               => g.toVersion <= f.toVersion
          <6>1. PICK f \in Later(v) :
                     /\ k \in DOMAIN f.changes
                     /\ f.changes[k] = entries[k]
                     /\ \A g \in Later(v) : k \in DOMAIN g.changes
                                               => g.toVersion <= f.toVersion
            BY <5>9
          <6>2. \A g \in Later(v)' : k \in DOMAIN g.changes => g.toVersion <= f.toVersion
            BY <6>1, <5>4, <3>0, <3>3
          <6> QED
            BY <6>1, <6>2, <5>3, <4>1 DEF LastTouch
        <5> QED
          BY <5>7, <5>8, <5>9 DEF LastTouch
      <4> QED
        BY <3>0, <4>3, <4>4, <1>0
    <3> QED
      BY <3>2, <3>3
  <2>16. ASSUME NEW n \in 1..version', n > version' - DeltaRetention
         PROVE  \E e \in deltaLog' : e.toVersion = n
    <3>1. CASE n = version'
      BY <3>1, <2>14
    <3>2. CASE n # version'
      <4>1. n \in 1..version /\ n > version - DeltaRetention
        BY <3>2, <2>16, <2>4, <1>0, ConstantsAssumption
      <4>2. PICK e \in deltaLog : e.toVersion = n
        BY <4>1 DEF LogOK
      <4>3. e \in deltaLog'
        BY <4>2, <2>4, <2>16 DEF TrimDeltaLog
      <4> QED
        BY <4>2, <4>3
    <3> QED
      BY <3>1, <3>2
  <2>17. LogOK'
    BY <2>12, <2>13, <2>15, <2>16 DEF LogOK
  <2> QED
    BY <2>3, <2>6, <2>7, <2>8, <2>9, <2>17
<1> QED
  BY <1>1, <1>2
-----------------------------------------------------------------------------
(* What is in flight.                                                       *)
LEMMA SendInto ==
  ASSUME NEW S, NEW c \in [Workers -> Seq(S)], NEW w \in Workers, NEW m \in S
  PROVE  Send(c, w, m) \in [Workers -> Seq(S)]
<1>1. Append(c[w], m) \in Seq(S)
  BY AppendElements
<1> QED
  BY <1>1 DEF Send

LEMMA DropFrom ==
  ASSUME NEW S, NEW c \in [Workers -> Seq(S)], NEW w \in Workers, c[w] # << >>
  PROVE  /\ Drop(c, w) \in [Workers -> Seq(S)]
         /\ Head(c[w]) \in S
<1>1. Tail(c[w]) \in Seq(S) /\ Head(c[w]) \in S
  BY TailElements
<1> QED
  BY <1>1 DEF Drop

LEMMA ChannelsGrow ==
  ASSUME NEW S, NEW T, S \subseteq T, NEW c \in [Workers -> Seq(S)]
  PROVE  c \in [Workers -> Seq(T)]
<1>1. \A w \in Workers : c[w] \in Seq(T)
  OBVIOUS
<1> QED
  BY <1>1

LEMMA FormsGrow ==
  ASSUME NEW D1, NEW D2, D1 \subseteq D2, NEW S1, NEW S2, S1 \subseteq S2
  PROVE  /\ Message(D1, S1) \subseteq Message(D2, S2)
         /\ Op(D1, S1) \subseteq Op(D2, S2)
<1>1. Message(D1, S1) \subseteq Message(D2, S2)
  BY DEF Message
<1>2. Op(D1, S1) \subseteq Op(D2, S2)
  BY DEF Op
<1> QED
  BY <1>1, <1>2

LEMMA UnsentGrows ==
  ASSUME NEW D1, NEW D2, D1 \subseteq D2
  PROVE  Unsent(D1) \subseteq Unsent(D2)
BY DEF Unsent

LEMMA RequestsGrow ==
  ASSUME NEW U, NEW V, U \subseteq V
  PROVE  Request(U) \subseteq Request(V)
BY DEF Request

LEMMA TruthStays ==
  ASSUME TypeOK, HistoryGrows, version' \in Nat
  PROVE  TrueDelta \subseteq TrueDelta' /\ TrueSnapshot \subseteq TrueSnapshot'
<1>1. TrueDelta \subseteq TrueDelta'
  BY DeltaStaysOK DEF TrueDelta, Delta, Changes
<1>2. TrueSnapshot \subseteq TrueSnapshot'
  BY SnapshotStaysOK DEF TrueSnapshot, Snapshot, State
<1> QED
  BY <1>1, <1>2

(* The types of the worker's own state, and what TypeOK says of the primary.*)
PrimaryType ==
  /\ version \in Nat
  /\ entries \in State
  /\ deltaLog \in SUBSET Delta
  /\ history \in [0..version -> State]

LocalType ==
  /\ accepted \in Seq(Workers \union {Nobody})
  /\ phase \in [Workers -> Phases]
  /\ boot \in [Workers -> Snapshot]
  /\ replicaVersion \in [Workers -> Nat]
  /\ replicaEntries \in [Workers -> State]
  /\ based \in [Workers -> BOOLEAN]
  /\ open \in [Workers -> SUBSET {"write", "fence"}]
  /\ exits \in Nat /\ reloads \in Nat

LEMMA TypeOKParts == TypeOK => PrimaryType /\ LocalType
BY DEF TypeOK, PrimaryType, LocalType

LEMMA PartsGiveTypeOK == PrimaryType /\ LocalType /\ InFlightOK => TypeOK
<1> SUFFICES ASSUME PrimaryType, LocalType, InFlightOK PROVE TypeOK
  OBVIOUS
<1>1. TrueDelta \subseteq Delta /\ TrueSnapshot \subseteq Snapshot /\ 0..version \subseteq Nat
  BY DEF TrueDelta, TrueSnapshot, PrimaryType
<1>2. /\ unsent \in Seq(Unsent(Delta))
      /\ up \in [Workers -> Seq(Request(Nat))]
      /\ down \in [Workers -> Seq(Message(Delta, Snapshot))]
      /\ tasks \in [Workers -> Seq(Message(Delta, Snapshot))]
      /\ ops \in [Workers -> Seq(Op(Delta, Snapshot))]
  <2>1. unsent \in Seq(Unsent(Delta))
    BY <1>1, UnsentGrows DEF InFlightOK
  <2>2. up \in [Workers -> Seq(Request(Nat))]
    BY <1>1, RequestsGrow, ChannelsGrow DEF InFlightOK
  <2>3. Message(TrueDelta, TrueSnapshot) \subseteq Message(Delta, Snapshot)
    BY <1>1, FormsGrow
  <2>4. Op(TrueDelta, TrueSnapshot) \subseteq Op(Delta, Snapshot)
    BY <1>1, FormsGrow
  <2> QED
    BY <2>1, <2>2, <2>3, <2>4, ChannelsGrow DEF InFlightOK
<1> QED
  BY <1>2 DEF TypeOK, PrimaryType, LocalType

(* What is in flight stays true while the history only grows.               *)
LEMMA InFlightStays ==
  ASSUME TypeOK, InFlightOK, HistoryGrows, version' \in Nat
  PROVE  /\ unsent \in Seq(Unsent(TrueDelta'))
         /\ up \in [Workers -> Seq(Request(0..version'))]
         /\ down \in [Workers -> Seq(Message(TrueDelta', TrueSnapshot'))]
         /\ tasks \in [Workers -> Seq(Message(TrueDelta', TrueSnapshot'))]
         /\ ops \in [Workers -> Seq(Op(TrueDelta', TrueSnapshot'))]
<1>1. TrueDelta \subseteq TrueDelta' /\ TrueSnapshot \subseteq TrueSnapshot'
  BY TruthStays
<1>2. 0..version \subseteq 0..version'
  BY DEF HistoryGrows, TypeOK
<1>3. unsent \in Seq(Unsent(TrueDelta'))
  BY <1>1, UnsentGrows DEF InFlightOK
<1>4. up \in [Workers -> Seq(Request(0..version'))]
  BY <1>2, RequestsGrow, ChannelsGrow DEF InFlightOK
<1>5. Message(TrueDelta, TrueSnapshot) \subseteq Message(TrueDelta', TrueSnapshot')
  BY <1>1, FormsGrow
<1>6. Op(TrueDelta, TrueSnapshot) \subseteq Op(TrueDelta', TrueSnapshot')
  BY <1>1, FormsGrow
<1> QED
  BY <1>3, <1>4, <1>5, <1>6, ChannelsGrow DEF InFlightOK

LEMMA ReplicasStay ==
  ASSUME TypeOK, ReplicasOK, HistoryGrows, version' \in Nat,
         UNCHANGED <<boot, replicaVersion, replicaEntries, based>>
  PROVE  ReplicasOK'
BY DEF ReplicasOK, TypeOK, HistoryGrows, SnapshotOK, Snapshot

LEMMA QuietStep ==
  ASSUME TypeOK, UNCHANGED primaryVars
  PROVE  /\ HistoryGrows /\ version' \in Nat
         /\ TrueDelta' = TrueDelta /\ TrueSnapshot' = TrueSnapshot
         /\ version' = version /\ history' = history
BY DEF TypeOK, primaryVars, HistoryGrows, TrueDelta, TrueSnapshot, DeltaOK, SnapshotOK

(* What a step has to keep besides the facts about the primary.             *)
Rest == LocalType /\ InFlightOK /\ ReplicasOK

(* A step that only touches the worker's queues and requests.               *)
LEMMA QueueStep ==
  ASSUME IInv, UNCHANGED primaryVars, UNCHANGED replicaVars, UNCHANGED startVars,
         UNCHANGED boundVars,
         accepted' \in Seq(Workers \union {Nobody}),
         unsent' \in Seq(Unsent(TrueDelta)),
         up' \in [Workers -> Seq(Request(0..version))],
         down' \in [Workers -> Seq(Message(TrueDelta, TrueSnapshot))],
         tasks' \in [Workers -> Seq(Message(TrueDelta, TrueSnapshot))],
         ops' \in [Workers -> Seq(Op(TrueDelta, TrueSnapshot))],
         open' \in [Workers -> SUBSET {"write", "fence"}]
  PROVE  Rest'
<1>1. TypeOK /\ InFlightOK /\ ReplicasOK
  BY DEF IInv
<1>2. LocalType'
  BY <1>1 DEF TypeOK, LocalType, replicaVars, startVars, boundVars
<1>3. InFlightOK'
  BY <1>1, QuietStep DEF InFlightOK
<1>4. ReplicasOK'
  BY <1>1, QuietStep, ReplicasStay DEF replicaVars, startVars
<1> QED
  BY <1>2, <1>3, <1>4 DEF Rest

(* Answering a request.                                                     *)
LEMMA AnswerStep ==
  ASSUME IInv, NEW w \in Workers, NEW method,
         NEW m \in Message(TrueDelta, TrueSnapshot), AnswerRequest(w, method, m)
  PROVE  Rest'
<1>1. /\ up \in [Workers -> Seq(Request(0..version))]
      /\ down \in [Workers -> Seq(Message(TrueDelta, TrueSnapshot))]
      /\ up[w] # << >> /\ up' = Drop(up, w) /\ down' = Send(down, w, m)
  BY DEF IInv, InFlightOK, AnswerRequest
<1>2. up' \in [Workers -> Seq(Request(0..version))]
  BY <1>1, DropFrom
<1>3. down' \in [Workers -> Seq(Message(TrueDelta, TrueSnapshot))]
  BY <1>1, SendInto
<1> QED
  BY <1>2, <1>3, QueueStep
     DEF AnswerRequest, IInv, TypeOK, InFlightOK, primaryVars, replicaVars,
         startVars, boundVars

LEMMA SnapshotIsTrue ==
  ASSUME IInv
  PROVE  GetSnapshot \in TrueSnapshot
BY DEF IInv, TypeOK, PrimaryOK, GetSnapshot, TrueSnapshot, Snapshot, SnapshotOK

LEMMA HandleStep ==
  ASSUME IInv, NEW w \in Workers,
         HandleReady(w) \/ HandleGetDeltaSince(w) \/ HandleGetSnapshot(w) \/ HandleCommit(w)
  PROVE  Rest'
<1>1. up[w] # << >> /\ up \in [Workers -> Seq(Request(0..version))]
  BY DEF HandleReady, HandleGetDeltaSince, HandleGetSnapshot, HandleCommit, AnswerRequest,
         IInv, InFlightOK
<1> DEFINE r == Head(up[w])
<1>2. r \in Request(0..version)
  BY <1>1, DropFrom
<1>3. r.owner \in Owners /\ r.fromVersion \in 0..version /\ "handler" \in Owners
  BY <1>2 DEF Request, Owners
<1>4. CASE HandleReady(w)
  <2>1. Msg("STATE_SNAPSHOT", GetSnapshot, "handler") \in Message(TrueDelta, TrueSnapshot)
    BY <1>3, SnapshotIsTrue DEF Message, Msg
  <2> QED
    BY <1>4, <2>1, AnswerStep DEF HandleReady
<1>5. CASE HandleGetSnapshot(w)
  <2>1. Msg("getSnapshot", GetSnapshot, r.owner) \in Message(TrueDelta, TrueSnapshot)
    BY <1>3, SnapshotIsTrue DEF Message, Msg
  <2> QED
    BY <1>5, <2>1, AnswerStep DEF HandleGetSnapshot
<1>6. CASE HandleGetDeltaSince(w)
  <2>1. DeltaSince(r.fromVersion) \in TrueDelta \union {NoDelta}
    BY <1>3, DeltaSinceOK DEF IInv, TrueDelta
  <2>2. Msg("getDeltaSince", DeltaSince(r.fromVersion), r.owner)
          \in Message(TrueDelta, TrueSnapshot)
    BY <1>3, <2>1 DEF Message, Msg
  <2> QED
    BY <1>6, <2>2, AnswerStep DEF HandleGetDeltaSince
<1>7. CASE HandleCommit(w)
  <2>1. up' \in [Workers -> Seq(Request(0..version))]
    BY <1>1, <1>7, DropFrom DEF HandleCommit
  <2>2. accepted' \in Seq(Workers \union {Nobody})
    BY <1>7, AppendElements DEF HandleCommit, IInv, TypeOK
  <2> QED
    BY <1>7, <2>1, <2>2, QueueStep
       DEF HandleCommit, IInv, TypeOK, InFlightOK, primaryVars, replicaVars,
           startVars, boundVars
<1> QED
  BY <1>4, <1>5, <1>6, <1>7

(* The primary's commits.  Everything else only has to survive the growth   *)
(* of the history.                                                          *)
LEMMA BroadcastStaysTrue ==
  ASSUME NEW S, down \in [Workers -> Seq(S)], NEW m \in S
  PROVE  Broadcast(m) \in [Workers -> Seq(S)]
<1>1. \A w \in Workers : Append(down[w], m) \in Seq(S)
  BY AppendElements
<1> QED
  BY <1>1 DEF Broadcast

LEMMA CommitStepRest ==
  ASSUME IInv, HistoryGrows, version' \in Nat,
         UNCHANGED replicaVars, UNCHANGED startVars,
         exits' \in Nat, reloads' \in Nat,
         UNCHANGED <<up, tasks, ops, open>>,
         accepted' \in Seq(Workers \union {Nobody}),
         unsent' \in Seq(Unsent(TrueDelta')),
         down' \in [Workers -> Seq(Message(TrueDelta', TrueSnapshot'))]
  PROVE  Rest'
<1>1. TypeOK /\ InFlightOK /\ ReplicasOK
  BY DEF IInv
<1>2. LocalType'
  BY <1>1 DEF TypeOK, LocalType, replicaVars, startVars
<1>3. InFlightOK'
  BY <1>1, InFlightStays DEF InFlightOK
<1>4. ReplicasOK'
  BY <1>1, ReplicasStay DEF replicaVars, startVars
<1> QED
  BY <1>2, <1>3, <1>4 DEF Rest

Primaries == PrimaryType /\ PrimaryOK /\ LogOK

LEMMA CommittingStep ==
  ASSUME IInv, CommitAndEmit \/ RefreshWithNewConfig \/ RunCommit
  PROVE  Primaries' /\ Rest'
<1>1. TypeOK /\ PrimaryOK /\ LogOK /\ InFlightOK
  BY DEF IInv
<1>2. PICK c \in Changes : CommitEntries(CommittedDelta(c)) /\
        \/ /\ CommitAndEmit
           /\ CommittedDelta(c) # NoDelta
           /\ down' = Broadcast(Msg("STATE_DELTA", CommittedDelta(c), "handler"))
        \/ RefreshWithNewConfig
        \/ /\ RunCommit
           /\ unsent' = Append(unsent, [origin |-> Head(accepted),
                                        delta |-> CommittedDelta(c)])
  BY DEF CommitAndEmit, RefreshWithNewConfig, RunCommit
<1>3. PICK d : d = CommittedDelta(c)
  OBVIOUS
<1>4. CommitEntries(d)
  BY <1>2, <1>3
<1>5. /\ Primaries' /\ HistoryGrows /\ version' \in Nat
      /\ d # NoDelta => d \in TrueDelta'
  BY <1>1, <1>3, <1>4, CommitStep DEF Primaries, PrimaryType, TrueDelta, Delta, Changes
<1>6. /\ unsent \in Seq(Unsent(TrueDelta'))
      /\ down \in [Workers -> Seq(Message(TrueDelta', TrueSnapshot'))]
  BY <1>1, <1>5, InFlightStays
<1>7. "handler" \in Owners
  BY DEF Owners
<1>8. CASE CommitAndEmit /\ d # NoDelta
           /\ down' = Broadcast(Msg("STATE_DELTA", d, "handler"))
  <2>1. Msg("STATE_DELTA", d, "handler") \in Message(TrueDelta', TrueSnapshot')
    BY <1>5, <1>7, <1>8 DEF Message, Msg
  <2>2. down' \in [Workers -> Seq(Message(TrueDelta', TrueSnapshot'))]
    BY <1>6, <1>8, <2>1, BroadcastStaysTrue
  <2>3. Rest'
    BY <1>1, <1>5, <1>6, <1>8, <2>2, CommitStepRest
       DEF CommitAndEmit, replicaVars, startVars, TypeOK
  <2> QED
    BY <1>5, <2>3
<1>9. CASE RefreshWithNewConfig
  <2> DEFINE m == Msg("STATE_SNAPSHOT", [version |-> version', state |-> entries'], "handler")
  <2>1. [version |-> version', state |-> entries'] \in TrueSnapshot'
    BY <1>5 DEF Primaries, PrimaryType, PrimaryOK, TrueSnapshot, Snapshot, SnapshotOK, State
  <2>2. m \in Message(TrueDelta', TrueSnapshot')
    BY <1>7, <2>1 DEF Message, Msg
  <2>3. down' = Broadcast(m)
    BY <1>9 DEF RefreshWithNewConfig
  <2>4. down' \in [Workers -> Seq(Message(TrueDelta', TrueSnapshot'))]
    BY <1>6, <2>2, <2>3, BroadcastStaysTrue
  <2>5. Rest'
    BY <1>1, <1>5, <1>6, <1>9, <2>4, CommitStepRest
       DEF RefreshWithNewConfig, replicaVars, startVars, TypeOK
  <2> QED
    BY <1>5, <2>5
<1>10. CASE RunCommit /\ unsent' = Append(unsent, [origin |-> Head(accepted), delta |-> d])
  <2>1. accepted' \in Seq(Workers \union {Nobody}) /\ Head(accepted) \in Workers \union {Nobody}
    BY <1>1, <1>10, TailElements DEF RunCommit, TypeOK
  <2>2. [origin |-> Head(accepted), delta |-> d] \in Unsent(TrueDelta')
    BY <1>5, <2>1 DEF Unsent
  <2>3. unsent' \in Seq(Unsent(TrueDelta'))
    BY <1>6, <1>10, <2>2, AppendElements
  <2>4. Rest'
    BY <1>1, <1>5, <1>6, <1>10, <2>1, <2>3, CommitStepRest
       DEF RunCommit, replicaVars, startVars, TypeOK
  <2> QED
    BY <1>5, <2>4
<1> QED
  BY <1>2, <1>3, <1>8, <1>9, <1>10

LEMMA FinishStep ==
  ASSUME IInv, FinishCommit
  PROVE  Rest'
<1>1. /\ TypeOK
      /\ unsent \in Seq(Unsent(TrueDelta))
      /\ down \in [Workers -> Seq(Message(TrueDelta, TrueSnapshot))]
  BY DEF IInv, InFlightOK
<1> DEFINE commit == Head(unsent)
           told   == IF commit.delta = NoDelta THEN down
                     ELSE Broadcast(Msg("STATE_DELTA", commit.delta, "handler"))
<1>2. commit \in Unsent(TrueDelta) /\ unsent' \in Seq(Unsent(TrueDelta))
  BY <1>1, TailElements DEF FinishCommit
<1>3. commit.delta \in TrueDelta \union {NoDelta} /\ commit.origin \in Workers \union {Nobody}
  BY <1>2 DEF Unsent
<1>4. "handler" \in Owners /\ "write" \in Owners
  BY DEF Owners
<1>5. told \in [Workers -> Seq(Message(TrueDelta, TrueSnapshot))]
  <2>1. CASE commit.delta # NoDelta
    <3>1. Msg("STATE_DELTA", commit.delta, "handler") \in Message(TrueDelta, TrueSnapshot)
      BY <1>3, <1>4, <2>1 DEF Message, Msg
    <3> QED
      BY <1>1, <2>1, <3>1, BroadcastStaysTrue
  <2> QED
    BY <1>1, <2>1
<1>6. Msg("commitProjectPaths", commit.delta, "write") \in Message(TrueDelta, TrueSnapshot)
  BY <1>3, <1>4 DEF Message, Msg
<1>7. down' = IF commit.origin = Nobody THEN told
              ELSE Send(told, commit.origin, Msg("commitProjectPaths", commit.delta, "write"))
  BY DEF FinishCommit
<1>8. down' \in [Workers -> Seq(Message(TrueDelta, TrueSnapshot))]
  <2> HIDE DEF told
  <2> QED
    BY <1>3, <1>5, <1>6, <1>7, SendInto
<1> QED
  BY <1>1, <1>2, <1>8, QueueStep
     DEF FinishCommit, IInv, TypeOK, InFlightOK, primaryVars, replicaVars,
         startVars, boundVars
-----------------------------------------------------------------------------
(* The workers.                                                             *)
Quiet == UNCHANGED primaryVars

(* A step that changes where startup stands, or its snapshot.               *)
LEMMA StartStep ==
  ASSUME IInv, Quiet, UNCHANGED replicaVars, UNCHANGED boundVars,
         UNCHANGED <<accepted, unsent, tasks, ops, open>>,
         up' \in [Workers -> Seq(Request(0..version))],
         down' \in [Workers -> Seq(Message(TrueDelta, TrueSnapshot))],
         phase' \in [Workers -> Phases],
         boot' \in [Workers -> TrueSnapshot]
  PROVE  Rest'
<1>1. TypeOK /\ InFlightOK /\ ReplicasOK
  BY DEF IInv
<1>2. /\ TrueDelta' = TrueDelta /\ TrueSnapshot' = TrueSnapshot
      /\ version' = version /\ history' = history
  BY <1>1, QuietStep DEF Quiet
<1>3. boot' \in [Workers -> Snapshot] /\ \A w \in Workers : SnapshotOK(boot'[w])
  BY DEF TrueSnapshot
<1>4. LocalType'
  BY <1>1, <1>3 DEF TypeOK, LocalType, replicaVars, boundVars
<1>5. InFlightOK'
  BY <1>1, <1>2 DEF InFlightOK
<1>6. ReplicasOK'
  BY <1>1, <1>2, <1>3 DEF ReplicasOK, replicaVars, SnapshotOK
<1> QED
  BY <1>4, <1>5, <1>6 DEF Rest

LEMMA BootIsTrue ==
  ASSUME IInv
  PROVE  boot \in [Workers -> TrueSnapshot]
BY DEF IInv, TypeOK, ReplicasOK, TrueSnapshot

LEMMA ReceiveStep ==
  ASSUME IInv, NEW w \in Workers, ReceiveMessage(w)
  PROVE  Rest'
<1> DEFINE M == Message(TrueDelta, TrueSnapshot)
           m == Head(down[w])
<1>1. /\ TypeOK
      /\ up \in [Workers -> Seq(Request(0..version))]
      /\ down \in [Workers -> Seq(M)]
      /\ tasks \in [Workers -> Seq(M)]
      /\ ops \in [Workers -> Seq(Op(TrueDelta, TrueSnapshot))]
      /\ unsent \in Seq(Unsent(TrueDelta))
  BY DEF IInv, InFlightOK
<1>2. down[w] # << >> /\ down' = Drop(down, w)
  BY DEF ReceiveMessage, ReceiveInitialSnapshot, DropEarlyBroadcast, ReceiveBroadcast,
         ReceiveResponse, Receiving
<1>3. down' \in [Workers -> Seq(M)] /\ m \in M
  BY <1>1, <1>2, DropFrom
<1>4. CASE ReceiveInitialSnapshot(w)
  <2>1. m.type = "STATE_SNAPSHOT"
    BY <1>4 DEF ReceiveInitialSnapshot, Receiving
  <2>2. m.body \in TrueSnapshot
    BY <1>3, <2>1 DEF Message
  <2>3. boot' \in [Workers -> TrueSnapshot]
    BY <1>4, <2>2, BootIsTrue DEF ReceiveInitialSnapshot
  <2>4. phase' \in [Workers -> Phases]
    BY <1>1, <1>4 DEF ReceiveInitialSnapshot, TypeOK, Phases
  <2> QED
    BY <1>1, <1>3, <1>4, <2>3, <2>4, StartStep
       DEF ReceiveInitialSnapshot, Quiet, primaryVars, replicaVars, boundVars
<1>5. CASE DropEarlyBroadcast(w)
  BY <1>1, <1>3, <1>5, QueueStep
     DEF DropEarlyBroadcast, TypeOK, primaryVars, replicaVars, startVars, boundVars
<1>6. CASE ReceiveBroadcast(w)
  <2>1. m.type \in {"STATE_DELTA", "STATE_SNAPSHOT"}
    BY <1>6 DEF ReceiveBroadcast, Receiving
  <2>2. OpOf(m, TRUE) \in Op(TrueDelta, TrueSnapshot)
    BY <1>3, <2>1 DEF Message, Op, OpOf
  <2>3. ops' \in [Workers -> Seq(Op(TrueDelta, TrueSnapshot))]
    BY <1>1, <1>6, <2>2, SendInto DEF ReceiveBroadcast
  <2> QED
    BY <1>1, <1>3, <1>6, <2>3, QueueStep
       DEF ReceiveBroadcast, TypeOK, primaryVars, replicaVars, startVars, boundVars
<1>7. CASE ReceiveResponse(w)
  <2>1. tasks' \in [Workers -> Seq(M)]
    BY <1>1, <1>3, <1>7, SendInto DEF ReceiveResponse
  <2> QED
    BY <1>1, <1>3, <1>7, <2>1, QueueStep
       DEF ReceiveResponse, TypeOK, primaryVars, replicaVars, startVars, boundVars
<1> QED
  BY <1>4, <1>5, <1>6, <1>7 DEF ReceiveMessage

LEMMA ReplicaVersionBound ==
  ASSUME IInv, NEW w \in Workers
  PROVE  replicaVersion[w] \in 0..version /\ boot[w].version \in 0..version
BY DEF IInv, TypeOK, ReplicasOK, SnapshotOK, Snapshot

LEMMA ResumeStep ==
  ASSUME IInv, NEW w \in Workers, Resume(w)
  PROVE  Rest'
<1> DEFINE M == Message(TrueDelta, TrueSnapshot)
           m == Head(tasks[w])
<1>1. /\ TypeOK
      /\ up \in [Workers -> Seq(Request(0..version))]
      /\ down \in [Workers -> Seq(M)]
      /\ tasks \in [Workers -> Seq(M)]
      /\ ops \in [Workers -> Seq(Op(TrueDelta, TrueSnapshot))]
      /\ unsent \in Seq(Unsent(TrueDelta))
  BY DEF IInv, InFlightOK
<1>2. tasks[w] # << >> /\ tasks' = Drop(tasks, w)
  BY DEF Resume, ResumeWithoutDelta, ResumeWithPayload, ResumeUnchangedWrite,
         ResumeAfterGap, Resuming
<1>3. tasks' \in [Workers -> Seq(M)] /\ m \in M
  BY <1>1, <1>2, DropFrom
<1>4. m.owner \in Owners
  BY <1>3 DEF Message
<1>5. CASE ResumeWithoutDelta(w)
  <2>1. Req("getSnapshot", 0, m.owner) \in Request(0..version)
    BY <1>1, <1>4 DEF Request, Req, TypeOK
  <2>2. up' \in [Workers -> Seq(Request(0..version))]
    BY <1>1, <1>5, <2>1, SendInto DEF ResumeWithoutDelta
  <2> QED
    BY <1>1, <1>3, <1>5, <2>2, QueueStep
       DEF ResumeWithoutDelta, TypeOK, primaryVars, replicaVars, startVars, boundVars
<1>6. CASE ResumeWithPayload(w)
  <2>1. OpOf(m, m.type = "commitProjectPaths") \in Op(TrueDelta, TrueSnapshot)
    <3>1. m.body # NoDelta /\ m.type \in {"getDeltaSince", "getSnapshot", "commitProjectPaths"}
      BY <1>6 DEF ResumeWithPayload, Resuming
    <3> QED
      BY <1>3, <3>1 DEF Message, Op, OpOf
  <2>2. ops' \in [Workers -> Seq(Op(TrueDelta, TrueSnapshot))]
    BY <1>1, <1>6, <2>1, SendInto DEF ResumeWithPayload
  <2> QED
    BY <1>1, <1>3, <1>6, <2>2, QueueStep
       DEF ResumeWithPayload, TypeOK, primaryVars, replicaVars, startVars, boundVars
<1>7. CASE ResumeUnchangedWrite(w)
  <2>1. open' \in [Workers -> SUBSET {"write", "fence"}]
    BY <1>1, <1>7 DEF ResumeUnchangedWrite, Closed, TypeOK
  <2> QED
    BY <1>1, <1>3, <1>7, <2>1, QueueStep
       DEF ResumeUnchangedWrite, TypeOK, primaryVars, replicaVars, startVars, boundVars
<1>8. CASE ResumeAfterGap(w)
  <2>1. Req("getDeltaSince", replicaVersion[w], m.owner) \in Request(0..version)
    BY <1>4, ReplicaVersionBound DEF Request, Req
  <2>2. up' \in [Workers -> Seq(Request(0..version))]
    BY <1>1, <1>8, <2>1, SendInto DEF ResumeAfterGap
  <2> QED
    BY <1>1, <1>3, <1>8, <2>2, QueueStep
       DEF ResumeAfterGap, TypeOK, primaryVars, replicaVars, startVars, boundVars
<1> QED
  BY <1>5, <1>6, <1>7, <1>8 DEF Resume

(* Installing a true state in the replica, and finishing what awaited it.   *)
LEMMA InstallStep ==
  ASSUME IInv, Quiet, UNCHANGED boundVars,
         UNCHANGED <<accepted, unsent, down, tasks, boot>>,
         NEW w \in Workers, NEW v \in 0..version, NEW s \in State, NEW b \in BOOLEAN,
         b => s = history[v],
         replicaVersion' = [replicaVersion EXCEPT ![w] = v],
         replicaEntries' = [replicaEntries EXCEPT ![w] = s],
         based' = [based EXCEPT ![w] = b],
         up' \in [Workers -> Seq(Request(0..version))],
         ops' \in [Workers -> Seq(Op(TrueDelta, TrueSnapshot))],
         open' \in [Workers -> SUBSET {"write", "fence"}],
         phase' \in [Workers -> Phases]
  PROVE  Rest'
<1>1. TypeOK /\ InFlightOK /\ ReplicasOK
  BY DEF IInv
<1>2. /\ TrueDelta' = TrueDelta /\ TrueSnapshot' = TrueSnapshot
      /\ version' = version /\ history' = history
  BY <1>1, QuietStep DEF Quiet
<1>3. LocalType'
  BY <1>1 DEF TypeOK, LocalType, boundVars
<1>4. InFlightOK'
  BY <1>1, <1>2 DEF InFlightOK
<1>5. ReplicasOK'
  BY <1>1, <1>2 DEF ReplicasOK, TypeOK, SnapshotOK
<1> QED
  BY <1>3, <1>4, <1>5 DEF Rest

LEMMA SeqOf ==
  ASSUME NEW S, NEW q \in Seq(S), NEW r, r = [i \in DOMAIN q |-> r[i]],
         \A i \in DOMAIN q : r[i] \in S
  PROVE  r \in Seq(S)
<1>1. DOMAIN q = 1..Len(q) /\ Len(q) \in Nat
  OBVIOUS
<1>2. r \in [1..Len(q) -> S]
  BY <1>1
<1> QED
  BY <1>1, <1>2

LEMMA FinishedType ==
  ASSUME TypeOK, NEW w \in Workers, NEW owner, Finished(w, owner)
  PROVE  /\ open' \in [Workers -> SUBSET {"write", "fence"}]
         /\ phase' \in [Workers -> Phases]
<1>1. open' \in [Workers -> SUBSET {"write", "fence"}]
  BY DEF Finished, Closed, TypeOK
<1>2. phase' \in [Workers -> Phases]
  BY DEF Finished, TypeOK, Phases
<1> QED
  BY <1>1, <1>2

LEMMA RestartStep ==
  ASSUME IInv, NEW w \in Workers, Restart(w), exits' \in Nat
  PROVE  Rest'
<1>1. TypeOK /\ InFlightOK /\ ReplicasOK /\ PrimaryOK
  BY DEF IInv
<1>2. /\ TrueDelta' = TrueDelta /\ TrueSnapshot' = TrueSnapshot
      /\ version' = version /\ history' = history
  BY <1>1, QuietStep DEF Restart, primaryVars
<1>3. Empty \in State /\ NoSnapshot \in Snapshot /\ SnapshotOK(NoSnapshot)
  BY <1>1 DEF Empty, State, NoSnapshot, Snapshot, SnapshotOK, PrimaryOK, TypeOK
<1>4. accepted' \in Seq(Workers \union {Nobody})
  <2>1. accepted \in Seq(Workers \union {Nobody})
    BY <1>1 DEF TypeOK
  <2>2. /\ accepted' = [i \in DOMAIN accepted |-> accepted'[i]]
        /\ \A i \in DOMAIN accepted : accepted'[i] \in Workers \union {Nobody}
    BY <2>1 DEF Restart
  <2> QED
    BY <2>1, <2>2, SeqOf
<1>5. unsent' \in Seq(Unsent(TrueDelta))
  <2>1. unsent \in Seq(Unsent(TrueDelta))
    BY <1>1 DEF InFlightOK
  <2>2. \A i \in DOMAIN unsent :
          unsent[i] \in Unsent(TrueDelta)
          /\ [origin |-> Nobody, delta |-> unsent[i].delta] \in Unsent(TrueDelta)
    <3>1. \A i \in DOMAIN unsent : unsent[i] \in Unsent(TrueDelta)
      BY <2>1
    <3>2. \A u \in Unsent(TrueDelta) :
            [origin |-> Nobody, delta |-> u.delta] \in Unsent(TrueDelta)
      BY DEF Unsent
    <3> QED
      BY <3>1, <3>2
  <2>3. /\ unsent' = [i \in DOMAIN unsent |-> unsent'[i]]
        /\ \A i \in DOMAIN unsent : unsent'[i] \in Unsent(TrueDelta)
    BY <2>2 DEF Restart
  <2> QED
    BY <2>1, <2>3, SeqOf
<1>6. LocalType'
  BY <1>1, <1>3, <1>4 DEF TypeOK, LocalType, Restart, Phases, NoSnapshot
<1>7. InFlightOK'
  BY <1>1, <1>2, <1>5 DEF InFlightOK, Restart
<1>8. ReplicasOK'
  BY <1>1, <1>2, <1>3 DEF ReplicasOK, TypeOK, Restart, SnapshotOK
<1> QED
  BY <1>6, <1>7, <1>8 DEF Rest

LEMMA OperationStep ==
  ASSUME IInv, NEW w \in Workers, RunOperation(w)
  PROVE  Rest'
<1> DEFINE o == Head(ops[w])
<1>1. /\ TypeOK /\ ReplicasOK
      /\ up \in [Workers -> Seq(Request(0..version))]
      /\ down \in [Workers -> Seq(Message(TrueDelta, TrueSnapshot))]
      /\ tasks \in [Workers -> Seq(Message(TrueDelta, TrueSnapshot))]
      /\ ops \in [Workers -> Seq(Op(TrueDelta, TrueSnapshot))]
      /\ unsent \in Seq(Unsent(TrueDelta))
  BY DEF IInv, InFlightOK
<1>2. ops[w] # << >>
  BY DEF RunOperation, ApplyDelta, ApplySnapshot, IgnoreStale, GapInPayload,
         GapInSync, FailedStartup, Gap, Running
<1>3. Drop(ops, w) \in [Workers -> Seq(Op(TrueDelta, TrueSnapshot))]
      /\ o \in Op(TrueDelta, TrueSnapshot)
  BY <1>1, <1>2, DropFrom
<1>4. o.owner \in Owners
  BY <1>3 DEF Op
<1>5. CASE ApplyDelta(w)
  <2>1. o.body \in TrueDelta
    BY <1>3, <1>5 DEF ApplyDelta, Running, Op
  <2> DEFINE d == o.body
             s == Apply(replicaEntries[w], d.changes)
  <2>2. /\ d.toVersion \in 0..version /\ d.fromVersion = replicaVersion[w]
        /\ Apply(history[d.fromVersion], d.changes) = history[d.toVersion]
    BY <1>1, <1>5, <2>1, DeltaFields
       DEF ApplyDelta, Applies, TrueDelta, DeltaOK, TypeOK
  <2>3. s \in State
    BY <1>1, <2>1, DeltaFields, ApplyType DEF TrueDelta, TypeOK
  <2>4. based[w] => s = history[d.toVersion]
    BY <1>1, <2>2 DEF ReplicasOK
  <2>5. /\ replicaVersion' = [replicaVersion EXCEPT ![w] = d.toVersion]
        /\ replicaEntries' = [replicaEntries EXCEPT ![w] = s]
        /\ based' = [based EXCEPT ![w] = based[w]]
        /\ based[w] \in BOOLEAN
    BY <1>1, <1>5 DEF ApplyDelta, TypeOK
  <2>6. /\ open' \in [Workers -> SUBSET {"write", "fence"}]
        /\ phase' \in [Workers -> Phases]
    BY <1>1, <1>5, FinishedType DEF ApplyDelta
  <2>7. /\ Quiet /\ UNCHANGED boundVars
        /\ UNCHANGED <<accepted, unsent, down, tasks, boot>>
        /\ up' \in [Workers -> Seq(Request(0..version))]
        /\ ops' \in [Workers -> Seq(Op(TrueDelta, TrueSnapshot))]
    BY <1>1, <1>3, <1>5 DEF ApplyDelta, Running, Quiet, primaryVars, boundVars
  <2> HIDE DEF s, d
  <2> QED
    BY <2>2, <2>3, <2>4, <2>5, <2>6, <2>7, InstallStep
<1>6. CASE ApplySnapshot(w)
  <2>1. o.body \in TrueSnapshot
    BY <1>3, <1>6 DEF ApplySnapshot, Running, Op
  <2>2. /\ o.body.version \in 0..version
        /\ o.body.state \in State
        /\ o.body.state = history[o.body.version]
    BY <1>1, <2>1 DEF TrueSnapshot, SnapshotOK, Snapshot, TypeOK
  <2>3. /\ open' \in [Workers -> SUBSET {"write", "fence"}]
        /\ phase' \in [Workers -> Phases]
    BY <1>1, <1>6, FinishedType DEF ApplySnapshot
  <2>4. /\ replicaVersion' = [replicaVersion EXCEPT ![w] = o.body.version]
        /\ replicaEntries' = [replicaEntries EXCEPT ![w] = o.body.state]
        /\ based' = [based EXCEPT ![w] = TRUE]
        /\ ops' = Drop(ops, w)
    BY <1>6 DEF ApplySnapshot, Running
  <2> QED
    BY <1>1, <1>3, <1>6, <2>2, <2>3, <2>4, InstallStep
       DEF ApplySnapshot, Quiet, primaryVars, boundVars
<1>7. CASE IgnoreStale(w)
  <2>1. /\ open' \in [Workers -> SUBSET {"write", "fence"}]
        /\ phase' \in [Workers -> Phases]
        /\ ops' = Drop(ops, w)
    BY <1>1, <1>7, FinishedType DEF IgnoreStale, Running
  <2>2. /\ replicaVersion' = [replicaVersion EXCEPT ![w] = replicaVersion[w]]
        /\ replicaEntries' = [replicaEntries EXCEPT ![w] = replicaEntries[w]]
        /\ based' = [based EXCEPT ![w] = based[w]]
        /\ replicaEntries[w] \in State /\ based[w] \in BOOLEAN
        /\ based[w] => replicaEntries[w] = history[replicaVersion[w]]
    BY <1>1, <1>7 DEF IgnoreStale, TypeOK, ReplicasOK
  <2> QED
    BY <1>1, <1>3, <1>7, <2>1, <2>2, ReplicaVersionBound, InstallStep
       DEF IgnoreStale, Quiet, primaryVars, boundVars
<1>8. CASE GapInPayload(w)
  <2>1. Msg("gap", NoDelta, o.owner) \in Message(TrueDelta, TrueSnapshot)
    BY <1>4 DEF Message, Msg
  <2>2. tasks' \in [Workers -> Seq(Message(TrueDelta, TrueSnapshot))]
    BY <1>1, <1>8, <2>1, SendInto DEF GapInPayload
  <2> QED
    BY <1>1, <1>3, <1>8, <2>2, QueueStep
       DEF GapInPayload, TypeOK, primaryVars, replicaVars, startVars, boundVars
<1>9. CASE GapInSync(w)
  <2>1. open' \in [Workers -> SUBSET {"write", "fence"}]
    BY <1>1, <1>9 DEF GapInSync, Closed, TypeOK
  <2> QED
    BY <1>1, <1>3, <1>9, <2>1, QueueStep
       DEF GapInSync, TypeOK, primaryVars, replicaVars, startVars, boundVars
<1>10. CASE FailedStartup(w)
  BY <1>1, <1>10, RestartStep DEF FailedStartup, TypeOK
<1> QED
  BY <1>5, <1>6, <1>7, <1>8, <1>9, <1>10 DEF RunOperation

LEMMA StartUpStep ==
  ASSUME IInv, NEW w \in Workers, StartUp(w)
  PROVE  Rest'
<1>1. /\ TypeOK /\ ReplicasOK
      /\ up \in [Workers -> Seq(Request(0..version))]
      /\ down \in [Workers -> Seq(Message(TrueDelta, TrueSnapshot))]
      /\ ops \in [Workers -> Seq(Op(TrueDelta, TrueSnapshot))]
      /\ "boot" \in Owners /\ 0 \in 0..version
  BY DEF IInv, InFlightOK, TypeOK, Owners
<1>2. phase' \in [Workers -> Phases]
  BY <1>1 DEF StartUp, AnnounceReady, CreateReplica, StartWithoutSnapshot,
              StartLoadHandlers, StartInstallSnapshot, TypeOK, Phases
<1>3. CASE AnnounceReady(w)
  <2>1. Req("WORKER_READY", 0, "boot") \in Request(0..version)
    BY <1>1 DEF Request, Req
  <2>2. up' \in [Workers -> Seq(Request(0..version))]
    BY <1>1, <1>3, <2>1, SendInto DEF AnnounceReady
  <2> QED
    BY <1>1, <1>2, <1>3, <2>2, BootIsTrue, StartStep
       DEF AnnounceReady, Quiet, primaryVars, replicaVars, boundVars
<1>4. CASE StartWithoutSnapshot(w) \/ StartLoadHandlers(w)
  BY <1>1, <1>2, <1>4, BootIsTrue, StartStep
     DEF StartWithoutSnapshot, StartLoadHandlers, Quiet, primaryVars, replicaVars, boundVars
<1>5. CASE StartInstallSnapshot(w)
  <2>1. /\ boot[w].version \in 0..version
        /\ boot[w].state \in State /\ boot[w].state = history[boot[w].version]
    BY <1>1, ReplicaVersionBound DEF ReplicasOK, TypeOK, Snapshot, SnapshotOK
  <2> QED
    BY <1>1, <1>2, <1>5, <2>1, InstallStep
       DEF StartInstallSnapshot, Quiet, primaryVars, boundVars, TypeOK
<1>6. CASE CreateReplica(w)
  <2>1. /\ boot[w].version \in 0..version /\ Empty \in State
        /\ FALSE => Empty = history[boot[w].version]
    BY ReplicaVersionBound DEF Empty, State
  <2>2. Req("getDeltaSince", boot[w].version, "boot") \in Request(0..version)
    BY <1>1, <2>1 DEF Request, Req
  <2>3. up' \in [Workers -> Seq(Request(0..version))]
    BY <1>1, <1>6, <2>2, SendInto DEF CreateReplica
  <2> QED
    BY <1>1, <1>2, <1>6, <2>1, <2>3, InstallStep
       DEF CreateReplica, Quiet, primaryVars, boundVars, TypeOK
<1> QED
  BY <1>3, <1>4, <1>5, <1>6 DEF StartUp

LEMMA RequestStep ==
  ASSUME IInv, NEW w \in Workers, ClientWrite(w) \/ FencedRequest(w)
  PROVE  Rest'
<1>1. /\ TypeOK
      /\ up \in [Workers -> Seq(Request(0..version))]
      /\ down \in [Workers -> Seq(Message(TrueDelta, TrueSnapshot))]
      /\ tasks \in [Workers -> Seq(Message(TrueDelta, TrueSnapshot))]
      /\ ops \in [Workers -> Seq(Op(TrueDelta, TrueSnapshot))]
      /\ unsent \in Seq(Unsent(TrueDelta))
  BY DEF IInv, InFlightOK
<1>2. /\ Req("commitProjectPaths", 0, "write") \in Request(0..version)
      /\ Req("getDeltaSince", replicaVersion[w], "fence") \in Request(0..version)
  BY <1>1, ReplicaVersionBound DEF Request, Req, Owners, TypeOK
<1>3. CASE ClientWrite(w)
  <2>1. up' \in [Workers -> Seq(Request(0..version))]
    BY <1>1, <1>2, <1>3, SendInto DEF ClientWrite
  <2>2. open' \in [Workers -> SUBSET {"write", "fence"}]
    BY <1>1, <1>3 DEF ClientWrite, TypeOK
  <2> QED
    BY <1>1, <1>3, <2>1, <2>2, QueueStep
       DEF ClientWrite, TypeOK, primaryVars, replicaVars, startVars, boundVars
<1>4. CASE FencedRequest(w)
  <2>1. up' \in [Workers -> Seq(Request(0..version))]
    BY <1>1, <1>2, <1>4, SendInto DEF FencedRequest
  <2>2. open' \in [Workers -> SUBSET {"write", "fence"}]
    BY <1>1, <1>4 DEF FencedRequest, TypeOK
  <2> QED
    BY <1>1, <1>4, <2>1, <2>2, QueueStep
       DEF FencedRequest, TypeOK, primaryVars, replicaVars, startVars, boundVars
<1> QED
  BY <1>3, <1>4

(* Every other step of the primary, and every step of a worker, leaves the  *)
(* primary's state system alone.                                            *)
LEMMA PrimariesStay ==
  ASSUME IInv, Quiet
  PROVE  Primaries'
<1>1. PrimaryType' /\ PrimaryOK'
  BY DEF IInv, TypeOK, Quiet, primaryVars, PrimaryType, PrimaryOK
<1>2. ASSUME LogOK PROVE LogOK'
  BY <1>2 DEF Quiet, primaryVars, LogOK, DeltaOK, Later, StartsAt, LastTouch
<1> QED
  BY <1>1, <1>2 DEF Primaries, IInv
-----------------------------------------------------------------------------
(* The inductive invariant.                                                 *)
LEMMA InitIInv == Init => IInv
<1> SUFFICES ASSUME Init PROVE IInv
  OBVIOUS
<1> USE DEF Init
<1>1. Empty \in State /\ entries \in State
  BY DEF Empty, State
<1> DEFINE E == Effective(Empty, entries)
           d == [fromVersion |-> 0, toVersion |-> 1, changes |-> E]
<1>2. entries \in Changes
  <2>1. Keys \in SUBSET Keys
    OBVIOUS
  <2> QED
    BY <1>1, <2>1 DEF State, Changes
<1>3. E \in Changes
  BY <1>1, <1>2, EffectiveType
<1>4. d \in Delta
  BY <1>3 DEF Delta
<1>5. PrimaryType
  BY <1>1, <1>4 DEF PrimaryType
<1>6. PrimaryOK
  BY DEF PrimaryOK
<1>7. Apply(Empty, E) = entries
  BY <1>1 DEF Apply, Effective, State
<1>8. DeltaOK(d)
  BY <1>7 DEF DeltaOK
<1>9. LogOK
  <2>1. ASSUME NEW k \in Keys PROVE LastTouch(0, k)
    <3>1. Later(0) = {d}
      BY DEF Later
    <3>2. k \in DOMAIN E => d.changes[k] = entries[k]
      BY DEF Effective
    <3>3. k \notin DOMAIN E => history[0][k] = entries[k]
      BY <1>1 DEF Effective, State
    <3>4. CASE k \in DOMAIN E
      <4>1. d \in Later(0) /\ k \in DOMAIN d.changes
        BY <3>1, <3>4
      <4>2. \A e \in Later(0) : e.toVersion <= d.toVersion
        BY <3>1
      <4> HIDE DEF d, Init
      <4> QED
        BY <3>2, <3>4, <4>1, <4>2 DEF LastTouch
    <3>5. CASE k \notin DOMAIN E
      BY <3>1, <3>3, <3>5 DEF LastTouch
    <3> QED
      BY <3>4, <3>5
  <2>2. \A v \in 0..version : v < version => v = 0
    OBVIOUS
  <2> QED
    BY <1>8, <2>1, <2>2, ConstantsAssumption DEF LogOK
<1>10. LocalType
  BY <1>1 DEF LocalType, Phases, NoSnapshot, Snapshot
<1>11. InFlightOK
  BY DEF InFlightOK
<1>12. ReplicasOK
  BY DEF ReplicasOK, SnapshotOK, NoSnapshot
<1>13. TypeOK
  BY <1>5, <1>10, <1>11, PartsGiveTypeOK
<1> QED
  BY <1>6, <1>9, <1>11, <1>12, <1>13 DEF IInv

LEMMA NextIInv == IInv /\ [Next]_vars => IInv'
<1> SUFFICES ASSUME IInv, [Next]_vars PROVE IInv'
  OBVIOUS
<1>1. Primaries' /\ Rest'
  <2>1. CASE CommitAndEmit \/ RefreshWithNewConfig \/ RunCommit
    BY <2>1, CommittingStep
  <2>2. CASE FinishCommit
    <3>1. Quiet
      BY <2>2 DEF FinishCommit, Quiet, primaryVars
    <3> QED
      BY <2>2, <3>1, FinishStep, PrimariesStay
  <2>3. ASSUME NEW w \in Workers,
               HandleReady(w) \/ HandleGetDeltaSince(w) \/ HandleGetSnapshot(w) \/ HandleCommit(w)
        PROVE  Primaries' /\ Rest'
    <3>1. Quiet
      BY <2>3 DEF HandleReady, HandleGetDeltaSince, HandleGetSnapshot, HandleCommit,
                  AnswerRequest, Quiet, primaryVars
    <3> QED
      BY <2>3, <3>1, HandleStep, PrimariesStay
  <2>4. ASSUME NEW w \in Workers, ReceiveMessage(w)
        PROVE  Primaries' /\ Rest'
    <3>1. Quiet
      BY <2>4 DEF ReceiveMessage, ReceiveInitialSnapshot, DropEarlyBroadcast,
                  ReceiveBroadcast, ReceiveResponse, Quiet, primaryVars
    <3> QED
      BY <2>4, <3>1, ReceiveStep, PrimariesStay
  <2>5. ASSUME NEW w \in Workers, Resume(w)
        PROVE  Primaries' /\ Rest'
    <3>1. Quiet
      BY <2>5 DEF Resume, ResumeWithoutDelta, ResumeWithPayload, ResumeUnchangedWrite,
                  ResumeAfterGap, Quiet, primaryVars
    <3> QED
      BY <2>5, <3>1, ResumeStep, PrimariesStay
  <2>6. ASSUME NEW w \in Workers, RunOperation(w)
        PROVE  Primaries' /\ Rest'
    <3>1. Quiet
      BY <2>6 DEF RunOperation, ApplyDelta, ApplySnapshot, IgnoreStale, GapInPayload,
                  GapInSync, FailedStartup, Restart, Quiet, primaryVars
    <3> QED
      BY <2>6, <3>1, OperationStep, PrimariesStay
  <2>7. ASSUME NEW w \in Workers, StartUp(w)
        PROVE  Primaries' /\ Rest'
    <3>1. Quiet
      BY <2>7 DEF StartUp, AnnounceReady, CreateReplica, StartWithoutSnapshot,
                  StartLoadHandlers, StartInstallSnapshot, Quiet, primaryVars
    <3> QED
      BY <2>7, <3>1, StartUpStep, PrimariesStay
  <2>8. ASSUME NEW w \in Workers, ClientWrite(w) \/ FencedRequest(w)
        PROVE  Primaries' /\ Rest'
    <3>1. Quiet
      BY <2>8 DEF ClientWrite, FencedRequest, Quiet, primaryVars
    <3> QED
      BY <2>8, <3>1, RequestStep, PrimariesStay
  <2>9. ASSUME NEW w \in Workers, Exit(w)
        PROVE  Primaries' /\ Rest'
    <3>1. Quiet /\ Restart(w) /\ exits' \in Nat
      BY <2>9 DEF Exit, Restart, Quiet, primaryVars, IInv, TypeOK
    <3> QED
      BY <3>1, RestartStep, PrimariesStay
  <2>10. CASE UNCHANGED vars
    <3>1. /\ Quiet /\ UNCHANGED replicaVars /\ UNCHANGED startVars
          /\ UNCHANGED boundVars
          /\ UNCHANGED <<accepted, unsent, up, down, tasks, ops, open>>
      BY <2>10 DEF vars, Quiet, primaryVars, replicaVars, startVars, boundVars
    <3>2. Rest'
      BY <3>1, QueueStep DEF Quiet, IInv, TypeOK, InFlightOK
    <3> QED
      BY <3>1, <3>2, PrimariesStay
  <2> QED
    BY <2>1, <2>2, <2>3, <2>4, <2>5, <2>6, <2>7, <2>8, <2>9, <2>10 DEF Next, Primary
<1>2. TypeOK'
  <2>1. PrimaryType' /\ LocalType' /\ InFlightOK'
    BY <1>1 DEF Primaries, Rest
  <2> QED
    BY <2>1, PartsGiveTypeOK, PTL
<1> QED
  BY <1>1, <1>2 DEF IInv, Primaries, Rest

(* Every behaviour keeps the inductive invariant.                           *)
THEOREM Invariance == Spec => []IInv
<1>1. Init => IInv
  BY InitIInv
<1>2. IInv /\ [Next]_vars => IInv'
  BY NextIInv
<1> QED
  BY <1>1, <1>2, PTL DEF Spec

(* The variables of the primary, the channels and the replicas keep their   *)
(* types: nothing handles a null where it needs a delta.                    *)
THEOREM TypeCorrect == Spec => []TypeOK
<1>1. IInv => TypeOK
  BY DEF IInv
<1> QED
  BY <1>1, Invariance, PTL

(* With any number of workers, keys and commits, and however broadcasts,    *)
(* responses and exits interleave, a replica that has installed a snapshot  *)
(* holds exactly what the primary held at the replica's version.            *)
THEOREM ReplicasCoherent == Spec => []Coherent
<1>1. IInv => Coherent
  BY DEF IInv, ReplicasOK, Coherent
<1> QED
  BY <1>1, Invariance, PTL

(* getDeltaSince gives up only on versions older than the retention, and    *)
(* otherwise answers a delta that leads exactly to the present.             *)
THEOREM DeltaSinceComplete == Spec => []DeltaSinceIsComplete
<1>1. ASSUME IInv PROVE DeltaSinceIsComplete
  <2>1. TypeOK /\ PrimaryOK /\ LogOK
    BY <1>1 DEF IInv
  <2> SUFFICES ASSUME NEW v \in 0..version
               PROVE  IF DeltaSince(v) = NoDelta
                      THEN version - v > DeltaRetention
                      ELSE /\ DeltaSince(v).toVersion = version
                           /\ Apply(history[v], DeltaSince(v).changes) = entries
    BY DEF DeltaSinceIsComplete
  <2>2. version \in Nat /\ v \in Nat /\ version >= 1
    BY <2>1 DEF TypeOK, PrimaryOK
  <2>3. CASE DeltaSince(v) # NoDelta
    <3>1. DeltaOK(DeltaSince(v)) /\ DeltaSince(v).toVersion = version
      BY <2>1, <2>3, DeltaSinceOK
    <3>2. DeltaSince(v).fromVersion = v
      BY <2>3 DEF DeltaSince
    <3> QED
      BY <2>1, <2>3, <3>1, <3>2 DEF DeltaOK, PrimaryOK
  <2>4. CASE DeltaSince(v) = NoDelta /\ ~(version - v > DeltaRetention)
    <3>1. v < version /\ ~StartsAt(Later(v), v)
      BY <2>1, <2>4, DeltaSinceOK, NoDeltaAssumption
    <3>2. PICK d \in deltaLog : d.toVersion = v + 1
      BY <2>1, <2>2, <2>4, <3>1, ConstantsAssumption DEF LogOK
    <3>3. d \in Later(v) /\ d.fromVersion = v
      BY <2>1, <2>2, <3>2, DeltaFields DEF Later, LogOK, TypeOK
    <3>4. \A e \in Later(v) : d.toVersion <= e.toVersion
      BY <2>1, <2>2, <3>2, DeltaFields DEF Later, TypeOK
    <3> QED
      BY <3>1, <3>3, <3>4 DEF StartsAt
  <2> QED
    BY <2>3, <2>4
<1> QED
  BY <1>1, Invariance, PTL

(* A step of one process leaves every other worker's replica alone.         *)
LEMMA StepOfOne ==
  ASSUME TypeOK, Next
  PROVE  \/ /\ CommitAndEmit \/ RefreshWithNewConfig \/ RunCommit
            /\ UNCHANGED <<phase, replicaVersion, replicaEntries, based>>
         \/ /\ Quiet
            /\ UNCHANGED <<phase, replicaVersion, replicaEntries, based>>
         \/ /\ Quiet
            /\ \E w \in Workers :
                 /\ \A x \in Workers \ {w} :
                      /\ phase'[x] = phase[x] /\ based'[x] = based[x]
                      /\ replicaVersion'[x] = replicaVersion[x]
                      /\ replicaEntries'[x] = replicaEntries[x]
                 /\ phase[w] = "listening" /\ phase'[w] = "listening"
                      => replicaVersion'[w] >= replicaVersion[w]
                 /\ phase[w] = "listening" /\ based[w] /\ phase'[w] = "listening"
                      => based'[w]
<1> DEFINE Others(w) == \A x \in Workers \ {w} :
                      /\ phase'[x] = phase[x] /\ based'[x] = based[x]
                      /\ replicaVersion'[x] = replicaVersion[x]
                      /\ replicaEntries'[x] = replicaEntries[x]
           Forward(w) ==
             /\ phase[w] = "listening" /\ phase'[w] = "listening"
                  => replicaVersion'[w] >= replicaVersion[w]
             /\ phase[w] = "listening" /\ based[w] /\ phase'[w] = "listening"
                  => based'[w]
           Same == Quiet /\ UNCHANGED <<phase, replicaVersion, replicaEntries, based>>
<1> USE DEF Quiet, primaryVars
<1>1. CASE Primary
  BY <1>1 DEF Primary, CommitAndEmit, RefreshWithNewConfig, RunCommit, FinishCommit,
     HandleReady, HandleGetDeltaSince, HandleGetSnapshot, HandleCommit, AnswerRequest
<1>2. ASSUME NEW w \in Workers, Resume(w) \/ ClientWrite(w) \/ FencedRequest(w)
      PROVE  Same
  BY <1>2 DEF Resume, ResumeWithoutDelta, ResumeWithPayload, ResumeUnchangedWrite,
     ResumeAfterGap, ClientWrite, FencedRequest
<1>3. ASSUME NEW w \in Workers, ReceiveMessage(w)
      PROVE  Same \/ (Quiet /\ Others(w) /\ Forward(w))
  <2>1. CASE ReceiveInitialSnapshot(w)
    BY <2>1 DEF ReceiveInitialSnapshot, TypeOK
  <2>2. CASE DropEarlyBroadcast(w) \/ ReceiveBroadcast(w) \/ ReceiveResponse(w)
    BY <2>2 DEF DropEarlyBroadcast, ReceiveBroadcast, ReceiveResponse
  <2> QED
    BY <1>3, <2>1, <2>2 DEF ReceiveMessage
<1>4. ASSUME NEW w \in Workers, StartUp(w)
      PROVE  Quiet /\ Others(w) /\ Forward(w)
  BY <1>4 DEF StartUp, AnnounceReady, CreateReplica, StartWithoutSnapshot,
     StartLoadHandlers, StartInstallSnapshot, TypeOK
<1>5. ASSUME NEW w \in Workers, Exit(w) \/ FailedStartup(w)
      PROVE  Quiet /\ Others(w) /\ Forward(w)
  BY <1>5 DEF Exit, FailedStartup, Restart, TypeOK
<1>6. ASSUME NEW w \in Workers, GapInPayload(w) \/ GapInSync(w)
      PROVE  Same
  BY <1>6 DEF GapInPayload, GapInSync
<1>7. ASSUME NEW w \in Workers, ApplyDelta(w)
      PROVE  Quiet /\ Others(w) /\ Forward(w)
  <2>1. Head(ops[w]).body.toVersion > replicaVersion[w] /\ Head(ops[w]).body \in Delta
    <3>1. ops[w] \in Seq(Op(Delta, Snapshot)) /\ ops[w] # << >>
          /\ Head(ops[w]).type = "delta"
      BY <1>7 DEF ApplyDelta, Running, TypeOK
    <3>2. Head(ops[w]) \in Op(Delta, Snapshot)
      BY <3>1, TailElements
    <3> QED
      <4>1. Head(ops[w]).body \in Delta
        BY <3>1, <3>2 DEF Op
      <4>2. ~(Head(ops[w]).body.toVersion <= replicaVersion[w])
        BY <1>7 DEF ApplyDelta, Applies, Stale
      <4>3. replicaVersion[w] \in Nat
        BY DEF TypeOK
      <4> QED
        BY <4>1, <4>2, <4>3, DeltaFields
  <2> QED
    BY <1>7, <2>1, DeltaFields DEF ApplyDelta, Finished, TypeOK
<1>8. ASSUME NEW w \in Workers, ApplySnapshot(w)
      PROVE  Quiet /\ Others(w) /\ Forward(w)
  BY <1>8 DEF ApplySnapshot, Finished, TypeOK
<1>9. ASSUME NEW w \in Workers, IgnoreStale(w)
      PROVE  Quiet /\ Others(w) /\ Forward(w)
  BY <1>9 DEF IgnoreStale, Finished, TypeOK
<1> HIDE DEF Others, Forward, Same
<1>10. \/ Primary
       \/ Same
       \/ Quiet /\ \E w \in Workers : Others(w) /\ Forward(w)
  BY <1>2, <1>3, <1>4, <1>5, <1>6, <1>7, <1>8, <1>9 DEF Next, RunOperation
<1> QED
  BY <1>1, <1>10 DEF Others, Forward, Same

(* A worker that is listening never steps back, whatever it is told: only   *)
(* its exit lowers its version.                                             *)
THEOREM VersionsGrow == Spec => ServedVersionsGrow
<1> DEFINE Grow == \A w \in Workers :
                     phase[w] = "listening" /\ phase'[w] = "listening"
                       => replicaVersion'[w] >= replicaVersion[w]
<1>1. ASSUME IInv, [Next]_vars PROVE [Grow]_vars
  <2>1. TypeOK
    BY <1>1 DEF IInv
  <2>2. CASE Next
    <3>1. replicaVersion \in [Workers -> Nat]
      BY <2>1 DEF TypeOK
    <3>2. CASE UNCHANGED <<phase, replicaVersion, replicaEntries, based>>
      <4>1. replicaVersion' = replicaVersion
        BY <3>2
      <4> QED
        BY <3>1, <4>1
    <3>3. CASE \E w \in Workers :
                 /\ \A x \in Workers \ {w} : replicaVersion'[x] = replicaVersion[x]
                 /\ phase[w] = "listening" /\ phase'[w] = "listening"
                      => replicaVersion'[w] >= replicaVersion[w]
      <4>1. Grow
        BY <3>1, <3>3
      <4> QED
        BY <4>1
    <3> QED
      BY <2>1, <2>2, <3>2, <3>3, StepOfOne
  <2> QED
    BY <1>1, <2>2
<1> QED
  BY <1>1, Invariance, PTL DEF Spec, ServedVersionsGrow

(* The protocol implements the log of AbstractReplica: commits extend the   *)
(* log, a worker that serves shows one of its states, and moves forward.    *)
LEMMA ReplicaStepImplements ==
  ASSUME IInv, IInv', Quiet, NEW w \in Workers,
         \A x \in Workers \ {w} : /\ phase'[x] = phase[x] /\ based'[x] = based[x]
                                  /\ replicaVersion'[x] = replicaVersion[x]
                                  /\ replicaEntries'[x] = replicaEntries[x],
         phase[w] = "listening" /\ phase'[w] = "listening"
           => replicaVersion'[w] >= replicaVersion[w],
         phase[w] = "listening" /\ based[w] /\ phase'[w] = "listening" => based'[w]
  PROVE  [Abstract!Next]_(Abstract!abstractVars)
<1> DEFINE serving  == [x \in Workers |-> Serving(x)]
           position == [x \in Workers |-> Position(x)]
           contents == [x \in Workers |-> Contents(x)]
<1>1. \A x \in Workers \ {w} :
        Serving(x)' = Serving(x) /\ Position(x)' = Position(x) /\ Contents(x)' = Contents(x)
  BY DEF Serving, Position, Contents
<1>2. /\ serving' = [serving EXCEPT ![w] = Serving(w)']
      /\ position' = [position EXCEPT ![w] = Position(w)']
      /\ contents' = [contents EXCEPT ![w] = Contents(w)']
  BY <1>1
<1>3. version' = version /\ history' = history /\ version \in Nat
  BY DEF Quiet, primaryVars, IInv, TypeOK
<1>4. /\ replicaVersion[w] \in 0..version /\ replicaVersion'[w] \in 0..version
      /\ Serving(w) => replicaEntries[w] = history[replicaVersion[w]]
      /\ Serving(w)' => replicaEntries'[w] = history[replicaVersion'[w]]
      /\ serving[w] = Serving(w) /\ Serving(w) \in BOOLEAN /\ Serving(w)' \in BOOLEAN
  BY <1>3 DEF IInv, TypeOK, ReplicasOK, Serving
<1>5. CASE Serving(w) = Serving(w)' /\ Position(w) = Position(w)'
  <2>1. Contents(w) = Contents(w)'
    BY <1>4, <1>5 DEF Position, Contents
  <2>2. serving' = serving /\ position' = position /\ contents' = contents
    BY <1>1, <1>5, <2>1
  <2> QED
    BY <1>3, <2>2 DEF Abstract!abstractVars
<1>6. CASE Serving(w)' /\ ~(Serving(w) /\ Position(w) = Position(w)')
  <2> DEFINE v == replicaVersion'[w]
  <2>1. Position(w)' = v /\ Contents(w)' = history[v] /\ Serving(w)' = TRUE
    BY <1>4, <1>6 DEF Position, Contents
  <2>2. Abstract!Show(w, v)
    BY <1>2, <1>3, <2>1 DEF Abstract!Show
  <2>3. CASE Serving(w)
    <3>1. v >= replicaVersion[w]
      BY <1>6, <2>3 DEF Serving
    <3>2. v \in replicaVersion[w] + 1 .. version /\ position[w] = replicaVersion[w]
      BY <1>4, <1>6, <2>1, <2>3, <3>1 DEF Position
    <3>3. Abstract!Advance(w)
      BY <1>4, <2>2, <2>3, <3>2 DEF Abstract!Advance
    <3> QED
      BY <3>3 DEF Abstract!Next
  <2>4. CASE ~Serving(w)
    <3>1. Abstract!Join(w)
      BY <1>4, <2>2, <2>4 DEF Abstract!Join
    <3> QED
      BY <3>1 DEF Abstract!Next
  <2> QED
    BY <2>3, <2>4
<1>7. CASE Serving(w) /\ ~Serving(w)'
  <2>1. Position(w)' = 0 /\ Contents(w)' = Empty /\ Serving(w)' = FALSE
    BY <1>7 DEF Position, Contents
  <2>2. Abstract!Leave(w)
    BY <1>2, <1>3, <2>1 DEF Abstract!Leave, Abstract!NoContents, Empty
  <2> QED
    BY <2>2 DEF Abstract!Next
<1>8. CASE ~Serving(w) /\ ~Serving(w)'
  <2>1. Position(w) = 0 /\ Position(w)' = 0
    BY <1>8 DEF Position
  <2>2. Serving(w) = Serving(w)'
    BY <1>4, <1>8
  <2> QED
    BY <1>5, <2>1, <2>2
<1> QED
  BY <1>4, <1>5, <1>6, <1>7, <1>8

LEMMA CommitImplements ==
  ASSUME IInv, IInv', CommitAndEmit \/ RefreshWithNewConfig \/ RunCommit,
         UNCHANGED <<phase, replicaVersion, replicaEntries, based>>
  PROVE  [Abstract!Next]_(Abstract!abstractVars)
<1> DEFINE serving  == [x \in Workers |-> Serving(x)]
           position == [x \in Workers |-> Position(x)]
           contents == [x \in Workers |-> Contents(x)]
<1>1. serving' = serving /\ position' = position /\ contents' = contents
  BY DEF Serving, Position, Contents
<1>2. PICK c \in Changes : CommitEntries(CommittedDelta(c))
  BY DEF CommitAndEmit, RefreshWithNewConfig, RunCommit
<1>3. CASE CommittedDelta(c) = NoDelta
  BY <1>1, <1>2, <1>3 DEF CommitEntries, primaryVars, Abstract!abstractVars
<1>4. CASE CommittedDelta(c) # NoDelta
  <2> DEFINE s == Apply(entries, Effective(entries, c))
  <2>1. version' = version + 1
        /\ history' = [v \in 0..version + 1 |-> IF v <= version THEN history[v] ELSE s]
    BY <1>2, <1>4 DEF CommitEntries, CommittedDelta
  <2>2. s \in State
    BY ApplyType, EffectiveType DEF IInv, TypeOK
  <2>3. Abstract!Commit
    BY <1>1, <2>1, <2>2 DEF Abstract!Commit, Abstract!AbstractState, State
  <2> QED
    BY <2>3 DEF Abstract!Next
<1> QED
  BY <1>3, <1>4

(* The abstract log is implemented: what the primary commits, what a worker *)
(* shows and how its version moves, through every broadcast, answer and     *)
(* exit, are steps of AbstractReplica or stutters.                          *)
THEOREM Refinement == Spec => ImplementsAbstract
<1>1. Init => Abstract!Init
  <2> SUFFICES ASSUME Init PROVE Abstract!Init
    OBVIOUS
  <2>1. history \in [0..1 -> Abstract!AbstractState] /\ version = 1
    BY DEF Init, State, Empty, Abstract!AbstractState
  <2>2. \A w \in Workers : Serving(w) = FALSE
    BY DEF Init, Serving
  <2>3. \A w \in Workers : Position(w) = 0 /\ Contents(w) = Abstract!NoContents
    BY <2>2 DEF Position, Contents, Empty, Abstract!NoContents
  <2> QED
    BY <2>1, <2>2, <2>3 DEF Abstract!Init
<1>2. IInv /\ IInv' /\ [Next]_vars => [Abstract!Next]_(Abstract!abstractVars)
  <2> SUFFICES ASSUME IInv, IInv', [Next]_vars
               PROVE  [Abstract!Next]_(Abstract!abstractVars)
    OBVIOUS
  <2>1. CASE UNCHANGED <<version, history, phase, replicaVersion, replicaEntries, based>>
    BY <2>1 DEF Abstract!abstractVars, Serving, Position, Contents
  <2>2. CASE Next
    <3>1. TypeOK
      BY DEF IInv
    <3>2. CASE /\ CommitAndEmit \/ RefreshWithNewConfig \/ RunCommit
               /\ UNCHANGED <<phase, replicaVersion, replicaEntries, based>>
      BY <3>2, CommitImplements
    <3>3. CASE Quiet /\ UNCHANGED <<phase, replicaVersion, replicaEntries, based>>
      BY <3>3, <2>1 DEF Quiet, primaryVars
    <3>4. CASE /\ Quiet
               /\ \E w \in Workers :
                    /\ \A x \in Workers \ {w} :
                         /\ phase'[x] = phase[x] /\ based'[x] = based[x]
                         /\ replicaVersion'[x] = replicaVersion[x]
                         /\ replicaEntries'[x] = replicaEntries[x]
                    /\ phase[w] = "listening" /\ phase'[w] = "listening"
                         => replicaVersion'[w] >= replicaVersion[w]
                    /\ phase[w] = "listening" /\ based[w] /\ phase'[w] = "listening"
                         => based'[w]
      BY <3>4, ReplicaStepImplements
    <3> QED
      BY <2>2, <3>1, <3>2, <3>3, <3>4, StepOfOne
  <2>3. CASE UNCHANGED vars
    BY <2>1, <2>3 DEF vars
  <2> QED
    BY <2>2, <2>3
<1> QED
  BY <1>1, <1>2, Invariance, PTL DEF Spec, Abstract!Spec, ImplementsAbstract
=============================================================================
