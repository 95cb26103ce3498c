--------------------------- MODULE AbstractReplica ----------------------------
(***************************************************************************)
(* What the clustered runtime promises of its replicated indexes: a log of *)
(* committed states, and workers that each show one of them while they     *)
(* serve requests, never an older one than before.  It says nothing of     *)
(* deltas, messages or processes; StateReplication implements it.          *)
(***************************************************************************)
EXTENDS Integers

CONSTANTS Workers, Keys, Values, Absent

VARIABLES
  last,       \* the version of the latest committed state
  committed,  \* committed[v] is the state of version v
  serving,    \* the workers that answer requests
  position,   \* the version each of them shows
  contents    \* and the state it shows

abstractVars == <<last, committed, serving, position, contents>>

AbstractState == [Keys -> Values \union {Absent}]
NoContents    == [k \in Keys |-> Absent]

Init ==
  /\ last = 1
  /\ committed \in [0..1 -> AbstractState]
  /\ serving  = [w \in Workers |-> FALSE]
  /\ position = [w \in Workers |-> 0]
  /\ contents = [w \in Workers |-> NoContents]

Commit ==
  /\ last' = last + 1
  /\ \E s \in AbstractState :
       committed' = [v \in 0..last + 1 |->
                       IF v <= last THEN committed[v] ELSE s]
  /\ UNCHANGED <<serving, position, contents>>

Show(w, v) ==
  /\ serving' = [serving EXCEPT ![w] = TRUE]
  /\ position' = [position EXCEPT ![w] = v]
  /\ contents' = [contents EXCEPT ![w] = committed[v]]
  /\ UNCHANGED <<last, committed>>

Join(w) == ~serving[w] /\ \E v \in 0..last : Show(w, v)

Advance(w) == serving[w] /\ \E v \in position[w] + 1 .. last : Show(w, v)

Leave(w) ==
  /\ serving' = [serving EXCEPT ![w] = FALSE]
  /\ position' = [position EXCEPT ![w] = 0]
  /\ contents' = [contents EXCEPT ![w] = NoContents]
  /\ UNCHANGED <<last, committed>>

Next == Commit \/ \E w \in Workers : Join(w) \/ Advance(w) \/ Leave(w)

Spec == Init /\ [][Next]_abstractVars
=============================================================================
