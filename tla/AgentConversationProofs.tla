------------------------ MODULE AgentConversationProofs ------------------------
(***************************************************************************)
(* Proofs about AgentConversation, for any number of flows, messages,      *)
(* clicks and faults: the types, that one series runs at a time            *)
(* (OneSeriesAtATime), that no message is lost (NoMessageVanishes) or      *)
(* asked twice (EachMessageAskedOnce), that code comes before queued       *)
(* messages (OutputComesFirst), that the queue is looked at last           *)
(* (QueueIsDrained) and that the file follows (FileFollowsHistory).        *)
(***************************************************************************)
EXTENDS AgentConversation, TLAPS

FlowTypes ==
  /\ at \in [Flows -> Places] /\ after \in [Flows -> Places \ {"saving"}]
  /\ next \in [Flows -> Item] /\ request \in [Flows -> Seq(Item)]
  /\ reply \in [Flows -> Kinds] /\ retries \in [Flows -> 0..MaxRetries]
  /\ before \in [Flows -> BOOLEAN]

(* What the items of the history are made of.                               *)
LEMMA ItemTypes ==
  /\ \A k \in Kinds : It(k) \in Item
  /\ NoItem \in Item
  /\ \A m \in Messages : User(m) \in Item
  /\ \A f \in Flows : Open(f) \in Item
BY DEF It, NoItem, User, Open, Item, Kinds

LEMMA RequestedType ==
  ASSUME NEW h \in Seq(Item), NEW item \in Item
  PROVE  Requested(h, item) \in Seq(Item)
BY DEF Requested

LEMMA SettledType ==
  ASSUME NEW h \in Seq(Item), NEW f \in Flows, NEW kind \in Kinds
  PROVE  Settled(h, f, kind) \in Seq(Item)
<1>1. It(kind) \in Item
  BY ItemTypes
<1>2. PICK n \in Nat : h \in [1..n -> Item]
  OBVIOUS
<1>3. Settled(h, f, kind) \in [1..n -> Item]
  BY <1>1, <1>2 DEF Settled
<1> QED
  BY <1>2, <1>3

LEMMA UsersAreMessages == ASSUME NEW h PROVE UsersIn(h) \in SUBSET Messages
BY DEF UsersIn

LEMMA BeginTurnTypes ==
  ASSUME NEW f \in Flows, NEW item \in Item, NEW n \in 0..MaxRetries,
         TypeOK, BeginTurn(f, item, history, n)
  PROVE  /\ at' \in [Flows -> Places]
         /\ next' \in [Flows -> Item] /\ request' \in [Flows -> Seq(Item)]
         /\ retries' \in [Flows -> 0..MaxRetries]
<1>1. Requested(history, item) \in Seq(Item)
  BY RequestedType DEF TypeOK
<1>2. at' \in [Flows -> Places]
  BY DEF BeginTurn, Go, Places, TypeOK
<1>3. request' \in [Flows -> Seq(Item)]
  BY <1>1 DEF BeginTurn, TypeOK
<1> QED
  BY <1>2, <1>3 DEF BeginTurn, TypeOK

(* The end of a conversation loop keeps the types.                          *)
LEMMA EndLoopTypes ==
  ASSUME NEW f \in Flows, NEW outcome, TypeOK, EndLoop(f, outcome)
  PROVE  /\ draft' = draft /\ typed' = typed
         /\ queue' \in Seq(Messages)
         /\ sending' \in BOOLEAN /\ stop' \in BOOLEAN
         /\ controller' \in Flows \union {Nothing}
         /\ FlowTypes'
<1> USE DEF TypeOK, FlowTypes
<1>1. ASSUME Consume(f)
      PROVE  /\ queue' \in Seq(Messages) /\ at' \in [Flows -> Places]
             /\ next' \in [Flows -> Item] /\ request' \in [Flows -> Seq(Item)]
             /\ retries' \in [Flows -> 0..MaxRetries]
             /\ UNCHANGED <<sending, controller>>
  <2>1. Head(queue) \in Messages /\ Tail(queue) \in Seq(Messages)
    BY <1>1 DEF Consume
  <2>2. User(Head(queue)) \in Item
    BY <2>1, ItemTypes
  <2>3. Requested(history, User(Head(queue))) \in Seq(Item)
    BY <2>2, RequestedType
  <2> QED
    BY <1>1, <2>1, <2>2, <2>3 DEF Consume, BeginTurn, Go, Places, MaxRetries
<1>2. ASSUME Finish(f)
      PROVE  /\ queue' = queue /\ at' \in [Flows -> Places]
             /\ next' \in [Flows -> Item] /\ request' \in [Flows -> Seq(Item)]
             /\ retries' \in [Flows -> 0..MaxRetries]
             /\ sending' = FALSE /\ stop' = FALSE /\ controller' = Nothing
  BY <1>2, ItemTypes DEF Finish, Return, Go, Places, MaxRetries
<1>3. Consume(f) \/ Finish(f)
  BY DEF EndLoop
<1>4. UNCHANGED <<draft, typed, after, reply, before>>
  BY DEF EndLoop
<1>5. stop' \in BOOLEAN
  BY <1>2 DEF EndLoop
<1> QED
  BY <1>1, <1>2, <1>3, <1>4, <1>5

LEMMA PersistTypes ==
  ASSUME NEW f \in Flows, NEW h \in Seq(Item), NEW place \in Places \ {"saving"},
         TypeOK, Persist(f, h, place)
  PROVE  /\ at' \in [Flows -> Places] /\ after' \in [Flows -> Places \ {"saving"}]
         /\ pending' \in Seq(Item) \union {Nothing}
         /\ saving' \in Seq(Item) \union {Nothing}
         /\ stored' \in Seq(Item) /\ unsaved' \in BOOLEAN
BY DEF TypeOK, Persist, Go, Places

LEMMA DropTypes ==
  ASSUME NEW f \in Flows, TypeOK, DropUnsent(f)
  PROVE  lost' \in SUBSET Messages /\ gone' \in SUBSET Messages
         /\ raced' \in BOOLEAN
BY UsersAreMessages DEF TypeOK, DropUnsent

LEMMA CountTypes ==
  ASSUME TypeOK, Clicked \/ Fault \/ UNCHANGED countVars
  PROVE  codes' \in Nat /\ clicks' \in Nat /\ faults' \in Nat
BY DEF TypeOK, Clicked, Fault, countVars
-----------------------------------------------------------------------------
(* Every step keeps the types.                                              *)
LEMMA TurnTypes ==
  ASSUME NEW f \in Flows, TypeOK, Turn(f)
  PROVE  TypeOK'
<1> USE DEF FlowTypes, userVars, flagVars, saveVars, ghostVars, countVars, flowVars
<1>0. FlowTypes /\ NoItem \in Item /\ \A k \in Kinds : It(k) \in Item
  BY ItemTypes DEF TypeOK
<1>1. ASSUME Begin(f) PROVE TypeOK'
  <2>1. next[f] \in Item /\ 0 \in 0..MaxRetries /\ BeginTurn(f, next[f], history, 0)
    BY <1>1 DEF Begin, TypeOK, MaxRetries
  <2>2. /\ at' \in [Flows -> Places]
        /\ next' \in [Flows -> Item] /\ request' \in [Flows -> Seq(Item)]
        /\ retries' \in [Flows -> 0..MaxRetries]
    BY <2>1, BeginTurnTypes
  <2> QED
    BY <1>1, <2>2 DEF Begin, TypeOK
<1>2. ASSUME PrepareFails(f) PROVE TypeOK'
  <2>1. PICK outcome : EndLoop(f, outcome)
    BY <1>2 DEF PrepareFails
  <2> QED
    BY <1>2, <2>1, EndLoopTypes, DropTypes, CountTypes DEF PrepareFails, TypeOK
<1>3. ASSUME GiveUpTurn(f) PROVE TypeOK'
  <2>1. PICK outcome : EndLoop(f, outcome)
    BY <1>3 DEF GiveUpTurn
  <2> QED
    BY <1>3, <2>1, EndLoopTypes, DropTypes DEF GiveUpTurn, TypeOK
<1>4. ASSUME Stopped(f) PROVE TypeOK'
  <2>1. PICK outcome : EndLoop(f, outcome)
    BY <1>4 DEF Stopped
  <2> QED
    BY <1>4, <2>1, EndLoopTypes DEF Stopped, TypeOK
<1>5. ASSUME Threw(f) PROVE TypeOK'
  <2>1. PICK outcome : EndLoop(f, outcome)
    BY <1>5 DEF Threw
  <2> QED
    BY <1>5, <2>1, EndLoopTypes DEF Threw, TypeOK
<1>6. ASSUME EndAnswered(f) PROVE TypeOK'
  <2>1. PICK outcome : EndLoop(f, outcome)
    BY <1>6 DEF EndAnswered
  <2> QED
    BY <1>6, <2>1, EndLoopTypes DEF EndAnswered, TypeOK
<1>7. ASSUME Complete(f) PROVE TypeOK'
  <2>1. PICK outcome : EndLoop(f, outcome)
    BY <1>7 DEF Complete
  <2> QED
    BY <1>7, <2>1, EndLoopTypes DEF Complete, TypeOK
<1>8. ASSUME ExecuteThrows(f) PROVE TypeOK'
  <2>1. PICK outcome : EndLoop(f, outcome)
    BY <1>8 DEF ExecuteThrows
  <2> QED
    BY <1>8, <2>1, EndLoopTypes, CountTypes DEF ExecuteThrows, TypeOK
<1>9. ASSUME EndAfterOutput(f) PROVE TypeOK'
  <2>1. PICK outcome : EndLoop(f, outcome)
    BY <1>9 DEF EndAfterOutput
  <2> QED
    BY <1>9, <2>1, EndLoopTypes DEF EndAfterOutput, TypeOK
<1>10. ASSUME NeedsCompaction(f) PROVE TypeOK'
  <2>1. It("summary") \in Item
    BY <1>0 DEF Kinds
  <2> QED
    BY <1>10, <2>1 DEF NeedsCompaction, Go, Places, TypeOK
<1>11. ASSUME SendRequest(f) PROVE TypeOK'
  <2>1. Append(request[f], Open(f)) \in Seq(Item)
    BY ItemTypes DEF TypeOK
  <2> QED
    BY <1>11, <2>1 DEF SendRequest, Go, Places, TypeOK
<1>12. ASSUME StartStream(f) PROVE TypeOK'
  BY <1>12 DEF StartStream, Go, Places, TypeOK
<1>13. ASSUME Execute(f) PROVE TypeOK'
  BY <1>13 DEF Execute, Go, Places, TypeOK
<1>14. ASSUME Compacted(f) PROVE TypeOK'
  <2>1. Requested(history, next[f]) \in Seq(Item)
    BY RequestedType DEF TypeOK
  <2>2. at' \in [Flows -> Places]
    BY <1>14 DEF Compacted, Go, Places, TypeOK
  <2>3. request' \in [Flows -> Seq(Item)]
    BY <1>14, <2>1 DEF Compacted, TypeOK
  <2> QED
    BY <1>14, <2>2, <2>3 DEF Compacted, TypeOK
<1>15. ASSUME \E kind \in {"text", "code", "empty"} : StreamDone(f, kind) PROVE TypeOK'
  <2>1. PICK kind \in {"text", "code", "empty"} : StreamDone(f, kind)
    BY <1>15
  <2>2. kind \in Kinds
    BY DEF Kinds
  <2>3. history' \in Seq(Item) /\ Persist(f, history', "answered")
    BY <2>1, <2>2, SettledType DEF StreamDone, TypeOK
  <2>4. codes' \in Nat
    BY <2>1 DEF StreamDone, TypeOK
  <2>5. "answered" \in Places \ {"saving"}
    BY DEF Places
  <2> QED
    BY <2>1, <2>2, <2>3, <2>4, <2>5, PersistTypes DEF StreamDone, LetGo, TypeOK
<1>16. ASSUME StreamAborted(f) PROVE TypeOK'
  <2>1. CutShort(f, "stopped")
    BY <1>16 DEF StreamAborted
  <2>2. "cut" \in Kinds /\ "stopped" \in Places \ {"saving"}
    BY DEF Kinds, Places
  <2>3. history' \in Seq(Item) /\ Persist(f, history', "stopped")
    <3>1. Settled(history, f, "cut") \in Seq(Item) /\ request[f] \in Seq(Item)
      BY <2>2, SettledType DEF TypeOK
    <3>2. history' \in Seq(Item)
      BY <2>1, <3>1 DEF CutShort
    <3>3. Persist(f, history', "stopped")
      BY <2>1 DEF CutShort
    <3> QED
      BY <3>2, <3>3
  <2>4. controller' \in Flows \union {Nothing}
    BY <2>1 DEF CutShort, LetGo, TypeOK
  <2>5. codes' \in Nat /\ clicks' \in Nat /\ faults' \in Nat
    BY <1>16, CountTypes DEF StreamAborted
  <2>6. /\ at' \in [Flows -> Places] /\ after' \in [Flows -> Places \ {"saving"}]
        /\ pending' \in Seq(Item) \union {Nothing}
        /\ saving' \in Seq(Item) \union {Nothing}
        /\ stored' \in Seq(Item) /\ unsaved' \in BOOLEAN
    BY <2>2, <2>3, PersistTypes
  <2> QED
    BY <2>1, <2>3, <2>4, <2>5, <2>6 DEF CutShort, TypeOK
<1>17. ASSUME StreamFails(f) PROVE TypeOK'
  <2>1. CutShort(f, "threw")
    BY <1>17 DEF StreamFails
  <2>2. "cut" \in Kinds /\ "threw" \in Places \ {"saving"}
    BY DEF Kinds, Places
  <2>3. history' \in Seq(Item) /\ Persist(f, history', "threw")
    <3>1. Settled(history, f, "cut") \in Seq(Item) /\ request[f] \in Seq(Item)
      BY <2>2, SettledType DEF TypeOK
    <3>2. history' \in Seq(Item)
      BY <2>1, <3>1 DEF CutShort
    <3>3. Persist(f, history', "threw")
      BY <2>1 DEF CutShort
    <3> QED
      BY <3>2, <3>3
  <2>4. controller' \in Flows \union {Nothing}
    BY <2>1 DEF CutShort, LetGo, TypeOK
  <2>5. codes' \in Nat /\ clicks' \in Nat /\ faults' \in Nat
    BY <1>17, CountTypes DEF StreamFails
  <2>6. /\ at' \in [Flows -> Places] /\ after' \in [Flows -> Places \ {"saving"}]
        /\ pending' \in Seq(Item) \union {Nothing}
        /\ saving' \in Seq(Item) \union {Nothing}
        /\ stored' \in Seq(Item) /\ unsaved' \in BOOLEAN
    BY <2>2, <2>3, PersistTypes
  <2> QED
    BY <2>1, <2>3, <2>4, <2>5, <2>6 DEF CutShort, TypeOK
<1>18. ASSUME RetryEmpty(f) PROVE TypeOK'
  <2>1. "retry" \in Places \ {"saving"}
    BY DEF Places
  <2>2. history' \in Seq(Item) /\ Persist(f, history', "retry")
    <3>1. history' \in Seq(Item)
      BY <1>18 DEF RetryEmpty, TypeOK
    <3>2. Persist(f, history', "retry")
      BY <1>18 DEF RetryEmpty
    <3> QED
      BY <3>1, <3>2
  <2>3. retries' \in [Flows -> 0..MaxRetries]
    <3>0. retries[f] \in 0..MaxRetries /\ retries[f] < MaxRetries
      BY <1>18 DEF RetryEmpty, TypeOK
    <3>1. retries[f] + 1 \in 0..MaxRetries
      BY <3>0 DEF MaxRetries
    <3> QED
      BY <1>18, <3>1 DEF RetryEmpty, TypeOK
  <2> QED
    BY <1>18, <2>1, <2>2, <2>3, PersistTypes DEF RetryEmpty, TypeOK
<1>19. ASSUME Retry(f) PROVE TypeOK'
  <2> DEFINE item == IF retries[f] = 1 THEN next[f] ELSE It("retry")
  <2>1. item \in Item
    BY <1>0 DEF Kinds, TypeOK
  <2>2. BeginTurn(f, item, history, retries[f])
    BY <1>19 DEF Retry
  <2> HIDE DEF item
  <2>3. retries[f] \in 0..MaxRetries
    BY DEF TypeOK
  <2>4. /\ at' \in [Flows -> Places]
        /\ next' \in [Flows -> Item] /\ request' \in [Flows -> Seq(Item)]
        /\ retries' \in [Flows -> 0..MaxRetries]
    BY <2>1, <2>2, <2>3, BeginTurnTypes
  <2> QED
    BY <1>19, <2>4 DEF Retry, TypeOK
<1>20. ASSUME GiveUpEmpty(f) PROVE TypeOK'
  <2>1. "complete" \in Places \ {"saving"} /\ Persist(f, history, "complete")
    BY <1>20 DEF GiveUpEmpty, Places
  <2> QED
    BY <1>20, <2>1, PersistTypes DEF GiveUpEmpty, TypeOK
<1>21. ASSUME ExecuteDone(f) PROVE TypeOK'
  <2>1. "output" \in Places \ {"saving"} /\ It("output") \in Item
    BY <1>0 DEF Kinds, Places
  <2>2. history' \in Seq(Item) /\ Persist(f, history', "output")
    BY <1>21, <2>1 DEF ExecuteDone, TypeOK
  <2> QED
    BY <1>21, <2>1, <2>2, PersistTypes DEF ExecuteDone, TypeOK
<1>22. ASSUME SendOutput(f) PROVE TypeOK'
  <2>1. /\ It("output") \in Item /\ 0 \in 0..MaxRetries
        /\ BeginTurn(f, It("output"), history, 0)
    <3>1. It("output") \in Item
      BY <1>0 DEF Kinds
    <3>2. 0 \in 0..MaxRetries
      BY DEF MaxRetries
    <3>3. BeginTurn(f, It("output"), history, 0)
      BY <1>22 DEF SendOutput
    <3> QED
      BY <3>1, <3>2, <3>3
  <2>2. /\ at' \in [Flows -> Places]
        /\ next' \in [Flows -> Item] /\ request' \in [Flows -> Seq(Item)]
        /\ retries' \in [Flows -> 0..MaxRetries]
    BY <2>1, BeginTurnTypes
  <2> QED
    BY <1>22, <2>2 DEF SendOutput, TypeOK
<1>23. ASSUME StartCompaction(f) PROVE TypeOK'
  BY <1>23 DEF StartCompaction, Go, Places, TypeOK
<1>24. ASSUME MeasureFails(f) PROVE TypeOK'
  <2>1. at' \in [Flows -> Places]
    BY <1>24 DEF MeasureFails, Go, Places, TypeOK
  <2>2. codes' \in Nat /\ clicks' \in Nat /\ faults' \in Nat
    BY <1>24, CountTypes DEF MeasureFails
  <2> QED
    BY <1>24, <2>1, <2>2 DEF MeasureFails, TypeOK
<1>25. ASSUME CompactionDone(f) PROVE TypeOK'
  <2>1. "compacted" \in Places \ {"saving"} /\ It("summary") \in Item
    BY <1>0 DEF Kinds, Places
  <2>2. history' \in Seq(Item) /\ Persist(f, history', "compacted")
    <3>1. history' \in Seq(Item)
      BY <1>25, <2>1 DEF CompactionDone
    <3>2. Persist(f, history', "compacted")
      BY <1>25 DEF CompactionDone
    <3> QED
      BY <3>1, <3>2
  <2> QED
    BY <1>25, <2>1, <2>2, PersistTypes, UsersAreMessages DEF CompactionDone, TypeOK
<1>26. ASSUME CompactionFails(f) PROVE TypeOK'
  <2>1. CASE next[f] = NoItem
    BY <1>26, <2>1, CountTypes DEF CompactionFails, Go, Places, TypeOK
  <2>2. CASE next[f] # NoItem
    <3>1. DropUnsent(f) /\ EndLoop(f, "failed")
      BY <1>26, <2>2 DEF CompactionFails
    <3> QED
      BY <1>26, <3>1, EndLoopTypes, DropTypes, CountTypes DEF CompactionFails, TypeOK
  <2> QED
    BY <2>1, <2>2
<1>27. ASSUME Clear(f) PROVE TypeOK'
  <2>1. "idle" \in Places \ {"saving"} /\ Persist(f, history, "idle")
    BY <1>27 DEF Clear, Places
  <2> QED
    BY <1>27, <2>1, PersistTypes DEF Clear, TypeOK
<1>28. ASSUME RerunEnds(f) PROVE TypeOK'
  BY <1>28 DEF RerunEnds, Go, Places, TypeOK
<1> QED
  BY <1>1, <1>2, <1>3, <1>4, <1>5, <1>6, <1>7, <1>8, <1>9, <1>10, <1>11, <1>12, <1>13, <1>14, <1>15, <1>16, <1>17, <1>18, <1>19, <1>20, <1>21, <1>22, <1>23, <1>24, <1>25, <1>26, <1>27, <1>28 DEF Turn

LEMMA OtherTypes ==
  ASSUME TypeOK,
         \/ \E m \in Messages : Type(m)
         \/ QueueDraft \/ RequestStop \/ Save
         \/ \E f \in Flows : Click(f)
  PROVE  TypeOK'
<1> USE DEF FlowTypes, userVars, flagVars, saveVars, ghostVars, countVars, flowVars
<1>1. ASSUME \E m \in Messages : Type(m) PROVE TypeOK'
  BY <1>1 DEF Type, TypeOK, Messages
<1>2. ASSUME QueueDraft PROVE TypeOK'
  BY <1>2 DEF QueueDraft, TypeOK
<1>3. ASSUME RequestStop PROVE TypeOK'
  BY <1>3 DEF RequestStop, TypeOK, Places
<1>4. ASSUME Save PROVE TypeOK'
  <2>1. Released \in [Flows -> Places]
    BY DEF TypeOK, Released, Place
  <2>2. saving # Nothing => saving \in Seq(Item)
    BY DEF TypeOK
  <2>3. CASE SaveDone
    BY <2>1, <2>2, <2>3 DEF SaveDone, TakePending, TypeOK
  <2>4. CASE SaveFails
    BY <2>1, <2>4, CountTypes DEF SaveFails, TakePending, TypeOK
  <2> QED
    BY <1>4, <2>3, <2>4 DEF Save
<1>5. ASSUME NEW f \in Flows, Click(f) PROVE TypeOK'
  <2>1. CASE Submit(f)
    <3>1. User(draft) \in Item
      BY <2>1, ItemTypes DEF Submit, TypeOK
    <3> QED
      BY <2>1, <3>1 DEF Submit, Race, Go, Places, TypeOK
  <2>2. CASE ClickCompact(f)
    BY <2>2, ItemTypes, CountTypes DEF ClickCompact, Race, Go, Places, TypeOK
  <2>3. CASE ClickClear(f)
    <3>1. gone' \in SUBSET Messages
      BY <2>3, UsersAreMessages DEF ClickClear, TypeOK
    <3>2. at' \in [Flows -> Places]
      BY <2>3 DEF ClickClear, Places, TypeOK
    <3>3. codes' \in Nat /\ clicks' \in Nat /\ faults' \in Nat
      BY <2>3, CountTypes DEF ClickClear
    <3>4. raced' \in BOOLEAN
      BY <2>3 DEF ClickClear, Race, TypeOK
    <3>5. << >> \in Seq(Messages) /\ << >> \in Seq(Item)
      OBVIOUS
    <3> QED
      BY <2>3, <3>1, <3>2, <3>3, <3>4, <3>5 DEF ClickClear, TypeOK
  <2>4. CASE ClickRerun(f)
    BY <2>4, CountTypes DEF ClickRerun, Race, Go, Places, TypeOK
  <2> QED
    BY <1>5, <2>1, <2>2, <2>3, <2>4 DEF Click
<1> QED
  BY <1>1, <1>2, <1>3, <1>4, <1>5

LEMMA InitTypes == Init => TypeOK
<1> SUFFICES ASSUME Init PROVE TypeOK
  OBVIOUS
<1>1. /\ << >> \in Seq(Item) /\ << >> \in Seq(Messages)
      /\ NoItem \in Item /\ 0 \in 0..MaxRetries
  BY ItemTypes DEF MaxRetries
<1>2. request \in [Flows -> Seq(Item)] /\ next \in [Flows -> Item]
  BY <1>1 DEF Init
<1>3. /\ at \in [Flows -> Places] /\ after \in [Flows -> Places \ {"saving"}]
      /\ reply \in [Flows -> Kinds] /\ before \in [Flows -> BOOLEAN]
      /\ retries \in [Flows -> 0..MaxRetries]
  BY <1>1 DEF Init, Places, Kinds
<1> QED
  BY <1>1, <1>2, <1>3 DEF Init, TypeOK

LEMMA TypesKept == TypeOK /\ [Next]_vars => TypeOK'
<1> SUFFICES ASSUME TypeOK, [Next]_vars PROVE TypeOK'
  OBVIOUS
<1>1. ASSUME NEW f \in Flows, Turn(f) PROVE TypeOK'
  BY <1>1, TurnTypes
<1>2. CASE UNCHANGED vars
  BY <1>2 DEF TypeOK, vars, userVars, flagVars, saveVars, ghostVars, countVars, flowVars
<1> QED
  BY <1>1, <1>2, OtherTypes DEF Next

(* The variables have their types in every reachable state.                 *)
THEOREM TypeCorrect == Spec => []TypeOK
<1> QED
  BY InitTypes, TypesKept, PTL DEF Spec
-----------------------------------------------------------------------------
(* One flow at a time.  A flow that has begun, and one in the awaits before *)
(* isSending is set, is the only one of its kind.                           *)
Doing(p)  == p \notin {"idle", "clearing"}
BusyAt(p) == Doing(p) /\ p \notin Window

Alone(P, s) ==
  /\ s <=> \E f \in Flows : BusyAt(P[f])
  /\ \A f, g \in Flows : Doing(P[f]) /\ Doing(P[g]) => f = g

SeriesPlaces ==
  {"processing", "prepare", "again", "starting", "streaming", "aborting",
   "answered", "stopped", "threw", "retry", "complete", "executing", "output"}

(* A series has a message, a compaction by a click none; before remembers   *)
(* which it is; only a stream can be aborted.                               *)
FlowOK(f) ==
  /\ Place(f) \in SeriesPlaces => next[f] # NoItem
  /\ Place(f) = "measuring" => next[f] = NoItem
  /\ Place(f) \in {"compacting", "compacted"} => before[f] = (next[f] # NoItem)
  /\ controller = f => at[f] \in {"streaming", "aborting"}
  /\ after[f] \notin Window

OneInv == ~raced => /\ Alone(Released, sending)
                    /\ \A f \in Flows : FlowOK(f)

LEMMA KindsDiffer ==
  /\ \A k \in Kinds \ {"none"} : It(k) # NoItem
  /\ \A m \in Messages : User(m) # NoItem
BY DEF It, NoItem, User, Kinds

LEMMA PlaceTypes == ASSUME TypeOK PROVE Released \in [Flows -> Places \ {"saving"}]
BY DEF TypeOK, Released, Place

(* The one that is under way goes on to q, or the first of all begins.      *)
LEMMA AloneMoves ==
  ASSUME NEW P \in [Flows -> Places], NEW s, NEW t, NEW f \in Flows, NEW q,
         Alone(P, s), t <=> BusyAt(q),
         Doing(P[f]) \/ \A g \in Flows : ~Doing(P[g])
  PROVE  Alone([P EXCEPT ![f] = q], t)
BY DEF Alone, BusyAt

LEMMA AloneRests ==
  ASSUME NEW P \in [Flows -> Places], NEW s, NEW f \in Flows, NEW q,
         Alone(P, s), ~Doing(P[f]), ~Doing(q)
  PROVE  Alone([P EXCEPT ![f] = q], s)
BY DEF Alone, BusyAt

LEMMA BusySends ==
  ASSUME NEW f \in Flows, TypeOK, OneInv, ~raced, BusyAt(Place(f))
  PROVE  sending = TRUE
BY DEF TypeOK, OneInv, Alone, Released

(* A step of f leaves what is known of the others.                          *)
Untouched(f) ==
  \A g \in Flows \ {f} :
    /\ at'[g] = at[g] /\ after'[g] = after[g]
    /\ next'[g] = next[g] /\ before'[g] = before[g]
    /\ controller' = g => controller = g

LEMMA StepAlone ==
  ASSUME NEW f \in Flows, NEW q, TypeOK, OneInv,
         ~raced', ~raced, Untouched(f), FlowOK(f)',
         Doing(Place(f)) \/ \A g \in Flows : ~Doing(Place(g)),
         Released' = [Released EXCEPT ![f] = q], sending' <=> BusyAt(q)
  PROVE  OneInv'
<1>1. Released \in [Flows -> Places] /\ Released[f] = Place(f)
  BY PlaceTypes DEF Released
<1>2. Alone(Released, sending) /\ \A g \in Flows : FlowOK(g)
  BY DEF OneInv
<1>3. Doing(Released[f]) \/ \A g \in Flows : ~Doing(Released[g])
  BY DEF Released
<1>4. Alone([Released EXCEPT ![f] = q], sending')
  BY <1>1, <1>2, <1>3, AloneMoves
<1>5. ASSUME NEW g \in Flows PROVE FlowOK(g)'
  BY <1>2, <1>5 DEF FlowOK, Untouched, Place
<1> QED
  BY <1>4, <1>5 DEF OneInv

(* The end of a loop: the next message, or the end of the series.           *)
LEMMA EndLoopAlone ==
  ASSUME NEW f \in Flows, NEW outcome, TypeOK, OneInv,
         ~raced', ~raced, BusyAt(Place(f)), at[f] # "saving",
         controller # f, EndLoop(f, outcome)
  PROVE  OneInv'
<1>1. CASE Consume(f)
  <2>1. Head(queue) \in Messages
    BY <1>1 DEF Consume, TypeOK
  <2>2. User(Head(queue)) # NoItem
    BY <2>1, KindsDiffer
  <2>3. /\ at' = [at EXCEPT ![f] = "prepare"]
        /\ next' = [next EXCEPT ![f] = User(Head(queue))]
        /\ UNCHANGED <<sending, controller, after, before>>
    BY <1>1 DEF Consume, BeginTurn, Go, EndLoop
  <2>4. Untouched(f) /\ Released' = [Released EXCEPT ![f] = "prepare"]
    BY <2>3 DEF Untouched, TypeOK, Released, Place
  <2>5. FlowOK(f)'
    BY <2>2, <2>3 DEF FlowOK, Place, TypeOK, OneInv
  <2>6. sending' <=> BusyAt("prepare")
    BY <2>3, BusySends DEF BusyAt, Doing, Window
  <2>7. Doing(Place(f))
    BY DEF BusyAt
  <2> QED
    BY <2>4, <2>5, <2>6, <2>7, StepAlone
<1>2. CASE Finish(f)
  <2>1. /\ at' = [at EXCEPT ![f] = "idle"]
        /\ next' = [next EXCEPT ![f] = NoItem]
        /\ sending' = FALSE /\ controller' = Nothing
        /\ UNCHANGED <<after, before>>
    BY <1>2 DEF Finish, Return, Go, EndLoop
  <2>2. Untouched(f) /\ Released' = [Released EXCEPT ![f] = "idle"]
    BY <2>1, ConversationAssumption DEF Untouched, TypeOK, Released, Place
  <2>3. FlowOK(f)'
    BY <2>1, ConversationAssumption DEF FlowOK, Place, TypeOK, SeriesPlaces, OneInv
  <2>4. sending' <=> BusyAt("idle")
    BY <2>1 DEF BusyAt, Doing, Window
  <2>5. Doing(Place(f))
    BY DEF BusyAt
  <2> QED
    BY <2>2, <2>3, <2>4, <2>5, StepAlone
<1> QED
  BY <1>1, <1>2 DEF EndLoop

(* A save on the way to place.                                              *)
LEMMA PersistAlone ==
  ASSUME NEW f \in Flows, NEW h, NEW place \in Places \ {"saving"}, TypeOK,
         Persist(f, h, place)
  PROVE  /\ at' = [at EXCEPT ![f] = "saving"]
         /\ after' = [after EXCEPT ![f] = place]
         /\ Released' = [Released EXCEPT ![f] = place]
         /\ Place(f)' = place
BY DEF TypeOK, Persist, Go, Released, Place

LEMMA PersistKeepsOne ==
  ASSUME NEW f \in Flows, NEW h, NEW place \in Places \ {"saving"}, TypeOK, OneInv,
         ~raced', ~raced, BusyAt(Place(f)), Persist(f, h, place),
         UNCHANGED <<next, before, sending>>,
         controller' \in {controller, Nothing}, controller' # f,
         \/ Place(f) \in SeriesPlaces /\ place \in SeriesPlaces \ {"processing"}
         \/ Place(f) = "compacting" /\ place = "compacted"
  PROVE  OneInv'
<1>1. /\ at' = [at EXCEPT ![f] = "saving"]
      /\ after' = [after EXCEPT ![f] = place]
      /\ Released' = [Released EXCEPT ![f] = place]
      /\ Place(f)' = place
  BY PersistAlone
<1>2. Untouched(f)
  BY <1>1, ConversationAssumption DEF Untouched, TypeOK
<1>3. FlowOK(f)
  BY DEF OneInv
<1>4. FlowOK(f)'
  BY <1>1, <1>3 DEF FlowOK, SeriesPlaces, Window
<1>5. sending' <=> BusyAt(place)
  BY BusySends DEF BusyAt, Doing, Window, SeriesPlaces
<1>6. Doing(Place(f))
  BY DEF BusyAt
<1> QED
  BY <1>1, <1>2, <1>4, <1>5, <1>6, StepAlone

LEMMA GoKeepsOne ==
  ASSUME NEW f \in Flows, NEW q \in Places \ {"saving"}, TypeOK, OneInv,
         ~raced', ~raced, at[f] # "saving", Go(f, q), UNCHANGED after,
         Doing(at[f]) \/ \A g \in Flows : ~Doing(Place(g)),
         \A g \in Flows \ {f} : next'[g] = next[g] /\ before'[g] = before[g]
                                /\ (controller' = g => controller = g),
         sending' <=> BusyAt(q), FlowOK(f)'
  PROVE  OneInv'
<1>1. Untouched(f) /\ Released' = [Released EXCEPT ![f] = q]
  BY DEF Go, Untouched, TypeOK, Released, Place
<1>2. Doing(Place(f)) \/ \A g \in Flows : ~Doing(Place(g))
  BY DEF Place
<1> QED
  BY <1>1, <1>2, StepAlone

LEMMA TurnKeepsOne ==
  ASSUME NEW f \in Flows, TypeOK, OneInv, Turn(f), ~raced'
  PROVE  OneInv'
<1>0. /\ ~raced
      /\ FlowOK(f) /\ Nothing \notin Flows
      /\ at[f] \in Places /\ after[f] \in Places \ {"saving"}
      /\ at \in [Flows -> Places] /\ next \in [Flows -> Item]
      /\ before \in [Flows -> BOOLEAN]
  <2>1. ~raced
    BY DEF Turn, Begin, PrepareFails, NeedsCompaction, GiveUpTurn, DropUnsent,
       SendRequest, StartStream, StreamDone, StreamAborted, StreamFails,
       CutShort, Stopped, Threw, EndAnswered, RetryEmpty, Retry, GiveUpEmpty,
       Execute, Complete, ExecuteThrows, ExecuteDone, EndAfterOutput,
       SendOutput, StartCompaction, MeasureFails, CompactionDone, Compacted,
       CompactionFails, Clear, RerunEnds, ghostVars
  <2> QED
    BY <2>1, ConversationAssumption DEF OneInv, TypeOK
<1> USE DEF BusyAt, Doing, Window
<1>1. ASSUME Begin(f) PROVE OneInv'
  <2>1. /\ Go(f, "prepare") /\ next' = [next EXCEPT ![f] = next[f]]
        /\ UNCHANGED <<after, before, controller>> /\ sending' = TRUE
        /\ at[f] = "processing" /\ "prepare" \in Places \ {"saving"}
    BY <1>1 DEF Begin, BeginTurn, Places
  <2>2. FlowOK(f)'
    BY <1>0, <2>1 DEF FlowOK, Go, Place, SeriesPlaces
  <2>3. sending' <=> BusyAt("prepare")
    BY <2>1
  <2>4. Doing(at[f]) /\ at[f] # "saving"
    BY <2>1
  <2>5. \A g \in Flows \ {f} : next'[g] = next[g] /\ before'[g] = before[g]
                               /\ (controller' = g => controller = g)
    BY <2>1, <1>0
  <2> QED
    BY <1>0, <2>1, <2>2, <2>3, <2>4, <2>5, GoKeepsOne
<1>2. ASSUME PrepareFails(f) PROVE OneInv'
  <2>1. PICK outcome : EndLoop(f, outcome)
    BY <1>2 DEF PrepareFails
  <2>2. BusyAt(Place(f)) /\ at[f] # "saving" /\ controller # f
    BY <1>2, <1>0 DEF PrepareFails, Place, FlowOK
  <2> QED
    BY <1>0, <2>1, <2>2, EndLoopAlone
<1>3. ASSUME GiveUpTurn(f) PROVE OneInv'
  <2>1. PICK outcome : EndLoop(f, outcome)
    BY <1>3 DEF GiveUpTurn
  <2>2. BusyAt(Place(f)) /\ at[f] # "saving" /\ controller # f
    BY <1>3, <1>0 DEF GiveUpTurn, Place, FlowOK
  <2> QED
    BY <1>0, <2>1, <2>2, EndLoopAlone
<1>4. ASSUME Stopped(f) PROVE OneInv'
  <2>1. PICK outcome : EndLoop(f, outcome)
    BY <1>4 DEF Stopped
  <2>2. BusyAt(Place(f)) /\ at[f] # "saving" /\ controller # f
    BY <1>4, <1>0 DEF Stopped, Place, FlowOK
  <2> QED
    BY <1>0, <2>1, <2>2, EndLoopAlone
<1>5. ASSUME Threw(f) PROVE OneInv'
  <2>1. PICK outcome : EndLoop(f, outcome)
    BY <1>5 DEF Threw
  <2>2. BusyAt(Place(f)) /\ at[f] # "saving" /\ controller # f
    BY <1>5, <1>0 DEF Threw, Place, FlowOK
  <2> QED
    BY <1>0, <2>1, <2>2, EndLoopAlone
<1>6. ASSUME EndAnswered(f) PROVE OneInv'
  <2>1. PICK outcome : EndLoop(f, outcome)
    BY <1>6 DEF EndAnswered
  <2>2. BusyAt(Place(f)) /\ at[f] # "saving" /\ controller # f
    BY <1>6, <1>0 DEF EndAnswered, Place, FlowOK
  <2> QED
    BY <1>0, <2>1, <2>2, EndLoopAlone
<1>7. ASSUME Complete(f) PROVE OneInv'
  <2>1. PICK outcome : EndLoop(f, outcome)
    BY <1>7 DEF Complete
  <2>2. BusyAt(Place(f)) /\ at[f] # "saving" /\ controller # f
    BY <1>7, <1>0 DEF Complete, Place, FlowOK
  <2> QED
    BY <1>0, <2>1, <2>2, EndLoopAlone
<1>8. ASSUME ExecuteThrows(f) PROVE OneInv'
  <2>1. PICK outcome : EndLoop(f, outcome)
    BY <1>8 DEF ExecuteThrows
  <2>2. BusyAt(Place(f)) /\ at[f] # "saving" /\ controller # f
    BY <1>8, <1>0 DEF ExecuteThrows, Place, FlowOK
  <2> QED
    BY <1>0, <2>1, <2>2, EndLoopAlone
<1>9. ASSUME EndAfterOutput(f) PROVE OneInv'
  <2>1. PICK outcome : EndLoop(f, outcome)
    BY <1>9 DEF EndAfterOutput
  <2>2. BusyAt(Place(f)) /\ at[f] # "saving" /\ controller # f
    BY <1>9, <1>0 DEF EndAfterOutput, Place, FlowOK
  <2> QED
    BY <1>0, <2>1, <2>2, EndLoopAlone
<1>10. ASSUME NEW kind, StreamDone(f, kind) PROVE OneInv'
  <2>1. PICK h : Persist(f, h, "answered")
    BY <1>10 DEF StreamDone, LetGo
  <2>2. /\ UNCHANGED <<next, before, sending>>
        /\ controller' \in {controller, Nothing} /\ controller' # f
    BY <1>10, <1>0 DEF StreamDone, LetGo, FlowOK, flagVars
  <2>3. BusyAt(Place(f)) /\ "answered" \in Places \ {"saving"}
    BY <1>10 DEF StreamDone, LetGo, Place, Places
  <2>4. \/ Place(f) \in SeriesPlaces /\ "answered" \in SeriesPlaces \ {"processing"}
        \/ Place(f) = "compacting" /\ "answered" = "compacted"
    BY <1>10 DEF StreamDone, LetGo, Place, SeriesPlaces
  <2> QED
    BY <1>0, <2>1, <2>2, <2>3, <2>4, PersistKeepsOne
<1>11. ASSUME StreamAborted(f) PROVE OneInv'
  <2>1. PICK h : Persist(f, h, "stopped")
    BY <1>11 DEF StreamAborted, CutShort, LetGo
  <2>2. /\ UNCHANGED <<next, before, sending>>
        /\ controller' \in {controller, Nothing} /\ controller' # f
    BY <1>11, <1>0 DEF StreamAborted, CutShort, LetGo, FlowOK, flagVars
  <2>3. BusyAt(Place(f)) /\ "stopped" \in Places \ {"saving"}
    BY <1>11 DEF StreamAborted, CutShort, LetGo, Place, Places
  <2>4. \/ Place(f) \in SeriesPlaces /\ "stopped" \in SeriesPlaces \ {"processing"}
        \/ Place(f) = "compacting" /\ "stopped" = "compacted"
    BY <1>11 DEF StreamAborted, CutShort, LetGo, Place, SeriesPlaces
  <2> QED
    BY <1>0, <2>1, <2>2, <2>3, <2>4, PersistKeepsOne
<1>12. ASSUME StreamFails(f) PROVE OneInv'
  <2>1. PICK h : Persist(f, h, "threw")
    BY <1>12 DEF StreamFails, CutShort, LetGo
  <2>2. /\ UNCHANGED <<next, before, sending>>
        /\ controller' \in {controller, Nothing} /\ controller' # f
    BY <1>12, <1>0 DEF StreamFails, CutShort, LetGo, FlowOK, flagVars
  <2>3. BusyAt(Place(f)) /\ "threw" \in Places \ {"saving"}
    BY <1>12 DEF StreamFails, CutShort, LetGo, Place, Places
  <2>4. \/ Place(f) \in SeriesPlaces /\ "threw" \in SeriesPlaces \ {"processing"}
        \/ Place(f) = "compacting" /\ "threw" = "compacted"
    BY <1>12 DEF StreamFails, CutShort, LetGo, Place, SeriesPlaces
  <2> QED
    BY <1>0, <2>1, <2>2, <2>3, <2>4, PersistKeepsOne
<1>13. ASSUME RetryEmpty(f) PROVE OneInv'
  <2>1. PICK h : Persist(f, h, "retry")
    BY <1>13 DEF RetryEmpty
  <2>2. /\ UNCHANGED <<next, before, sending>>
        /\ controller' \in {controller, Nothing} /\ controller' # f
    BY <1>13, <1>0 DEF RetryEmpty, FlowOK, flagVars
  <2>3. BusyAt(Place(f)) /\ "retry" \in Places \ {"saving"}
    BY <1>13 DEF RetryEmpty, Place, Places
  <2>4. \/ Place(f) \in SeriesPlaces /\ "retry" \in SeriesPlaces \ {"processing"}
        \/ Place(f) = "compacting" /\ "retry" = "compacted"
    BY <1>13 DEF RetryEmpty, Place, SeriesPlaces
  <2> QED
    BY <1>0, <2>1, <2>2, <2>3, <2>4, PersistKeepsOne
<1>14. ASSUME GiveUpEmpty(f) PROVE OneInv'
  <2>1. PICK h : Persist(f, h, "complete")
    BY <1>14 DEF GiveUpEmpty
  <2>2. /\ UNCHANGED <<next, before, sending>>
        /\ controller' \in {controller, Nothing} /\ controller' # f
    BY <1>14, <1>0 DEF GiveUpEmpty, FlowOK, flagVars
  <2>3. BusyAt(Place(f)) /\ "complete" \in Places \ {"saving"}
    BY <1>14 DEF GiveUpEmpty, Place, Places
  <2>4. \/ Place(f) \in SeriesPlaces /\ "complete" \in SeriesPlaces \ {"processing"}
        \/ Place(f) = "compacting" /\ "complete" = "compacted"
    BY <1>14 DEF GiveUpEmpty, Place, SeriesPlaces
  <2> QED
    BY <1>0, <2>1, <2>2, <2>3, <2>4, PersistKeepsOne
<1>15. ASSUME ExecuteDone(f) PROVE OneInv'
  <2>1. PICK h : Persist(f, h, "output")
    BY <1>15 DEF ExecuteDone
  <2>2. /\ UNCHANGED <<next, before, sending>>
        /\ controller' \in {controller, Nothing} /\ controller' # f
    BY <1>15, <1>0 DEF ExecuteDone, FlowOK, flagVars
  <2>3. BusyAt(Place(f)) /\ "output" \in Places \ {"saving"}
    BY <1>15 DEF ExecuteDone, Place, Places
  <2>4. \/ Place(f) \in SeriesPlaces /\ "output" \in SeriesPlaces \ {"processing"}
        \/ Place(f) = "compacting" /\ "output" = "compacted"
    BY <1>15 DEF ExecuteDone, Place, SeriesPlaces
  <2> QED
    BY <1>0, <2>1, <2>2, <2>3, <2>4, PersistKeepsOne
<1>16. ASSUME CompactionDone(f) PROVE OneInv'
  <2>1. PICK h : Persist(f, h, "compacted")
    BY <1>16 DEF CompactionDone
  <2>2. /\ UNCHANGED <<next, before, sending>>
        /\ controller' \in {controller, Nothing} /\ controller' # f
    BY <1>16, <1>0 DEF CompactionDone, FlowOK, flagVars
  <2>3. BusyAt(Place(f)) /\ "compacted" \in Places \ {"saving"}
    BY <1>16 DEF CompactionDone, Place, Places
  <2>4. \/ Place(f) \in SeriesPlaces /\ "compacted" \in SeriesPlaces \ {"processing"}
        \/ Place(f) = "compacting" /\ "compacted" = "compacted"
    BY <1>16 DEF CompactionDone, Place, SeriesPlaces
  <2> QED
    BY <1>0, <2>1, <2>2, <2>3, <2>4, PersistKeepsOne
<1>17. ASSUME SendRequest(f) PROVE OneInv'
  <2>1. /\ Go(f, "starting") /\ UNCHANGED <<after, before, sending>>
        /\ controller' \in {controller, f}
        /\ at[f] \in {"prepare", "again"} /\ "starting" \in Places \ {"saving"}
        /\ \A g \in Flows \ {f} : next'[g] = next[g]
    BY <1>17, <1>0 DEF SendRequest, BeginTurn, flagVars, Places
  <2>2. BusyAt(Place(f)) /\ Doing(at[f]) /\ at[f] # "saving"
    BY <2>1 DEF Place
  <2>3. FlowOK(f)'
    <3>1. at'[f] = "starting" /\ Place(f)' = "starting"
      BY <1>0, <2>1 DEF Go, Place
    <3>2. next[f] # NoItem /\ after[f] \notin Window /\ (controller = f => at[f] \in {"streaming", "aborting"})
      BY <1>0, <2>1 DEF FlowOK, Place, SeriesPlaces
    <3>3. next'[f] # NoItem
      BY <1>17, <1>0, <3>2, KindsDiffer DEF SendRequest, BeginTurn, Kinds
    <3> QED
      BY <1>17, <2>1, <3>1, <3>2, <3>3 DEF SendRequest, FlowOK
  <2>4. sending' <=> BusyAt("starting")
    BY <1>0, <2>1, <2>2, BusySends
  <2>5. \A g \in Flows \ {f} : next'[g] = next[g] /\ before'[g] = before[g]
                               /\ (controller' = g => controller = g)
    BY <2>1
  <2> QED
    BY <1>0, <2>1, <2>2, <2>3, <2>4, <2>5, GoKeepsOne
<1>18. ASSUME StartStream(f) PROVE OneInv'
  <2>1. /\ Go(f, "streaming") /\ UNCHANGED <<after, before, sending>>
        /\ controller' \in {controller, f}
        /\ at[f] \in {"starting"} /\ "streaming" \in Places \ {"saving"}
        /\ \A g \in Flows \ {f} : next'[g] = next[g]
    BY <1>18, <1>0 DEF StartStream, BeginTurn, flagVars, Places
  <2>2. BusyAt(Place(f)) /\ Doing(at[f]) /\ at[f] # "saving"
    BY <2>1 DEF Place
  <2>3. FlowOK(f)'
    <3>1. at'[f] = "streaming" /\ Place(f)' = "streaming"
      BY <1>0, <2>1 DEF Go, Place
    <3>2. next[f] # NoItem /\ after[f] \notin Window
      BY <1>0, <2>1 DEF FlowOK, Place, SeriesPlaces
    <3>3. next'[f] # NoItem
      BY <1>18, <1>0, <3>2, KindsDiffer DEF StartStream, BeginTurn, Kinds
    <3> QED
      BY <1>18, <2>1, <3>1, <3>2, <3>3 DEF StartStream, FlowOK
  <2>4. sending' <=> BusyAt("streaming")
    BY <1>0, <2>1, <2>2, BusySends
  <2>5. \A g \in Flows \ {f} : next'[g] = next[g] /\ before'[g] = before[g]
                               /\ (controller' = g => controller = g)
    BY <2>1
  <2> QED
    BY <1>0, <2>1, <2>2, <2>3, <2>4, <2>5, GoKeepsOne
<1>19. ASSUME Execute(f) PROVE OneInv'
  <2>1. /\ Go(f, "executing") /\ UNCHANGED <<after, before, sending>>
        /\ controller' \in {controller, f}
        /\ at[f] \in {"answered"} /\ "executing" \in Places \ {"saving"}
        /\ \A g \in Flows \ {f} : next'[g] = next[g]
    BY <1>19, <1>0 DEF Execute, BeginTurn, flagVars, Places
  <2>2. BusyAt(Place(f)) /\ Doing(at[f]) /\ at[f] # "saving"
    BY <2>1 DEF Place
  <2>3. FlowOK(f)'
    <3>1. at'[f] = "executing" /\ Place(f)' = "executing"
      BY <1>0, <2>1 DEF Go, Place
    <3>2. next[f] # NoItem /\ after[f] \notin Window /\ (controller = f => at[f] \in {"streaming", "aborting"})
      BY <1>0, <2>1 DEF FlowOK, Place, SeriesPlaces
    <3>3. next'[f] # NoItem
      BY <1>19, <1>0, <3>2, KindsDiffer DEF Execute, BeginTurn, Kinds
    <3> QED
      BY <1>19, <2>1, <3>1, <3>2, <3>3 DEF Execute, FlowOK
  <2>4. sending' <=> BusyAt("executing")
    BY <1>0, <2>1, <2>2, BusySends
  <2>5. \A g \in Flows \ {f} : next'[g] = next[g] /\ before'[g] = before[g]
                               /\ (controller' = g => controller = g)
    BY <2>1
  <2> QED
    BY <1>0, <2>1, <2>2, <2>3, <2>4, <2>5, GoKeepsOne
<1>20. ASSUME Retry(f) PROVE OneInv'
  <2>1. /\ Go(f, "prepare") /\ UNCHANGED <<after, before, sending>>
        /\ controller' \in {controller, f}
        /\ at[f] \in {"retry"} /\ "prepare" \in Places \ {"saving"}
        /\ \A g \in Flows \ {f} : next'[g] = next[g]
    BY <1>20, <1>0 DEF Retry, BeginTurn, flagVars, Places
  <2>2. BusyAt(Place(f)) /\ Doing(at[f]) /\ at[f] # "saving"
    BY <2>1 DEF Place
  <2>3. FlowOK(f)'
    <3>1. at'[f] = "prepare" /\ Place(f)' = "prepare"
      BY <1>0, <2>1 DEF Go, Place
    <3>2. next[f] # NoItem /\ after[f] \notin Window /\ (controller = f => at[f] \in {"streaming", "aborting"})
      BY <1>0, <2>1 DEF FlowOK, Place, SeriesPlaces
    <3>3. next'[f] # NoItem
      BY <1>20, <1>0, <3>2, KindsDiffer DEF Retry, BeginTurn, Kinds
    <3> QED
      BY <1>20, <2>1, <3>1, <3>2, <3>3 DEF Retry, FlowOK
  <2>4. sending' <=> BusyAt("prepare")
    BY <1>0, <2>1, <2>2, BusySends
  <2>5. \A g \in Flows \ {f} : next'[g] = next[g] /\ before'[g] = before[g]
                               /\ (controller' = g => controller = g)
    BY <2>1
  <2> QED
    BY <1>0, <2>1, <2>2, <2>3, <2>4, <2>5, GoKeepsOne
<1>21. ASSUME SendOutput(f) PROVE OneInv'
  <2>1. /\ Go(f, "prepare") /\ UNCHANGED <<after, before, sending>>
        /\ controller' \in {controller, f}
        /\ at[f] \in {"output"} /\ "prepare" \in Places \ {"saving"}
        /\ \A g \in Flows \ {f} : next'[g] = next[g]
    BY <1>21, <1>0 DEF SendOutput, BeginTurn, flagVars, Places
  <2>2. BusyAt(Place(f)) /\ Doing(at[f]) /\ at[f] # "saving"
    BY <2>1 DEF Place
  <2>3. FlowOK(f)'
    <3>1. at'[f] = "prepare" /\ Place(f)' = "prepare"
      BY <1>0, <2>1 DEF Go, Place
    <3>2. next[f] # NoItem /\ after[f] \notin Window /\ (controller = f => at[f] \in {"streaming", "aborting"})
      BY <1>0, <2>1 DEF FlowOK, Place, SeriesPlaces
    <3>3. next'[f] # NoItem
      BY <1>21, <1>0, <3>2, KindsDiffer DEF SendOutput, BeginTurn, Kinds
    <3> QED
      BY <1>21, <2>1, <3>1, <3>2, <3>3 DEF SendOutput, FlowOK
  <2>4. sending' <=> BusyAt("prepare")
    BY <1>0, <2>1, <2>2, BusySends
  <2>5. \A g \in Flows \ {f} : next'[g] = next[g] /\ before'[g] = before[g]
                               /\ (controller' = g => controller = g)
    BY <2>1
  <2> QED
    BY <1>0, <2>1, <2>2, <2>3, <2>4, <2>5, GoKeepsOne
<1>22. ASSUME NeedsCompaction(f) PROVE OneInv'
  <2>1. /\ Go(f, "compacting") /\ UNCHANGED <<after, controller>>
        /\ at[f] = "prepare" /\ "compacting" \in Places \ {"saving"}
        /\ before' = [before EXCEPT ![f] = sending] /\ sending' = TRUE
        /\ \A g \in Flows \ {f} : next'[g] = next[g]
    BY <1>22, <1>0 DEF NeedsCompaction, Places
  <2>2. next[f] # NoItem /\ sending = TRUE /\ controller # f /\ after[f] \notin Window
    BY <1>0, <2>1, BusySends DEF FlowOK, Place, SeriesPlaces
  <2>3. next'[f] # NoItem
    BY <1>22, <1>0, <2>2, KindsDiffer DEF NeedsCompaction, Kinds
  <2>4. at'[f] = "compacting" /\ before'[f] = TRUE
    BY <1>0, <2>1, <2>2 DEF Go
  <2>5. FlowOK(f)'
    BY <2>1, <2>2, <2>3, <2>4 DEF FlowOK, Place, SeriesPlaces
  <2>6. sending' <=> BusyAt("compacting")
    BY <2>1
  <2>7. Doing(at[f]) /\ at[f] # "saving"
    BY <2>1
  <2>8. \A g \in Flows \ {f} : next'[g] = next[g] /\ before'[g] = before[g]
                               /\ (controller' = g => controller = g)
    BY <1>0, <2>1
  <2> QED
    BY <1>0, <2>1, <2>5, <2>6, <2>7, <2>8, GoKeepsOne
<1>23. ASSUME StartCompaction(f) PROVE OneInv'
  <2>1. /\ Go(f, "compacting") /\ UNCHANGED <<after, controller, next>>
        /\ at[f] = "measuring" /\ "compacting" \in Places \ {"saving"}
        /\ before' = [before EXCEPT ![f] = sending] /\ sending' = TRUE
    BY <1>23, <1>0 DEF StartCompaction, Places
  <2>2. Released[f] = "measuring" /\ Alone(Released, sending)
    BY <1>0, <2>1 DEF OneInv, Released, Place
  <2>3. sending = FALSE
    BY <2>2 DEF Alone, TypeOK
  <2>4. next[f] = NoItem /\ controller # f /\ after[f] \notin Window
    BY <1>0, <2>1 DEF FlowOK, Place
  <2>5. at'[f] = "compacting" /\ before'[f] = FALSE
    BY <1>0, <2>1, <2>3 DEF Go
  <2>6. FlowOK(f)'
    BY <2>1, <2>4, <2>5 DEF FlowOK, Place, SeriesPlaces
  <2>7. sending' <=> BusyAt("compacting")
    BY <2>1
  <2>8. Doing(at[f]) /\ at[f] # "saving"
    BY <2>1
  <2>9. \A g \in Flows \ {f} : next'[g] = next[g] /\ before'[g] = before[g]
                               /\ (controller' = g => controller = g)
    BY <1>0, <2>1
  <2> QED
    BY <1>0, <2>1, <2>6, <2>7, <2>8, <2>9, GoKeepsOne
<1>24. ASSUME MeasureFails(f) PROVE OneInv'
  <2>1. /\ Go(f, "idle") /\ UNCHANGED <<after, controller, next, before, sending>>
        /\ at[f] = "measuring" /\ "idle" \in Places \ {"saving"}
    BY <1>24 DEF MeasureFails, flagVars, Places
  <2>2. Released[f] = "measuring" /\ Alone(Released, sending)
    BY <1>0, <2>1 DEF OneInv, Released, Place
  <2>3. sending' <=> BusyAt("idle")
    BY <2>1, <2>2 DEF Alone
  <2>4. FlowOK(f)'
    BY <1>0, <2>1 DEF FlowOK, Place, SeriesPlaces, Go
  <2>5. Doing(at[f]) /\ at[f] # "saving"
    BY <2>1
  <2>6. \A g \in Flows \ {f} : next'[g] = next[g] /\ before'[g] = before[g]
                               /\ (controller' = g => controller = g)
    BY <1>0, <2>1
  <2> QED
    BY <1>0, <2>1, <2>3, <2>4, <2>5, <2>6, GoKeepsOne
<1>25. ASSUME RerunEnds(f) PROVE OneInv'
  <2>1. /\ Go(f, "idle") /\ UNCHANGED <<after, controller, next, before>>
        /\ at[f] = "rerunning" /\ "idle" \in Places \ {"saving"} /\ sending' = FALSE
    BY <1>25 DEF RerunEnds, Places
  <2>2. sending' <=> BusyAt("idle")
    BY <2>1
  <2>3. FlowOK(f)'
    BY <1>0, <2>1 DEF FlowOK, Place, SeriesPlaces, Go
  <2>4. Doing(at[f]) /\ at[f] # "saving"
    BY <2>1
  <2>5. \A g \in Flows \ {f} : next'[g] = next[g] /\ before'[g] = before[g]
                               /\ (controller' = g => controller = g)
    BY <1>0, <2>1
  <2> QED
    BY <1>0, <2>1, <2>2, <2>3, <2>4, <2>5, GoKeepsOne
<1>26. ASSUME Compacted(f) PROVE OneInv'
  <2>1. /\ UNCHANGED <<after, controller, next, before>> /\ sending' = before[f]
        /\ at[f] = "compacted"
        /\ IF next[f] = NoItem THEN Go(f, "idle") ELSE Go(f, "again")
    BY <1>26 DEF Compacted
  <2>2. before[f] = (next[f] # NoItem) /\ controller # f /\ after[f] \notin Window
    BY <1>0, <2>1 DEF FlowOK, Place
  <2>3. Doing(at[f]) /\ at[f] # "saving"
    BY <2>1
  <2>4. \A g \in Flows \ {f} : next'[g] = next[g] /\ before'[g] = before[g]
                               /\ (controller' = g => controller = g)
    BY <1>0, <2>1
  <2>5. CASE next[f] = NoItem
    <3>1. Go(f, "idle") /\ "idle" \in Places \ {"saving"}
      BY <2>1, <2>5 DEF Places
    <3>2. sending' <=> BusyAt("idle")
      BY <2>1, <2>2, <2>5
    <3>3. FlowOK(f)'
      BY <1>0, <2>1, <2>2, <3>1 DEF FlowOK, Place, SeriesPlaces, Go
    <3> QED
      BY <1>0, <2>1, <2>3, <2>4, <3>1, <3>2, <3>3, GoKeepsOne
  <2>6. CASE next[f] # NoItem
    <3>1. Go(f, "again") /\ "again" \in Places \ {"saving"}
      BY <2>1, <2>6 DEF Places
    <3>2. sending' <=> BusyAt("again")
      BY <2>1, <2>2, <2>6
    <3>3. FlowOK(f)'
      BY <1>0, <2>1, <2>2, <2>6, <3>1 DEF FlowOK, Place, SeriesPlaces, Go
    <3> QED
      BY <1>0, <2>1, <2>3, <2>4, <3>1, <3>2, <3>3, GoKeepsOne
  <2> QED
    BY <2>5, <2>6
<1>27. ASSUME CompactionFails(f) PROVE OneInv'
  <2>1. at[f] = "compacting"
    BY <1>27 DEF CompactionFails
  <2>2. before[f] = (next[f] # NoItem) /\ controller # f /\ after[f] \notin Window
    BY <1>0, <2>1 DEF FlowOK, Place
  <2>3. CASE next[f] = NoItem
    <3>1. /\ Go(f, "idle") /\ "idle" \in Places \ {"saving"}
          /\ UNCHANGED <<after, controller, next, before>> /\ sending' = before[f]
      BY <1>27, <2>3 DEF CompactionFails, Places
    <3>2. sending' <=> BusyAt("idle")
      BY <3>1, <2>2, <2>3
    <3>3. FlowOK(f)'
      BY <1>0, <2>1, <2>2, <3>1 DEF FlowOK, Place, SeriesPlaces, Go
    <3>4. Doing(at[f]) /\ at[f] # "saving"
      BY <2>1
    <3>5. \A g \in Flows \ {f} : next'[g] = next[g] /\ before'[g] = before[g]
                               /\ (controller' = g => controller = g)
      BY <1>0, <3>1
    <3> QED
      BY <1>0, <3>1, <3>2, <3>3, <3>4, <3>5, GoKeepsOne
  <2>4. CASE next[f] # NoItem
    <3>1. EndLoop(f, "failed")
      BY <1>27, <2>4 DEF CompactionFails
    <3>2. BusyAt(Place(f)) /\ at[f] # "saving"
      BY <2>1 DEF Place
    <3> QED
      BY <1>0, <2>2, <3>1, <3>2, EndLoopAlone
  <2> QED
    BY <2>3, <2>4
<1>28. ASSUME Clear(f) PROVE OneInv'
  <2>1. /\ Persist(f, history, "idle") /\ "idle" \in Places \ {"saving"}
        /\ at[f] = "clearing" /\ UNCHANGED <<next, before, sending, controller>>
    BY <1>28 DEF Clear, Places, flagVars
  <2>2. /\ at' = [at EXCEPT ![f] = "saving"]
        /\ after' = [after EXCEPT ![f] = "idle"]
        /\ Released' = [Released EXCEPT ![f] = "idle"]
        /\ Place(f)' = "idle"
    BY <2>1, PersistAlone
  <2>3. /\ Released \in [Flows -> Places] /\ Released[f] = "clearing"
        /\ Alone(Released, sending) /\ \A g \in Flows : FlowOK(g)
    BY <1>0, <2>1, PlaceTypes DEF OneInv, Released, Place
  <2>4. ~Doing(Released[f]) /\ ~Doing("idle")
    BY <2>3
  <2>5. Alone(Released, sending)'
    BY <2>1, <2>2, <2>3, <2>4, AloneRests
  <2>6. FlowOK(f)'
    BY <2>1, <2>2, <2>3 DEF FlowOK, SeriesPlaces
  <2>7. ASSUME NEW g \in Flows \ {f} PROVE FlowOK(g)'
    BY <1>0, <2>1, <2>2, <2>3, <2>7 DEF FlowOK, Place
  <2> QED
    BY <2>5, <2>6, <2>7 DEF OneInv
<1> QED
  BY <1>1, <1>2, <1>3, <1>4, <1>5, <1>6, <1>7, <1>8, <1>9, <1>10, <1>11, <1>12, <1>13, <1>14, <1>15, <1>16, <1>17, <1>18, <1>19, <1>20, <1>21, <1>22, <1>23, <1>24, <1>25, <1>26, <1>27, <1>28 DEF Turn

LEMMA NoneDoing ==
  ASSUME TypeOK, OneInv, ~raced, ~sending, ~\E g \in Flows : at[g] \in Window
  PROVE  /\ \A g \in Flows : ~Doing(Place(g))
         /\ controller = Nothing
<1>1. \A g \in Flows : FlowOK(g) /\ ~BusyAt(Place(g))
  BY DEF OneInv, Alone, Released
<1>2. \A g \in Flows : ~Doing(Place(g))
  BY <1>1 DEF FlowOK, BusyAt, Place
<1>3. ASSUME NEW g \in Flows, controller = g PROVE FALSE
  BY <1>1, <1>2, <1>3 DEF FlowOK, Doing, Place
<1> QED
  BY <1>2, <1>3 DEF TypeOK

LEMMA ClickKeepsOne ==
  ASSUME NEW f \in Flows, TypeOK, OneInv, Click(f), ~raced'
  PROVE  OneInv'
<1>1. /\ ~raced /\ ~sending /\ ~\E g \in Flows : at[g] \in Window
      /\ at[f] = "idle"
  BY DEF Click, Submit, ClickCompact, ClickClear, ClickRerun, Race
<1>2. (\A g \in Flows : ~Doing(Place(g))) /\ controller = Nothing
  BY <1>1, NoneDoing
<1>3. /\ Nothing \notin Flows /\ sending = FALSE /\ after[f] \notin Window
      /\ at \in [Flows -> Places] /\ next \in [Flows -> Item]
      /\ at[f] # "saving"
  BY <1>1, ConversationAssumption DEF TypeOK, OneInv, FlowOK
<1> USE DEF BusyAt, Doing, Window
<1>4. CASE Submit(f)
  <2>1. /\ Go(f, "processing") /\ "processing" \in Places \ {"saving"}
        /\ UNCHANGED <<after, before, controller>> /\ sending' = FALSE
        /\ \A g \in Flows \ {f} : next'[g] = next[g]
    BY <1>4, <1>1, <1>2, <1>3 DEF Submit, Go, Places, flagVars
  <2>2. \A g \in Flows \ {f} : next'[g] = next[g] /\ before'[g] = before[g]
                               /\ (controller' = g => controller = g)
    BY <2>1
  <2>3. at'[f] = "processing"
    BY <1>3, <2>1 DEF Go
  <2>4. next'[f] # NoItem
    BY <1>4, <1>3, KindsDiffer DEF Submit, TypeOK
  <2>5. FlowOK(f)'
    BY <1>2, <1>3, <2>1, <2>3, <2>4 DEF FlowOK, Place, SeriesPlaces
  <2>6. sending' <=> BusyAt("processing")
    BY <2>1
  <2> QED
    BY <1>1, <1>2, <1>3, <2>1, <2>2, <2>5, <2>6, GoKeepsOne
<1>5. CASE ClickCompact(f)
  <2>1. /\ Go(f, "measuring") /\ "measuring" \in Places \ {"saving"}
        /\ UNCHANGED <<after, before, controller>> /\ sending' = FALSE
        /\ \A g \in Flows \ {f} : next'[g] = next[g]
    BY <1>5, <1>1, <1>2, <1>3 DEF ClickCompact, Go, Places, flagVars
  <2>2. \A g \in Flows \ {f} : next'[g] = next[g] /\ before'[g] = before[g]
                               /\ (controller' = g => controller = g)
    BY <2>1
  <2>3. at'[f] = "measuring"
    BY <1>3, <2>1 DEF Go
  <2>4. next'[f] = NoItem
    BY <1>5, <1>3, KindsDiffer DEF ClickCompact, TypeOK
  <2>5. FlowOK(f)'
    BY <1>2, <1>3, <2>1, <2>3, <2>4 DEF FlowOK, Place, SeriesPlaces
  <2>6. sending' <=> BusyAt("measuring")
    BY <2>1
  <2> QED
    BY <1>1, <1>2, <1>3, <2>1, <2>2, <2>5, <2>6, GoKeepsOne
<1>6. CASE ClickClear(f)
  <2>1. /\ Go(f, "clearing") /\ "clearing" \in Places \ {"saving"}
        /\ UNCHANGED <<after, before, controller>> /\ sending' = FALSE
        /\ \A g \in Flows \ {f} : next'[g] = next[g]
    BY <1>6, <1>1, <1>2, <1>3 DEF ClickClear, Go, Places, flagVars
  <2>2. \A g \in Flows \ {f} : next'[g] = next[g] /\ before'[g] = before[g]
                               /\ (controller' = g => controller = g)
    BY <2>1
  <2>3. at'[f] = "clearing"
    BY <1>3, <2>1 DEF Go
  <2>4. TRUE
    BY <1>6, <1>3, KindsDiffer DEF ClickClear, TypeOK
  <2>5. FlowOK(f)'
    BY <1>2, <1>3, <2>1, <2>3, <2>4 DEF FlowOK, Place, SeriesPlaces
  <2>6. sending' <=> BusyAt("clearing")
    BY <2>1
  <2> QED
    BY <1>1, <1>2, <1>3, <2>1, <2>2, <2>5, <2>6, GoKeepsOne
<1>7. CASE ClickRerun(f)
  <2>1. /\ Go(f, "rerunning") /\ "rerunning" \in Places \ {"saving"}
        /\ UNCHANGED <<after, before, controller>> /\ sending' = TRUE
        /\ \A g \in Flows \ {f} : next'[g] = next[g]
    BY <1>7, <1>1, <1>2, <1>3 DEF ClickRerun, Go, Places, flagVars
  <2>2. \A g \in Flows \ {f} : next'[g] = next[g] /\ before'[g] = before[g]
                               /\ (controller' = g => controller = g)
    BY <2>1
  <2>3. at'[f] = "rerunning"
    BY <1>3, <2>1 DEF Go
  <2>4. TRUE
    BY <1>7, <1>3, KindsDiffer DEF ClickRerun, TypeOK
  <2>5. FlowOK(f)'
    BY <1>2, <1>3, <2>1, <2>3, <2>4 DEF FlowOK, Place, SeriesPlaces
  <2>6. sending' <=> BusyAt("rerunning")
    BY <2>1
  <2> QED
    BY <1>1, <1>2, <1>3, <2>1, <2>2, <2>5, <2>6, GoKeepsOne
<1> QED
  BY <1>4, <1>5, <1>6, <1>7 DEF Click

LEMMA OtherKeepsOne ==
  ASSUME TypeOK, OneInv, ~raced',
         \/ \E m \in Messages : Type(m)
         \/ QueueDraft \/ RequestStop \/ Save
         \/ UNCHANGED vars
  PROVE  OneInv'
<1>1. CASE (\E m \in Messages : Type(m)) \/ QueueDraft \/ UNCHANGED vars
  BY <1>1 DEF Type, QueueDraft, vars, flagVars, flowVars, ghostVars,
     OneInv, Alone, FlowOK, Released, Place
<1>2. CASE Save
  <2>1. /\ UNCHANGED <<sending, after, next, before, controller, raced>>
        /\ at' \in {at, Released}
    BY <1>2 DEF Save, SaveDone, SaveFails, flagVars, ghostVars
  <2>2. Released' = Released /\ \A g \in Flows : Place(g)' = Place(g)
    BY <2>1 DEF Released, Place, TypeOK
  <2>3. \A g \in Flows : at[g] # "saving" => at'[g] = at[g]
    BY <2>1 DEF Released, Place
  <2> QED
    BY <2>1, <2>2, <2>3 DEF OneInv, Alone, FlowOK
<1>3. CASE RequestStop
  <2>1. /\ UNCHANGED <<sending, after, next, before, controller, raced>>
        /\ at' = [f \in Flows |-> IF f = controller /\ at[f] = "streaming"
                                  THEN "aborting" ELSE at[f]]
    BY <1>3 DEF RequestStop, ghostVars
  <2>2. CASE controller \in Flows /\ at[controller] = "streaming"
    <3>1. PICK c \in Flows : c = controller /\ at[c] = "streaming"
      BY <2>2
    <3>2. Go(c, "aborting") /\ at'[c] = "aborting"
      BY <2>1, <3>1 DEF Go, TypeOK
    <3>3. FlowOK(c) /\ ~raced /\ sending = TRUE
      BY <2>1, <3>1, BusySends DEF OneInv, BusyAt, Doing, Window, Place
    <3>4. FlowOK(c)'
      BY <2>1, <3>1, <3>2, <3>3 DEF FlowOK, Place, SeriesPlaces
    <3>5. Doing(at[c]) /\ (sending' <=> BusyAt("aborting"))
          /\ "aborting" \in Places \ {"saving"} /\ at[c] # "saving"
      BY <2>1, <3>1, <3>3 DEF Doing, BusyAt, Window, Places
    <3>6. \A g \in Flows \ {c} : next'[g] = next[g] /\ before'[g] = before[g]
                                 /\ (controller' = g => controller = g)
      BY <2>1
    <3> QED
      BY <2>1, <3>2, <3>3, <3>4, <3>5, <3>6, GoKeepsOne
  <2>3. CASE ~(controller \in Flows /\ at[controller] = "streaming")
    <3>1. at' = at
      BY <2>1, <2>3 DEF TypeOK
    <3> QED
      BY <2>1, <3>1 DEF OneInv, Alone, FlowOK, Released, Place
  <2> QED
    BY <2>2, <2>3
<1> QED
  BY <1>1, <1>2, <1>3

LEMMA OneKept == TypeOK /\ OneInv /\ [Next]_vars => OneInv'
<1> SUFFICES ASSUME TypeOK, OneInv, [Next]_vars, ~raced' PROVE OneInv'
  BY DEF OneInv
<1> QED
  BY TurnKeepsOne, ClickKeepsOne, OtherKeepsOne DEF Next

LEMMA InitOne == Init => OneInv
BY ConversationAssumption
   DEF Init, OneInv, Alone, FlowOK, Released, Place, Doing, BusyAt, Window,
       SeriesPlaces

(* isSending is true exactly while a series, a compaction or a rerun is     *)
(* under way, and never two are, unless one began in another's first        *)
(* awaits.                                                                  *)
THEOREM OneSeriesAtATime == Spec => []OneAtATime
<1>1. TypeOK /\ OneInv => OneAtATime
  BY DEF TypeOK, OneInv, OneAtATime, Alone, Released, Busy, BusyAt, Doing
<1> QED
  BY InitTypes, TypesKept, InitOne, OneKept, <1>1, PTL DEF Spec
-----------------------------------------------------------------------------
(* Who returns to idle from the end of a loop leaves the queue empty.       *)
LEMMA EndLoopDrains ==
  ASSUME NEW f \in Flows, NEW outcome, TypeOK, EndLoop(f, outcome),
         at'[f] = "idle",
         outcome \in {"queued", "complete"} \/ queue = << >>
  PROVE  queue' = << >>
BY DEF EndLoop, Consume, Finish, BeginTurn, Go, TypeOK

LEMMA OnlyOne ==
  ASSUME NEW f \in Flows, NEW g \in Flows, TypeOK, Turn(f), g # f
  PROVE  at'[g] = at[g]
BY DEF TypeOK, Turn, Begin, PrepareFails, NeedsCompaction, GiveUpTurn,
   SendRequest, StartStream, StreamDone, StreamAborted, StreamFails,
   CutShort, Stopped, Threw, EndAnswered, RetryEmpty, Retry, GiveUpEmpty,
   Execute, Complete, ExecuteThrows, ExecuteDone, EndAfterOutput,
   SendOutput, StartCompaction, MeasureFails, CompactionDone, Compacted,
   CompactionFails, Clear, RerunEnds, EndLoop, Consume, Finish, Return,
   BeginTurn, Persist, Go

LEMMA DrainStep ==
  ASSUME TypeOK, [Next]_vars, NEW f \in Flows,
         at[f] \in {"complete", "stopped", "output", "answered"},
         at'[f] = "idle"
  PROVE  queue' = << >>
<1>1. ASSUME NEW g \in Flows, Turn(g) PROVE g = f
  BY <1>1, OnlyOne
<1>2. CASE Turn(f)
  <2>1. \/ Stopped(f) \/ EndAnswered(f) \/ RetryEmpty(f) \/ GiveUpEmpty(f)
        \/ Execute(f) \/ Complete(f) \/ ExecuteDone(f) \/ EndAfterOutput(f)
        \/ SendOutput(f)
    BY <1>2 DEF Turn, Begin, PrepareFails, NeedsCompaction, GiveUpTurn,
       SendRequest, StartStream, StreamDone, StreamAborted, StreamFails,
       Threw, Retry, ExecuteThrows, StartCompaction, MeasureFails,
       CompactionDone, Compacted, CompactionFails, Clear, RerunEnds
  <2>2. CASE RetryEmpty(f) \/ GiveUpEmpty(f) \/ Execute(f) \/ ExecuteDone(f)
             \/ SendOutput(f)
    BY <2>2 DEF RetryEmpty, GiveUpEmpty, Execute, ExecuteDone, SendOutput,
       Persist, BeginTurn, Go, TypeOK
  <2>3. CASE Stopped(f)
    <3> DEFINE o == IF Boundary = "" THEN "stopped" ELSE Boundary
    <3>1. EndLoop(f, o)
      BY <2>3 DEF Stopped
    <3>2. o \in {"queued", "complete"} \/ queue = << >>
      BY DEF Boundary
    <3> HIDE DEF o
    <3> QED
      BY <3>1, <3>2, EndLoopDrains
  <2>4. CASE EndAnswered(f)
    <3> DEFINE o == BoundaryAfter(reply[f])
    <3>1. EndLoop(f, o)
      BY <2>4 DEF EndAnswered
    <3>2. o \in {"queued", "complete"} \/ queue = << >>
      BY <2>4 DEF EndAnswered, BoundaryAfter, Boundary
    <3> HIDE DEF o
    <3> QED
      BY <3>1, <3>2, EndLoopDrains
  <2>5. CASE Complete(f)
    BY <2>5, EndLoopDrains DEF Complete
  <2>6. CASE EndAfterOutput(f)
    <3> DEFINE o == Boundary
    <3>1. EndLoop(f, o)
      BY <2>6 DEF EndAfterOutput
    <3>2. o \in {"queued", "complete"} \/ queue = << >>
      BY DEF Boundary
    <3> HIDE DEF o
    <3> QED
      BY <3>1, <3>2, EndLoopDrains
  <2> QED
    BY <2>1, <2>2, <2>3, <2>4, <2>5, <2>6
<1>3. ASSUME \/ \E m \in Messages : Type(m)
             \/ QueueDraft \/ RequestStop \/ Save \/ UNCHANGED vars
             \/ \E g \in Flows : Click(g)
      PROVE  FALSE
  <2>1. at'[f] \in {at[f], "aborting"}
    BY <1>3 DEF Type, QueueDraft, RequestStop, Save, SaveDone, SaveFails,
       Released, Place, Click, Submit, ClickCompact, ClickClear, ClickRerun,
       Go, vars, flowVars, TypeOK
  <2> QED
    BY <2>1
<1> QED
  BY <1>1, <1>2, <1>3 DEF Next

(* A series that ends by itself has looked at the queue last: it leaves no  *)
(* message in it, whatever the user does meanwhile.                         *)
THEOREM QueueIsDrained == Spec => SeriesDrainsQueue
<1>1. TypeOK /\ [Next]_vars =>
        [\A f \in Flows :
           /\ at[f] \in {"complete", "stopped", "output", "answered"}
           /\ at'[f] = "idle"
           => queue' = << >>]_vars
  BY DrainStep
<1> QED
  BY InitTypes, TypesKept, <1>1, PTL DEF Spec, SeriesDrainsQueue
-----------------------------------------------------------------------------
(* Where messages are.                                                      *)
Queued(q) == {q[i] : i \in DOMAIN q}

Unsent == {"processing", "prepare", "again", "compacting", "compacted"}
Sent   == {"starting", "streaming", "aborting", "answered", "stopped", "threw",
           "retry", "complete", "executing", "output"}

(* What a flow has yet to send, and all the messages there are.             *)
HeldBy(f) == IF Place(f) \in Unsent THEN UsersIn(<<next[f]>>) ELSE {}

Held == UNION {HeldBy(f) : f \in Flows}

Known == lost \union gone \union {draft} \union Held
              \union UsersIn(history) \union Queued(queue)

(* The message of a turn is in its request, and later in the history; what  *)
(* a request that is answered would restore holds the history's messages.   *)
TurnOK(f) ==
  /\ Place(f) = "processing" => \E m \in Messages : next[f] = User(m)
  /\ Place(f) \in Sent => UsersIn(<<next[f]>>) \subseteq UsersIn(history)
  /\ Place(f) \in {"prepare", "again"} =>
       UsersIn(history) \union UsersIn(<<next[f]>>) \subseteq UsersIn(request[f])
  /\ Place(f) \in {"starting", "streaming", "aborting", "answered"} =>
       UsersIn(history) \subseteq UsersIn(request[f])

KeepInv ==
  ~raced => /\ 1..typed \subseteq Messages \intersect Known
            /\ \A f \in Flows : TurnOK(f)

LEMMA UserInjective ==
  /\ \A m, n \in Messages : User(m) = User(n) => m = n
  /\ \A m \in Messages : User(m).of = m
  /\ \A m \in Messages, k \in Kinds : User(m) # It(k) \/ k = "user"
  /\ \A m \in Messages, f \in Flows : User(m) # Open(f)
BY DEF User, It, Open, Kinds

LEMMA UsersOfOne ==
  ASSUME NEW item
  PROVE  UsersIn(<<item>>) = {m \in Messages : item = User(m)}
BY DEF UsersIn

LEMMA UsersOfUser == \A m \in Messages : UsersIn(<<User(m)>>) = {m}
BY UsersOfOne, UserInjective

LEMMA UsersOfOthers ==
  /\ \A k \in Kinds \ {"user"} : UsersIn(<<It(k)>>) = {}
  /\ \A f \in Flows : UsersIn(<<Open(f)>>) = {}
  /\ UsersIn(<<NoItem>>) = {} /\ UsersIn(<< >>) = {}
<1>1. \A k \in Kinds \ {"user"} : UsersIn(<<It(k)>>) = {}
  BY UsersOfOne, UserInjective
<1>2. \A f \in Flows : UsersIn(<<Open(f)>>) = {}
  BY UsersOfOne, UserInjective
<1>3. UsersIn(<<NoItem>>) = {}
  BY <1>1 DEF NoItem, Kinds
<1> QED
  BY <1>1, <1>2, <1>3 DEF UsersIn

LEMMA UsersOfAppend ==
  ASSUME NEW h \in Seq(Item), NEW item
  PROVE  UsersIn(Append(h, item)) = UsersIn(h) \union UsersIn(<<item>>)
<1>1. ASSUME NEW m \in Messages
      PROVE  (\E i \in DOMAIN Append(h, item) : Append(h, item)[i] = User(m))
               <=> (\E i \in DOMAIN h : h[i] = User(m)) \/ item = User(m)
  <2>1. ASSUME NEW i \in DOMAIN h, h[i] = User(m)
        PROVE  \E j \in DOMAIN Append(h, item) : Append(h, item)[j] = User(m)
    BY <2>1
  <2>2. ASSUME item = User(m)
        PROVE  \E j \in DOMAIN Append(h, item) : Append(h, item)[j] = User(m)
    <3>1. Len(h) + 1 \in DOMAIN Append(h, item) /\ Append(h, item)[Len(h) + 1] = item
      OBVIOUS
    <3> QED
      BY <3>1, <2>2
  <2>3. ASSUME NEW j \in DOMAIN Append(h, item), Append(h, item)[j] = User(m)
        PROVE  (\E i \in DOMAIN h : h[i] = User(m)) \/ item = User(m)
    BY <2>3
  <2> QED
    BY <2>1, <2>2, <2>3
<1> QED
  BY <1>1, UsersOfOne DEF UsersIn

LEMMA UsersOfRequested ==
  ASSUME NEW h \in Seq(Item), NEW item
  PROVE  UsersIn(Requested(h, item)) = UsersIn(h) \union UsersIn(<<item>>)
<1>1. CASE h # << >> /\ h[Len(h)] = item
  <2>1. Len(h) \in DOMAIN h
    BY <1>1
  <2>2. UsersIn(<<item>>) \subseteq UsersIn(h)
    BY <1>1, <2>1, UsersOfOne DEF UsersIn
  <2> QED
    BY <1>1, <2>2 DEF Requested
<1>2. CASE ~(h # << >> /\ h[Len(h)] = item)
  BY <1>2, UsersOfAppend DEF Requested
<1> QED
  BY <1>1, <1>2

LEMMA UsersOfSettled ==
  ASSUME NEW h \in Seq(Item), NEW f \in Flows, NEW kind \in Kinds \ {"user"}
  PROVE  UsersIn(Settled(h, f, kind)) = UsersIn(h)
<1>1. DOMAIN Settled(h, f, kind) = DOMAIN h
  BY DEF Settled
<1>2. ASSUME NEW m \in Messages, NEW i \in DOMAIN h
      PROVE  Settled(h, f, kind)[i] = User(m) <=> h[i] = User(m)
  BY UserInjective DEF Settled
<1> QED
  BY <1>1, <1>2 DEF UsersIn

LEMMA QueuedOfTail ==
  ASSUME NEW q \in Seq(Messages), q # << >>
  PROVE  Queued(q) \subseteq {Head(q)} \union Queued(Tail(q))
<1>1. ASSUME NEW i \in DOMAIN q PROVE q[i] \in {Head(q)} \union Queued(Tail(q))
  <2>1. CASE i = 1
    BY <2>1
  <2>2. CASE i # 1
    <3>1. i - 1 \in DOMAIN Tail(q) /\ Tail(q)[i - 1] = q[i]
      BY <2>2
    <3> QED
      BY <3>1 DEF Queued
  <2> QED
    BY <2>1, <2>2
<1> QED
  BY <1>1 DEF Queued

LEMMA QueuedOfAppend ==
  ASSUME NEW q \in Seq(Messages), NEW m
  PROVE  Queued(q) \union {m} \subseteq Queued(Append(q, m))
<1>1. ASSUME NEW i \in DOMAIN q PROVE q[i] \in Queued(Append(q, m))
  <2>1. i \in DOMAIN Append(q, m) /\ Append(q, m)[i] = q[i]
    OBVIOUS
  <2> QED
    BY <2>1 DEF Queued
<1>2. Len(q) + 1 \in DOMAIN Append(q, m) /\ Append(q, m)[Len(q) + 1] = m
  OBVIOUS
<1> QED
  BY <1>1, <1>2 DEF Queued

LEMMA HeldByOne ==
  ASSUME NEW f \in Flows, \A g \in Flows \ {f} : ~Doing(Place(g))
  PROVE  Held = HeldBy(f)
<1>1. \A g \in Flows \ {f} : HeldBy(g) = {}
  BY DEF HeldBy, Doing, Unsent
<1> QED
  BY <1>1 DEF Held

(* The messages known when f alone is under way.                            *)
KnownBy(f) == lost \union gone \union {draft} \union HeldBy(f)
                \union UsersIn(history) \union Queued(queue)

LEMMA KeepStep ==
  ASSUME NEW f \in Flows, TypeOK, KeepInv, ~raced, typed' = typed,
         \A g \in Flows \ {f} : ~Doing(Place(g)) /\ Place(g)' = Place(g),
         Messages \intersect KnownBy(f) \subseteq KnownBy(f)',
         TurnOK(f)'
  PROVE  KeepInv'
<1>1. Known = KnownBy(f)
  BY HeldByOne DEF Known, KnownBy
<1>2. Known' = KnownBy(f)'
  <2>1. \A g \in Flows \ {f} : ~Doing(Place(g)')
    OBVIOUS
  <2>2. \A g \in Flows \ {f} : HeldBy(g)' = {}
    BY <2>1 DEF HeldBy, Doing, Unsent
  <2>3. Held' = HeldBy(f)'
    BY <2>2 DEF Held
  <2> QED
    BY <2>3 DEF Known, KnownBy
<1>3. 1..typed' \subseteq Messages \intersect Known'
  BY <1>1, <1>2 DEF KeepInv
<1>4. ASSUME NEW g \in Flows \ {f} PROVE TurnOK(g)'
  BY <1>4 DEF TurnOK, Doing, Sent
<1> QED
  BY <1>3, <1>4 DEF KeepInv, Messages

(* What Turn(f) leaves alone, and who can be under way beside it.           *)
LEMMA TurnFrame ==
  ASSUME NEW f \in Flows, TypeOK, OneInv, ~raced, Turn(f), Doing(Place(f))
  PROVE  \A g \in Flows \ {f} : ~Doing(Place(g)) /\ Place(g)' = Place(g)
<1>1. ASSUME NEW g \in Flows \ {f} PROVE at'[g] = at[g] /\ after'[g] = after[g]
  <2>1. at'[g] = at[g]
    BY OnlyOne
  <2>2. after'[g] = after[g]
    BY DEF TypeOK, Turn, Begin, PrepareFails, NeedsCompaction, GiveUpTurn,
       SendRequest, StartStream, StreamDone, StreamAborted, StreamFails,
       CutShort, Stopped, Threw, EndAnswered, RetryEmpty, Retry, GiveUpEmpty,
       Execute, Complete, ExecuteThrows, ExecuteDone, EndAfterOutput,
       SendOutput, StartCompaction, MeasureFails, CompactionDone, Compacted,
       CompactionFails, Clear, RerunEnds, EndLoop, Persist
  <2> QED
    BY <2>1, <2>2
<1>2. \A g \in Flows \ {f} : Place(g)' = Place(g)
  BY <1>1 DEF Place
<1>3. \A g \in Flows \ {f} : ~Doing(Place(g))
  BY DEF OneInv, Alone, Released
<1> QED
  BY <1>2, <1>3

LEMMA EndLoopKeeps ==
  ASSUME NEW f \in Flows, NEW outcome, TypeOK, EndLoop(f, outcome), at[f] # "saving",
         history' = history, gone' = gone, lost \subseteq lost',
         HeldBy(f) \subseteq lost' \union UsersIn(history)
  PROVE  /\ Messages \intersect KnownBy(f) \subseteq KnownBy(f)'
         /\ TurnOK(f)' /\ typed' = typed
<1>0. typed' = typed /\ draft' = draft
  BY DEF EndLoop
<1>1. CASE Consume(f)
  <2>1. queue # << >> /\ queue' = Tail(queue) /\ Head(queue) \in Messages
    BY <1>1 DEF Consume, TypeOK
  <2>2. /\ at' = [at EXCEPT ![f] = "prepare"]
        /\ next' = [next EXCEPT ![f] = User(Head(queue))]
        /\ request' = [request EXCEPT ![f] = Requested(history, User(Head(queue)))]
    BY <1>1 DEF Consume, BeginTurn, Go
  <2>3. /\ Place(f)' = "prepare" /\ next'[f] = User(Head(queue))
        /\ request'[f] = Requested(history, User(Head(queue)))
    BY <2>2 DEF Place, TypeOK
  <2>4. UsersIn(request'[f]) = UsersIn(history) \union {Head(queue)}
    <3>1. history \in Seq(Item)
      BY DEF TypeOK
    <3>2. UsersIn(Requested(history, User(Head(queue))))
            = UsersIn(history) \union UsersIn(<<User(Head(queue))>>)
      BY <3>1, UsersOfRequested
    <3>3. UsersIn(<<User(Head(queue))>>) = {Head(queue)}
      BY <2>1, UsersOfUser
    <3> QED
      BY <2>3, <3>2, <3>3
  <2>5. UsersIn(<<next'[f]>>) = {Head(queue)}
    BY <2>1, <2>3, UsersOfUser
  <2>6. TurnOK(f)'
    BY <2>3, <2>4, <2>5 DEF TurnOK, Sent
  <2>7. HeldBy(f)' = {Head(queue)}
    BY <2>3, <2>5 DEF HeldBy, Unsent
  <2>8. Queued(queue) \subseteq {Head(queue)} \union Queued(queue')
    BY <2>1, QueuedOfTail DEF TypeOK
  <2>9. UsersIn(history)' = UsersIn(history) /\ Queued(queue)' = Queued(queue')
    OBVIOUS
  <2> QED
    BY <1>0, <2>6, <2>7, <2>8, <2>9 DEF KnownBy
<1>2. CASE Finish(f)
  <2>1. queue' = queue /\ Place(f)' = "idle"
    BY <1>2 DEF Finish, Return, Go, Place, TypeOK
  <2>2. TurnOK(f)'
    BY <2>1 DEF TurnOK, Sent
  <2>3. UsersIn(history)' = UsersIn(history) /\ Queued(queue)' = Queued(queue)
    BY <2>1
  <2> QED
    BY <1>0, <2>1, <2>2, <2>3 DEF KnownBy
<1> QED
  BY <1>1, <1>2 DEF EndLoop

LEMMA NextOfTurn ==
  ASSUME NEW f \in Flows, TypeOK
  PROVE  /\ next[f] \in Item /\ request[f] \in Seq(Item) /\ history \in Seq(Item)
         /\ at[f] \in Places /\ after[f] \in Places \ {"saving"}
BY DEF TypeOK

LEMMA TurnKeepsMessages ==
  ASSUME NEW f \in Flows, TypeOK, OneInv, KeepInv, ~raced, Turn(f), ~Clear(f),
         ~RerunEnds(f)
  PROVE  KeepInv'
<1>0. /\ next[f] \in Item /\ request[f] \in Seq(Item) /\ history \in Seq(Item)
      /\ at[f] \in Places /\ after[f] \in Places \ {"saving"}
      /\ at \in [Flows -> Places] /\ after \in [Flows -> Places \ {"saving"}]
      /\ next \in [Flows -> Item] /\ request \in [Flows -> Seq(Item)]
      /\ TurnOK(f) /\ FlowOK(f)
  BY NextOfTurn DEF TypeOK, KeepInv, OneInv
<1>s. SUFFICES ASSUME Doing(Place(f))
               PROVE  /\ Messages \intersect KnownBy(f) \subseteq KnownBy(f)'
                      /\ TurnOK(f)' /\ typed' = typed
  <2>1. at[f] \in Places \ {"idle", "clearing", "saving"}
    BY <1>0 DEF Turn, Begin, PrepareFails, NeedsCompaction, GiveUpTurn,
       SendRequest, StartStream, StreamDone, StreamAborted, StreamFails,
       Stopped, Threw, EndAnswered, RetryEmpty, Retry, GiveUpEmpty,
       Execute, Complete, ExecuteThrows, ExecuteDone, EndAfterOutput,
       SendOutput, StartCompaction, MeasureFails, CompactionDone, Compacted,
       CompactionFails, Places
  <2>2. Doing(Place(f))
    BY <2>1 DEF Doing, Place
  <2> QED
    BY <2>2, TurnFrame, KeepStep
<1> DEFINE Goal == /\ Messages \intersect KnownBy(f) \subseteq KnownBy(f)'
                   /\ TurnOK(f)' /\ typed' = typed
<1>1. ASSUME Begin(f) PROVE Goal
  <2>1. /\ at[f] = "processing" /\ draft' = Nothing /\ queue' = queue
        /\ lost' = lost \union ((Messages \intersect {draft}) \ {next[f].of})
        /\ at' = [at EXCEPT ![f] = "prepare"] /\ next' = [next EXCEPT ![f] = next[f]]
        /\ request' = [request EXCEPT ![f] = Requested(history, next[f])]
        /\ gone' = gone /\ history' = history /\ typed' = typed
    BY <1>1 DEF Begin, BeginTurn, Go
  <2>2. PICK m \in Messages : next[f] = User(m)
    BY <1>0, <2>1 DEF TurnOK, Place
  <2>3. next[f].of = m /\ UsersIn(<<next[f]>>) = {m}
    BY <2>2, UserInjective, UsersOfUser
  <2>4. /\ Place(f)' = "prepare" /\ next'[f] = next[f]
        /\ request'[f] = Requested(history, next[f])
    BY <1>0, <2>1 DEF Place
  <2>5. HeldBy(f) = {m} /\ HeldBy(f)' = {m}
    BY <2>1, <2>3, <2>4 DEF HeldBy, Unsent, Place
  <2>6. UsersIn(history)' = UsersIn(history) /\ Queued(queue)' = Queued(queue)
    BY <2>1
  <2>7. Messages \intersect KnownBy(f) \subseteq KnownBy(f)'
    BY <2>1, <2>3, <2>5, <2>6 DEF KnownBy
  <2>8. UsersIn(Requested(history, next[f]))
          = UsersIn(history) \union UsersIn(<<next[f]>>)
    BY <1>0, UsersOfRequested
  <2>9. TurnOK(f)'
    BY <2>1, <2>4, <2>8 DEF TurnOK, Sent
  <2> QED
    BY <2>1, <2>7, <2>9
<1>2. ASSUME PrepareFails(f) PROVE Goal
  <2>1. PICK outcome : EndLoop(f, outcome)
    BY <1>2 DEF PrepareFails
  <2>2. at[f] # "saving" /\ history' = history /\ gone' = gone
        /\ lost' = lost \union (UsersIn(<<next[f]>>) \ UsersIn(history))
    BY <1>2 DEF PrepareFails, DropUnsent
  <2>3. HeldBy(f) \subseteq lost' \union UsersIn(history)
    BY <2>2 DEF HeldBy
  <2>4. lost \subseteq lost'
    BY <2>2
  <2> QED
    BY <2>1, <2>2, <2>3, <2>4, EndLoopKeeps
<1>3. ASSUME GiveUpTurn(f) PROVE Goal
  <2>1. PICK outcome : EndLoop(f, outcome)
    BY <1>3 DEF GiveUpTurn
  <2>2. at[f] # "saving" /\ history' = history /\ gone' = gone
        /\ lost' = lost \union (UsersIn(<<next[f]>>) \ UsersIn(history))
    BY <1>3 DEF GiveUpTurn, DropUnsent
  <2>3. HeldBy(f) \subseteq lost' \union UsersIn(history)
    BY <2>2 DEF HeldBy
  <2>4. lost \subseteq lost'
    BY <2>2
  <2> QED
    BY <2>1, <2>2, <2>3, <2>4, EndLoopKeeps
<1>4. ASSUME Stopped(f) PROVE Goal
  <2>1. PICK outcome : EndLoop(f, outcome)
    BY <1>4 DEF Stopped
  <2>2. at[f] # "saving" /\ history' = history /\ gone' = gone /\ lost' = lost
    BY <1>4 DEF Stopped, ghostVars
  <2>3. HeldBy(f) \subseteq lost' \union UsersIn(history)
    BY <1>4 DEF Stopped, HeldBy, Unsent, Place
  <2>4. lost \subseteq lost'
    BY <2>2
  <2> QED
    BY <2>1, <2>2, <2>3, <2>4, EndLoopKeeps
<1>5. ASSUME Threw(f) PROVE Goal
  <2>1. PICK outcome : EndLoop(f, outcome)
    BY <1>5 DEF Threw
  <2>2. at[f] # "saving" /\ history' = history /\ gone' = gone /\ lost' = lost
    BY <1>5 DEF Threw, ghostVars
  <2>3. HeldBy(f) \subseteq lost' \union UsersIn(history)
    BY <1>5 DEF Threw, HeldBy, Unsent, Place
  <2>4. lost \subseteq lost'
    BY <2>2
  <2> QED
    BY <2>1, <2>2, <2>3, <2>4, EndLoopKeeps
<1>6. ASSUME EndAnswered(f) PROVE Goal
  <2>1. PICK outcome : EndLoop(f, outcome)
    BY <1>6 DEF EndAnswered
  <2>2. at[f] # "saving" /\ history' = history /\ gone' = gone /\ lost' = lost
    BY <1>6 DEF EndAnswered, ghostVars
  <2>3. HeldBy(f) \subseteq lost' \union UsersIn(history)
    BY <1>6 DEF EndAnswered, HeldBy, Unsent, Place
  <2>4. lost \subseteq lost'
    BY <2>2
  <2> QED
    BY <2>1, <2>2, <2>3, <2>4, EndLoopKeeps
<1>7. ASSUME Complete(f) PROVE Goal
  <2>1. PICK outcome : EndLoop(f, outcome)
    BY <1>7 DEF Complete
  <2>2. at[f] # "saving" /\ history' = history /\ gone' = gone /\ lost' = lost
    BY <1>7 DEF Complete, ghostVars
  <2>3. HeldBy(f) \subseteq lost' \union UsersIn(history)
    BY <1>7 DEF Complete, HeldBy, Unsent, Place
  <2>4. lost \subseteq lost'
    BY <2>2
  <2> QED
    BY <2>1, <2>2, <2>3, <2>4, EndLoopKeeps
<1>8. ASSUME ExecuteThrows(f) PROVE Goal
  <2>1. PICK outcome : EndLoop(f, outcome)
    BY <1>8 DEF ExecuteThrows
  <2>2. at[f] # "saving" /\ history' = history /\ gone' = gone /\ lost' = lost
    BY <1>8 DEF ExecuteThrows, ghostVars
  <2>3. HeldBy(f) \subseteq lost' \union UsersIn(history)
    BY <1>8 DEF ExecuteThrows, HeldBy, Unsent, Place
  <2>4. lost \subseteq lost'
    BY <2>2
  <2> QED
    BY <2>1, <2>2, <2>3, <2>4, EndLoopKeeps
<1>9. ASSUME EndAfterOutput(f) PROVE Goal
  <2>1. PICK outcome : EndLoop(f, outcome)
    BY <1>9 DEF EndAfterOutput
  <2>2. at[f] # "saving" /\ history' = history /\ gone' = gone /\ lost' = lost
    BY <1>9 DEF EndAfterOutput, ghostVars
  <2>3. HeldBy(f) \subseteq lost' \union UsersIn(history)
    BY <1>9 DEF EndAfterOutput, HeldBy, Unsent, Place
  <2>4. lost \subseteq lost'
    BY <2>2
  <2> QED
    BY <2>1, <2>2, <2>3, <2>4, EndLoopKeeps
<1>10. ASSUME NeedsCompaction(f) PROVE Goal
  <2>1. at[f] = "prepare" /\ history # << >> /\ history' = history
        /\ at' = [at EXCEPT ![f] = "compacting"] /\ after' = after
        /\ lost' = lost /\ gone' = gone /\ draft' = draft /\ queue' = queue
        /\ typed' = typed
    BY <1>10 DEF NeedsCompaction, Go, userVars, ghostVars
  <2>2. Place(f) = "prepare" /\ Place(f)' = "compacting"
    BY <1>0, <2>1 DEF Place
  <2>3. TurnOK(f)'
    BY <2>2 DEF TurnOK, Sent
  <2>4. UsersIn(<<next[f]>>) \subseteq UsersIn(history) \union UsersIn(<<next'[f]>>)
    <3>1. CASE next[f] = history[Len(history)]
      <4>1. Len(history) \in DOMAIN history
        BY <1>0, <2>1
      <4> QED
        BY <3>1, <4>1, UsersOfOne DEF UsersIn
    <3>2. CASE next[f] # history[Len(history)]
      BY <1>10, <1>0, <3>2 DEF NeedsCompaction
    <3> QED
      BY <3>1, <3>2
  <2>5. HeldBy(f) = UsersIn(<<next[f]>>) /\ HeldBy(f)' = UsersIn(<<next'[f]>>)
    BY <2>2 DEF HeldBy, Unsent
  <2>6. UsersIn(history)' = UsersIn(history) /\ Queued(queue)' = Queued(queue)
    BY <2>1
  <2> QED
    BY <2>1, <2>3, <2>4, <2>5, <2>6 DEF KnownBy
<1>11. ASSUME SendRequest(f) PROVE Goal
  <2>1. at[f] \in {"prepare", "again"} /\ history' = Append(request[f], Open(f))
        /\ at' = [at EXCEPT ![f] = "starting"] /\ next' = next /\ request' = request
        /\ lost' = lost /\ gone' = gone /\ draft' = draft /\ queue' = queue
        /\ typed' = typed
    BY <1>11 DEF SendRequest, Go, userVars, ghostVars
  <2>2. Place(f) \in {"prepare", "again"} /\ Place(f)' = "starting"
    BY <1>0, <2>1 DEF Place
  <2>3. UsersIn(history') = UsersIn(request[f])
    <3>1. UsersIn(Append(request[f], Open(f)))
            = UsersIn(request[f]) \union UsersIn(<<Open(f)>>)
      BY <1>0, UsersOfAppend
    <3>2. UsersIn(<<Open(f)>>) = {}
      BY UsersOfOthers
    <3> QED
      BY <2>1, <3>1, <3>2
  <2>4. UsersIn(history) \union UsersIn(<<next[f]>>) \subseteq UsersIn(request[f])
    BY <1>0, <2>2 DEF TurnOK
  <2>5. TurnOK(f)'
    BY <2>1, <2>2, <2>3, <2>4 DEF TurnOK, Sent
  <2>6. HeldBy(f) \subseteq UsersIn(<<next[f]>>)
    BY DEF HeldBy
  <2>7. Queued(queue)' = Queued(queue)
    BY <2>1
  <2>8. UsersIn(history)' = UsersIn(history')
    OBVIOUS
  <2> QED
    BY <2>1, <2>3, <2>4, <2>5, <2>6, <2>7, <2>8 DEF KnownBy
<1>12. ASSUME StartStream(f) PROVE Goal
  <2>1. at[f] = "starting" /\ history' = history
        /\ at' = [at EXCEPT ![f] = "streaming"] /\ next' = next /\ request' = request
        /\ lost' = lost /\ gone' = gone /\ draft' = draft /\ queue' = queue
        /\ typed' = typed
    BY <1>12 DEF StartStream, Go, userVars, ghostVars
  <2>2. Place(f) = "starting" /\ Place(f)' = "streaming"
    BY <1>0, <2>1 DEF Place
  <2>3. TurnOK(f)'
    BY <1>0, <2>1, <2>2 DEF TurnOK, Sent
  <2>4. HeldBy(f) = {}
    BY <2>2 DEF HeldBy, Unsent
  <2>5. UsersIn(history)' = UsersIn(history) /\ Queued(queue)' = Queued(queue)
    BY <2>1
  <2> QED
    BY <2>1, <2>3, <2>4, <2>5 DEF KnownBy
<1>13. ASSUME Execute(f) PROVE Goal
  <2>1. at[f] = "answered" /\ history' = history
        /\ at' = [at EXCEPT ![f] = "executing"] /\ next' = next /\ request' = request
        /\ lost' = lost /\ gone' = gone /\ draft' = draft /\ queue' = queue
        /\ typed' = typed
    BY <1>13 DEF Execute, Go, userVars, ghostVars
  <2>2. Place(f) = "answered" /\ Place(f)' = "executing"
    BY <1>0, <2>1 DEF Place
  <2>3. TurnOK(f)'
    BY <1>0, <2>1, <2>2 DEF TurnOK, Sent
  <2>4. HeldBy(f) = {}
    BY <2>2 DEF HeldBy, Unsent
  <2>5. UsersIn(history)' = UsersIn(history) /\ Queued(queue)' = Queued(queue)
    BY <2>1
  <2> QED
    BY <2>1, <2>3, <2>4, <2>5 DEF KnownBy
<1>14. ASSUME NEW kind \in {"text", "code", "empty"}, StreamDone(f, kind) PROVE Goal
  <2>1. at[f] \in {"streaming", "aborting"} /\ Place(f)' = "answered" /\ next' = next /\ request' = request
        /\ lost' = lost /\ gone' = gone /\ draft' = draft /\ queue' = queue
        /\ typed' = typed
    <3>1. PICK h : Persist(f, h, "answered")
      BY <1>14 DEF StreamDone
    <3>2. "answered" \in Places \ {"saving"}
      BY DEF Places
    <3>3. Place(f)' = "answered"
      BY <3>1, <3>2, PersistAlone
    <3> QED
      BY <1>14, <3>3 DEF StreamDone, userVars, ghostVars
  <2>2. Place(f) = at[f]
    BY <2>1 DEF Place
  <2>3. /\ UsersIn(history) = UsersIn(history')
        /\ UsersIn(history) \subseteq UsersIn(request[f])
    <3>1. history' = Settled(history, f, kind) /\ kind \in Kinds \ {"user"}
      BY <1>14 DEF StreamDone, Kinds
    <3>2. UsersIn(history) = UsersIn(history')
      BY <1>0, <3>1, UsersOfSettled
    <3> QED
      BY <1>0, <2>1, <2>2, <3>2 DEF TurnOK
  <2>4. TurnOK(f)'
    BY <1>0, <2>1, <2>2, <2>3 DEF TurnOK, Sent
  <2>5. HeldBy(f) = {}
    BY <2>1, <2>2 DEF HeldBy, Unsent
  <2>6. Queued(queue)' = Queued(queue) /\ UsersIn(history)' = UsersIn(history')
    BY <2>1
  <2> QED
    BY <2>1, <2>3, <2>4, <2>5, <2>6 DEF KnownBy
<1>15. ASSUME StreamAborted(f) PROVE Goal
  <2>1. at[f] \in {"aborting"} /\ Place(f)' = "stopped" /\ next' = next /\ request' = request
        /\ lost' = lost /\ gone' = gone /\ draft' = draft /\ queue' = queue
        /\ typed' = typed
    <3>1. PICK h : Persist(f, h, "stopped")
      BY <1>15 DEF StreamAborted, CutShort
    <3>2. "stopped" \in Places \ {"saving"}
      BY DEF Places
    <3>3. Place(f)' = "stopped"
      BY <3>1, <3>2, PersistAlone
    <3> QED
      BY <1>15, <3>3 DEF StreamAborted, CutShort, userVars, ghostVars
  <2>2. Place(f) = at[f]
    BY <2>1 DEF Place
  <2>3. UsersIn(history) \subseteq UsersIn(history')
    <3>1. history' = Settled(history, f, "cut") \/ history' = request[f]
      BY <1>15 DEF StreamAborted, CutShort
    <3>2. "cut" \in Kinds \ {"user"}
      BY DEF Kinds
    <3>3. UsersIn(Settled(history, f, "cut")) = UsersIn(history)
      BY <1>0, <3>2, UsersOfSettled
    <3>4. UsersIn(history) \subseteq UsersIn(request[f])
      BY <1>0, <2>1, <2>2 DEF TurnOK
    <3> QED
      BY <3>1, <3>3, <3>4
  <2>4. TurnOK(f)'
    BY <1>0, <2>1, <2>2, <2>3 DEF TurnOK, Sent
  <2>5. HeldBy(f) = {}
    BY <2>1, <2>2 DEF HeldBy, Unsent
  <2>6. Queued(queue)' = Queued(queue) /\ UsersIn(history)' = UsersIn(history')
    BY <2>1
  <2> QED
    BY <2>1, <2>3, <2>4, <2>5, <2>6 DEF KnownBy
<1>16. ASSUME StreamFails(f) PROVE Goal
  <2>1. at[f] \in {"starting", "streaming", "aborting"}
        /\ Place(f)' = "threw" /\ next' = next /\ request' = request
        /\ lost' = lost /\ gone' = gone /\ draft' = draft /\ queue' = queue
        /\ typed' = typed
    <3>1. PICK h : Persist(f, h, "threw")
      BY <1>16 DEF StreamFails, CutShort, Fault
    <3>2. "threw" \in Places \ {"saving"}
      BY DEF Places
    <3>3. Place(f)' = "threw"
      BY <3>1, <3>2, PersistAlone
    <3> QED
      BY <1>16, <3>3 DEF StreamFails, CutShort, Fault, userVars, ghostVars
  <2>2. Place(f) = at[f]
    BY <2>1 DEF Place
  <2>3. UsersIn(history) \subseteq UsersIn(history')
    <3>1. history' = Settled(history, f, "cut") \/ history' = request[f]
      BY <1>16 DEF StreamFails, CutShort, Fault
    <3>2. "cut" \in Kinds \ {"user"}
      BY DEF Kinds
    <3>3. UsersIn(Settled(history, f, "cut")) = UsersIn(history)
      BY <1>0, <3>2, UsersOfSettled
    <3>4. UsersIn(history) \subseteq UsersIn(request[f])
      BY <1>0, <2>1, <2>2 DEF TurnOK
    <3> QED
      BY <3>1, <3>3, <3>4
  <2>4. TurnOK(f)'
    BY <1>0, <2>1, <2>2, <2>3 DEF TurnOK, Sent
  <2>5. HeldBy(f) = {}
    BY <2>1, <2>2 DEF HeldBy, Unsent
  <2>6. Queued(queue)' = Queued(queue) /\ UsersIn(history)' = UsersIn(history')
    BY <2>1
  <2> QED
    BY <2>1, <2>3, <2>4, <2>5, <2>6 DEF KnownBy
<1>17. ASSUME RetryEmpty(f) PROVE Goal
  <2>1. at[f] \in {"answered"} /\ Place(f)' = "retry" /\ next' = next /\ request' = request
        /\ lost' = lost /\ gone' = gone /\ draft' = draft /\ queue' = queue
        /\ typed' = typed
    <3>1. PICK h : Persist(f, h, "retry")
      BY <1>17 DEF RetryEmpty
    <3>2. "retry" \in Places \ {"saving"}
      BY DEF Places
    <3>3. Place(f)' = "retry"
      BY <3>1, <3>2, PersistAlone
    <3> QED
      BY <1>17, <3>3 DEF RetryEmpty, userVars, ghostVars
  <2>2. Place(f) = at[f]
    BY <2>1 DEF Place
  <2>3. UsersIn(history) \subseteq UsersIn(history')
    BY <1>17, <1>0, <2>1, <2>2 DEF RetryEmpty, TurnOK
  <2>4. TurnOK(f)'
    BY <1>0, <2>1, <2>2, <2>3 DEF TurnOK, Sent
  <2>5. HeldBy(f) = {}
    BY <2>1, <2>2 DEF HeldBy, Unsent
  <2>6. Queued(queue)' = Queued(queue) /\ UsersIn(history)' = UsersIn(history')
    BY <2>1
  <2> QED
    BY <2>1, <2>3, <2>4, <2>5, <2>6 DEF KnownBy
<1>18. ASSUME GiveUpEmpty(f) PROVE Goal
  <2>1. at[f] \in {"answered"} /\ Place(f)' = "complete" /\ next' = next /\ request' = request
        /\ lost' = lost /\ gone' = gone /\ draft' = draft /\ queue' = queue
        /\ typed' = typed
    <3>1. PICK h : Persist(f, h, "complete")
      BY <1>18 DEF GiveUpEmpty
    <3>2. "complete" \in Places \ {"saving"}
      BY DEF Places
    <3>3. Place(f)' = "complete"
      BY <3>1, <3>2, PersistAlone
    <3> QED
      BY <1>18, <3>3 DEF GiveUpEmpty, userVars, ghostVars
  <2>2. Place(f) = at[f]
    BY <2>1 DEF Place
  <2>3. UsersIn(history) \subseteq UsersIn(history')
    BY <1>18 DEF GiveUpEmpty
  <2>4. TurnOK(f)'
    BY <1>0, <2>1, <2>2, <2>3 DEF TurnOK, Sent
  <2>5. HeldBy(f) = {}
    BY <2>1, <2>2 DEF HeldBy, Unsent
  <2>6. Queued(queue)' = Queued(queue) /\ UsersIn(history)' = UsersIn(history')
    BY <2>1
  <2> QED
    BY <2>1, <2>3, <2>4, <2>5, <2>6 DEF KnownBy
<1>19. ASSUME ExecuteDone(f) PROVE Goal
  <2>1. at[f] \in {"executing"} /\ Place(f)' = "output" /\ next' = next /\ request' = request
        /\ lost' = lost /\ gone' = gone /\ draft' = draft /\ queue' = queue
        /\ typed' = typed
    <3>1. PICK h : Persist(f, h, "output")
      BY <1>19 DEF ExecuteDone
    <3>2. "output" \in Places \ {"saving"}
      BY DEF Places
    <3>3. Place(f)' = "output"
      BY <3>1, <3>2, PersistAlone
    <3> QED
      BY <1>19, <3>3 DEF ExecuteDone, userVars, ghostVars
  <2>2. Place(f) = at[f]
    BY <2>1 DEF Place
  <2>3. UsersIn(history) \subseteq UsersIn(history')
    BY <1>19, <1>0, UsersOfAppend DEF ExecuteDone
  <2>4. TurnOK(f)'
    BY <1>0, <2>1, <2>2, <2>3 DEF TurnOK, Sent
  <2>5. HeldBy(f) = {}
    BY <2>1, <2>2 DEF HeldBy, Unsent
  <2>6. Queued(queue)' = Queued(queue) /\ UsersIn(history)' = UsersIn(history')
    BY <2>1
  <2> QED
    BY <2>1, <2>3, <2>4, <2>5, <2>6 DEF KnownBy
<1>20. ASSUME CompactionDone(f) PROVE Goal
  <2>1. at[f] = "compacting" /\ Place(f)' = "compacted" /\ next' = next
        /\ lost' = lost /\ gone' = gone \union UsersIn(history) /\ draft' = draft
        /\ queue' = queue /\ typed' = typed
    <3>1. PICK h : Persist(f, h, "compacted")
      BY <1>20 DEF CompactionDone
    <3>2. "compacted" \in Places \ {"saving"}
      BY DEF Places
    <3>3. Place(f)' = "compacted"
      BY <3>1, <3>2, PersistAlone
    <3> QED
      BY <1>20, <3>3 DEF CompactionDone, userVars
  <2>2. Place(f) = at[f]
    BY <2>1 DEF Place
  <2>3. HeldBy(f)' = HeldBy(f)
    BY <2>1, <2>2 DEF HeldBy, Unsent
  <2>4. TurnOK(f)'
    BY <2>1 DEF TurnOK, Sent
  <2>5. Queued(queue)' = Queued(queue)
    BY <2>1
  <2> QED
    BY <2>1, <2>3, <2>4, <2>5 DEF KnownBy
<1>21. ASSUME Retry(f) PROVE Goal
  <2> DEFINE item == IF retries[f] = 1 THEN next[f] ELSE It("retry")
  <2>1. at[f] = "retry" /\ at' = [at EXCEPT ![f] = "prepare"]
        /\ next' = [next EXCEPT ![f] = item]
        /\ request' = [request EXCEPT ![f] = Requested(history, item)]
        /\ lost' = lost /\ gone' = gone /\ draft' = draft /\ queue' = queue
        /\ typed' = typed /\ history' = history
    BY <1>21 DEF Retry, BeginTurn, Go, userVars, ghostVars
  <2> HIDE DEF item
  <2>2. UsersIn(Requested(history, item)) = UsersIn(history) \union UsersIn(<<item>>)
    BY <1>0, UsersOfRequested
  <2>3. /\ Place(f) = "retry" /\ Place(f)' = "prepare" /\ next'[f] = item
        /\ request'[f] = Requested(history, item)
    BY <1>0, <2>1 DEF Place
  <2>4. TurnOK(f)'
    BY <2>1, <2>2, <2>3 DEF TurnOK, Sent
  <2>5. HeldBy(f) = {}
    BY <2>3 DEF HeldBy, Unsent
  <2>6. UsersIn(history)' = UsersIn(history) /\ Queued(queue)' = Queued(queue)
    BY <2>1
  <2> QED
    BY <2>1, <2>4, <2>5, <2>6 DEF KnownBy
<1>22. ASSUME SendOutput(f) PROVE Goal
  <2> DEFINE item == It("output")
  <2>1. at[f] = "output" /\ at' = [at EXCEPT ![f] = "prepare"]
        /\ next' = [next EXCEPT ![f] = item]
        /\ request' = [request EXCEPT ![f] = Requested(history, item)]
        /\ lost' = lost /\ gone' = gone /\ draft' = draft /\ queue' = queue
        /\ typed' = typed /\ history' = history
    BY <1>22 DEF SendOutput, BeginTurn, Go, userVars, ghostVars
  <2> HIDE DEF item
  <2>2. UsersIn(Requested(history, item)) = UsersIn(history) \union UsersIn(<<item>>)
    BY <1>0, UsersOfRequested
  <2>3. /\ Place(f) = "output" /\ Place(f)' = "prepare" /\ next'[f] = item
        /\ request'[f] = Requested(history, item)
    BY <1>0, <2>1 DEF Place
  <2>4. TurnOK(f)'
    BY <2>1, <2>2, <2>3 DEF TurnOK, Sent
  <2>5. HeldBy(f) = {}
    BY <2>3 DEF HeldBy, Unsent
  <2>6. UsersIn(history)' = UsersIn(history) /\ Queued(queue)' = Queued(queue)
    BY <2>1
  <2> QED
    BY <2>1, <2>4, <2>5, <2>6 DEF KnownBy
<1>23. ASSUME StartCompaction(f) PROVE Goal
  <2>1. at[f] = "measuring" /\ at' = [at EXCEPT ![f] = "compacting"]
        /\ lost' = lost /\ gone' = gone /\ draft' = draft /\ queue' = queue
        /\ typed' = typed /\ history' = history
    BY <1>23 DEF StartCompaction, Go, userVars, ghostVars, Fault
  <2>2. Place(f) = "measuring" /\ Place(f)' = "compacting"
    BY <1>0, <2>1 DEF Place
  <2>3. TurnOK(f)'
    BY <2>2 DEF TurnOK, Sent
  <2>4. HeldBy(f) = {}
    BY <2>2 DEF HeldBy, Unsent
  <2>5. UsersIn(history)' = UsersIn(history) /\ Queued(queue)' = Queued(queue)
    BY <2>1
  <2> QED
    BY <2>1, <2>3, <2>4, <2>5 DEF KnownBy
<1>24. ASSUME MeasureFails(f) PROVE Goal
  <2>1. at[f] = "measuring" /\ at' = [at EXCEPT ![f] = "idle"]
        /\ lost' = lost /\ gone' = gone /\ draft' = draft /\ queue' = queue
        /\ typed' = typed /\ history' = history
    BY <1>24 DEF MeasureFails, Go, userVars, ghostVars, Fault
  <2>2. Place(f) = "measuring" /\ Place(f)' = "idle"
    BY <1>0, <2>1 DEF Place
  <2>3. TurnOK(f)'
    BY <2>2 DEF TurnOK, Sent
  <2>4. HeldBy(f) = {}
    BY <2>2 DEF HeldBy, Unsent
  <2>5. UsersIn(history)' = UsersIn(history) /\ Queued(queue)' = Queued(queue)
    BY <2>1
  <2> QED
    BY <2>1, <2>3, <2>4, <2>5 DEF KnownBy
<1>25. ASSUME Compacted(f) PROVE Goal
  <2>1. at[f] = "compacted" /\ next' = next
        /\ lost' = lost /\ gone' = gone /\ draft' = draft /\ queue' = queue
        /\ typed' = typed /\ history' = history
    BY <1>25 DEF Compacted, userVars, ghostVars
  <2>2. UsersIn(history)' = UsersIn(history) /\ Queued(queue)' = Queued(queue)
    BY <2>1
  <2>3. CASE next[f] = NoItem
    <3>1. Place(f) = "compacted" /\ Place(f)' = "idle"
      BY <1>25, <1>0, <2>3 DEF Compacted, Go, Place
    <3>2. TurnOK(f)'
      BY <3>1 DEF TurnOK, Sent
    <3>3. HeldBy(f) = {}
      BY <2>3, UsersOfOthers DEF HeldBy
    <3> QED
      BY <2>1, <2>2, <3>2, <3>3 DEF KnownBy
  <2>4. CASE next[f] # NoItem
    <3>1. /\ Place(f) = "compacted" /\ Place(f)' = "again"
          /\ request'[f] = Requested(history, next[f])
      BY <1>25, <1>0, <2>4 DEF Compacted, Go, Place
    <3>2. UsersIn(Requested(history, next[f]))
            = UsersIn(history) \union UsersIn(<<next[f]>>)
      BY <1>0, UsersOfRequested
    <3>3. TurnOK(f)'
      BY <2>1, <3>1, <3>2 DEF TurnOK, Sent
    <3>4. HeldBy(f)' = HeldBy(f)
      BY <2>1, <3>1 DEF HeldBy, Unsent
    <3> QED
      BY <2>1, <2>2, <3>3, <3>4 DEF KnownBy
  <2> QED
    BY <2>3, <2>4
<1>26. ASSUME CompactionFails(f) PROVE Goal
  <2>1. at[f] = "compacting" /\ history' = history
    BY <1>26 DEF CompactionFails
  <2>2. CASE next[f] = NoItem
    <3>1. /\ at' = [at EXCEPT ![f] = "idle"]
          /\ lost' = lost /\ gone' = gone /\ draft' = draft /\ queue' = queue
          /\ typed' = typed
      BY <1>26, <2>2 DEF CompactionFails, Go, userVars, ghostVars
    <3>2. Place(f)' = "idle"
      BY <1>0, <3>1 DEF Place
    <3>3. TurnOK(f)'
      BY <3>2 DEF TurnOK, Sent
    <3>4. HeldBy(f) = {}
      BY <2>2, UsersOfOthers DEF HeldBy
    <3>5. UsersIn(history)' = UsersIn(history) /\ Queued(queue)' = Queued(queue)
      BY <2>1, <3>1
    <3> QED
      BY <3>1, <3>3, <3>4, <3>5 DEF KnownBy
  <2>3. CASE next[f] # NoItem
    <3>1. EndLoop(f, "failed") /\ gone' = gone
          /\ lost' = lost \union (UsersIn(<<next[f]>>) \ UsersIn(history))
      BY <1>26, <2>3 DEF CompactionFails, DropUnsent
    <3>2. HeldBy(f) \subseteq lost' \union UsersIn(history) /\ lost \subseteq lost'
      BY <3>1 DEF HeldBy
    <3>3. at[f] # "saving"
      BY <2>1
    <3> QED
      BY <2>1, <3>1, <3>2, <3>3, EndLoopKeeps
  <2> QED
    BY <2>2, <2>3
<1> QED
  BY <1>1, <1>2, <1>3, <1>4, <1>5, <1>6, <1>7, <1>8, <1>9, <1>10, <1>11, <1>12, <1>13, <1>14, <1>15, <1>16, <1>17, <1>18, <1>19, <1>20, <1>21, <1>22, <1>23, <1>24, <1>25, <1>26 DEF Turn

(* What changes neither the messages nor any turn keeps both.               *)
LEMMA QuietKeeps ==
  ASSUME KeepInv, ~raced,
         UNCHANGED <<typed, draft, queue, history, next, request>>,
         lost' = lost, gone' = gone,
         \A f \in Flows : \/ Place(f)' = Place(f)
                          \/ Place(f) = "streaming" /\ Place(f)' = "aborting"
                          \/ /\ Place(f) \in {"idle", "clearing", "rerunning"}
                             /\ Place(f)' \in {"idle", "clearing", "rerunning"}
  PROVE  KeepInv'
<1>1. ASSUME NEW f \in Flows PROVE TurnOK(f)' /\ HeldBy(f)' = HeldBy(f)
  <2>1. TurnOK(f)
    BY DEF KeepInv
  <2>2. TurnOK(f)'
    BY <2>1 DEF TurnOK, Sent
  <2>3. HeldBy(f)' = HeldBy(f)
    BY DEF HeldBy, Unsent
  <2> QED
    BY <2>2, <2>3
<1>2. Held' = Held
  BY <1>1 DEF Held
<1>3. Known' = Known
  BY <1>2 DEF Known
<1> QED
  BY <1>1, <1>3 DEF KeepInv, Messages

LEMMA ClickKeepsMessages ==
  ASSUME NEW f \in Flows, TypeOK, OneInv, KeepInv, Click(f), ~raced'
  PROVE  KeepInv'
<1>1. /\ ~raced /\ ~sending /\ ~\E g \in Flows : at[g] \in Window
      /\ at[f] = "idle"
  BY DEF Click, Submit, ClickCompact, ClickClear, ClickRerun, Race
<1>2. (\A g \in Flows : ~Doing(Place(g))) /\ controller = Nothing
  BY <1>1, NoneDoing
<1>3. /\ Nothing \notin Flows /\ at \in [Flows -> Places]
      /\ next \in [Flows -> Item] /\ Place(f) = "idle"
  BY <1>1, ConversationAssumption DEF TypeOK, Place
<1>4. HeldBy(f) = {}
  BY <1>3 DEF HeldBy, Unsent
<1>5. CASE Submit(f)
  <2>1. /\ at' = [at EXCEPT ![f] = "processing"] /\ after' = after
        /\ next' = [next EXCEPT ![f] = User(draft)] /\ draft \in Messages
        /\ UNCHANGED <<draft, queue, typed, history, lost, gone>>
    BY <1>5 DEF Submit, Go, userVars, TypeOK
  <2>2. Place(f)' = "processing" /\ next'[f] = User(draft)
    BY <1>3, <2>1 DEF Place
  <2>3. TurnOK(f)'
    BY <2>1, <2>2 DEF TurnOK, Sent
  <2>4. \A g \in Flows \ {f} : ~Doing(Place(g)) /\ Place(g)' = Place(g)
    BY <1>2, <1>3, <2>1 DEF Place
  <2>5. UsersIn(history)' = UsersIn(history) /\ Queued(queue)' = Queued(queue)
    BY <2>1
  <2>6. Messages \intersect KnownBy(f) \subseteq KnownBy(f)'
    BY <1>4, <2>1, <2>5 DEF KnownBy
  <2> QED
    BY <1>1, <2>1, <2>3, <2>4, <2>6, KeepStep
<1>6. CASE ClickCompact(f)
  <2>1. /\ at' = [at EXCEPT ![f] = "measuring"] /\ after' = after
        /\ UNCHANGED <<draft, queue, typed, history, lost, gone>>
    BY <1>6 DEF ClickCompact, Go, userVars
  <2>2. Place(f)' = "measuring"
    BY <1>3, <2>1 DEF Place
  <2>3. TurnOK(f)'
    BY <2>1, <2>2 DEF TurnOK, Sent
  <2>4. \A g \in Flows \ {f} : ~Doing(Place(g)) /\ Place(g)' = Place(g)
    BY <1>2, <1>3, <2>1 DEF Place
  <2>5. UsersIn(history)' = UsersIn(history) /\ Queued(queue)' = Queued(queue)
    BY <2>1
  <2>6. Messages \intersect KnownBy(f) \subseteq KnownBy(f)'
    BY <1>4, <2>1, <2>5 DEF KnownBy
  <2> QED
    BY <1>1, <2>1, <2>3, <2>4, <2>6, KeepStep
<1>7. CASE ClickClear(f)
  <2>1. /\ after' = after /\ typed' = typed /\ lost' = lost
        /\ at' = [g \in Flows |-> IF g = f THEN "clearing" ELSE at[g]]
        /\ gone' = gone \union (Messages \intersect {draft}) \union UsersIn(history)
                        \union Queued(queue)
    BY <1>2, <1>3, <1>7 DEF ClickClear, Queued
  <2>2. Place(f)' = "clearing"
    BY <1>3, <2>1 DEF Place
  <2>3. TurnOK(f)'
    BY <2>2 DEF TurnOK, Sent
  <2>4. \A g \in Flows \ {f} : ~Doing(Place(g)) /\ Place(g)' = Place(g)
    BY <1>2, <1>3, <2>1 DEF Place
  <2>5. Messages \intersect KnownBy(f) \subseteq KnownBy(f)'
    BY <1>4, <2>1 DEF KnownBy
  <2> QED
    BY <1>1, <2>1, <2>3, <2>4, <2>5, KeepStep
<1>8. CASE ClickRerun(f)
  <2>1. /\ at' = [at EXCEPT ![f] = "rerunning"] /\ after' = after
        /\ UNCHANGED <<typed, draft, queue, history, next, request>>
        /\ lost' = lost /\ gone' = gone
    BY <1>8 DEF ClickRerun, Go, userVars
  <2>2. Place(f)' = "rerunning" /\ \A g \in Flows \ {f} : Place(g)' = Place(g)
    BY <1>3, <2>1 DEF Place
  <2> QED
    BY <1>1, <1>3, <2>1, <2>2, QuietKeeps
<1> QED
  BY <1>5, <1>6, <1>7, <1>8 DEF Click

LEMMA UserKeepsMessages ==
  ASSUME TypeOK, KeepInv, ~raced,
         (\E m \in Messages : Type(m)) \/ QueueDraft
  PROVE  KeepInv'
<1>1. \A f \in Flows : (TurnOK(f) => TurnOK(f)') /\ HeldBy(f)' = HeldBy(f)
  BY DEF Type, QueueDraft, flowVars, TurnOK, HeldBy, Place
<1>2. /\ Held' = Held /\ UsersIn(history)' = UsersIn(history)
      /\ lost' = lost /\ gone' = gone
  BY <1>1 DEF Held, Type, QueueDraft, ghostVars
<1>3. 1..typed' \subseteq Messages \intersect Known'
  <2>1. CASE \E m \in Messages : Type(m)
    <3>1. PICK m \in Messages : Type(m)
      BY <2>1
    <3>2. /\ draft = Nothing /\ m = typed + 1 /\ draft' = m /\ typed' = m
          /\ Queued(queue)' = Queued(queue) /\ typed \in Nat
      BY <3>1 DEF Type, TypeOK
    <3>3. 1..typed' = 1..typed \union {m}
      BY <3>2
    <3>4. Nothing \notin 1..typed
      BY ConversationAssumption, <3>2
    <3>5. m \in Messages \intersect Known'
      BY <3>2 DEF Known
    <3>6. (1..typed) \subseteq Messages \intersect Known'
      BY <1>2, <3>2, <3>4 DEF Known, KeepInv
    <3> QED
      BY <3>3, <3>5, <3>6
  <2>2. CASE QueueDraft
    <3>1. queue' = Append(queue, draft) /\ typed' = typed /\ queue \in Seq(Messages)
      BY <2>2 DEF QueueDraft, TypeOK
    <3>2. Queued(queue) \union {draft} \subseteq Queued(queue')
      BY <3>1, QueuedOfAppend
    <3>3. Queued(queue)' = Queued(queue')
      OBVIOUS
    <3>4. Known \subseteq Known'
      BY <1>2, <3>2, <3>3 DEF Known
    <3> QED
      BY <3>1, <3>4 DEF KeepInv
  <2> QED
    BY <2>1, <2>2
<1> QED
  BY <1>1, <1>3 DEF KeepInv, Messages

LEMMA KeptKept == TypeOK /\ OneInv /\ KeepInv /\ [Next]_vars => KeepInv'
<1> SUFFICES ASSUME TypeOK, OneInv, KeepInv, [Next]_vars, ~raced' PROVE KeepInv'
  BY DEF KeepInv
<1>1. ASSUME NEW f \in Flows, Turn(f) PROVE KeepInv'
  <2>1. raced' = raced
    BY <1>1 DEF Turn, Begin, PrepareFails, NeedsCompaction, GiveUpTurn, DropUnsent,
       SendRequest, StartStream, StreamDone, StreamAborted, StreamFails,
       CutShort, Stopped, Threw, EndAnswered, RetryEmpty, Retry, GiveUpEmpty,
       Execute, Complete, ExecuteThrows, ExecuteDone, EndAfterOutput,
       SendOutput, StartCompaction, MeasureFails, CompactionDone, Compacted,
       CompactionFails, Clear, RerunEnds, ghostVars
  <2>2. CASE Clear(f)
    <3>1. /\ Persist(f, history, "idle") /\ "idle" \in Places \ {"saving"}
          /\ at[f] = "clearing"
      BY <2>2 DEF Clear, Places
    <3>2. at' = [at EXCEPT ![f] = "saving"] /\ after' = [after EXCEPT ![f] = "idle"]
          /\ Place(f)' = "idle"
      BY <3>1, PersistAlone
    <3>3. Place(f) = "clearing" /\ \A g \in Flows \ {f} : Place(g)' = Place(g)
      BY <3>1, <3>2 DEF Place, TypeOK
    <3>4. /\ UNCHANGED <<typed, draft, queue, history, next, request>>
          /\ lost' = lost /\ gone' = gone
      BY <2>2 DEF Clear, userVars, ghostVars
    <3> QED
      BY <2>1, <3>2, <3>3, <3>4, QuietKeeps
  <2>3. CASE RerunEnds(f)
    <3>1. /\ at' = [at EXCEPT ![f] = "idle"] /\ after' = after /\ at[f] = "rerunning"
          /\ UNCHANGED <<typed, draft, queue, history, next, request>>
          /\ lost' = lost /\ gone' = gone
      BY <2>3 DEF RerunEnds, Go, userVars, ghostVars
    <3>2. Place(f) = "rerunning" /\ Place(f)' = "idle"
          /\ \A g \in Flows \ {f} : Place(g)' = Place(g)
      BY <3>1 DEF Place, TypeOK
    <3> QED
      BY <2>1, <3>1, <3>2, QuietKeeps
  <2> QED
    BY <1>1, <2>1, <2>2, <2>3, TurnKeepsMessages
<1>2. ASSUME NEW f \in Flows, Click(f) PROVE KeepInv'
  BY <1>2, ClickKeepsMessages
<1>3. CASE Save \/ RequestStop \/ UNCHANGED vars
  <2>1. /\ UNCHANGED <<typed, draft, queue, history, next, request>>
        /\ lost' = lost /\ gone' = gone /\ raced' = raced /\ after' = after
    BY <1>3 DEF Save, SaveDone, SaveFails, RequestStop, vars, userVars, ghostVars,
       flowVars
  <2>2. ASSUME NEW f \in Flows
        PROVE  \/ Place(f)' = Place(f)
               \/ Place(f) = "streaming" /\ Place(f)' = "aborting"
    BY <1>3, <2>1 DEF Save, SaveDone, SaveFails, RequestStop, vars, flowVars,
       Released, Place, TypeOK
  <2> QED
    BY <2>1, <2>2, QuietKeeps
<1>4. CASE (\E m \in Messages : Type(m)) \/ QueueDraft
  <2>1. raced' = raced
    BY <1>4 DEF Type, QueueDraft, ghostVars
  <2> QED
    BY <1>4, <2>1, UserKeepsMessages
<1> QED
  BY <1>1, <1>2, <1>3, <1>4 DEF Next

LEMMA InitKept == Init => KeepInv
BY DEF Init, KeepInv, TurnOK, Place, Sent, Messages

(* Whatever the user typed stays somewhere: in the composer, the queue, a   *)
(* turn or the history, unless it was cleared, summarised, or given up      *)
(* before its request.                                                      *)
THEOREM NoMessageVanishes == Spec => []MessagesKept
<1>1. KeepInv => MessagesKept
  <2>1. \A f \in Flows : HeldBy(f) \subseteq Carried
    BY DEF HeldBy, Unsent, Carried, Place, UsersIn
  <2>2. Held \subseteq Carried
    BY <2>1 DEF Held
  <2> QED
    BY <2>2 DEF KeepInv, Known, MessagesKept, Queued
<1> QED
  BY InitTypes, TypesKept, InitOne, OneKept, InitKept, KeptKept, <1>1, PTL DEF Spec
-----------------------------------------------------------------------------
(* The file.  What is on its way, or stored, is the history of now, or a    *)
(* flow changed it and will save it.                                        *)
Latest == IF pending # Nothing THEN pending
          ELSE IF saving # Nothing THEN saving ELSE stored

Dirty == {"starting", "streaming", "aborting", "clearing"}

Awaited == \E f \in Flows : at[f] = "saving"

StoreInv ==
  ~raced =>
    /\ pending # Nothing => saving # Nothing /\ Awaited
    /\ ~unsaved /\ saving # Nothing => Awaited
    /\ ~unsaved \/ saving # Nothing =>
         Latest = history \/ \E f \in Flows : at[f] \in Dirty

LEMMA PersistStores ==
  ASSUME NEW f \in Flows, NEW place, TypeOK, StoreInv, ~raced, raced' = raced,
         history' \in Seq(Item), Persist(f, history', place)
  PROVE  StoreInv'
<1>1. Awaited'
  BY DEF Persist, Go, Awaited, TypeOK
<1>2. history' # Nothing
  BY NothingAssumption
<1>3. saving' # Nothing /\ Latest' = history'
  BY <1>2 DEF Persist, Latest, StoreInv
<1> QED
  BY <1>1, <1>3 DEF StoreInv

(* A step of f that leaves the history and the saves alone.                 *)
LEMMA UnsavedStep ==
  ASSUME NEW f \in Flows, TypeOK, StoreInv, ~raced,
         UNCHANGED <<history, pending, saving, stored, unsaved>>,
         \A g \in Flows \ {f} : at'[g] = at[g],
         at[f] \notin Dirty \/ at'[f] \in Dirty, at[f] # "saving"
  PROVE  StoreInv'
<1>1. Awaited => Awaited'
  BY DEF Awaited
<1>2. (\E g \in Flows : at[g] \in Dirty) => \E g \in Flows : at'[g] \in Dirty
  OBVIOUS
<1>3. Latest' = Latest
  BY DEF Latest
<1> QED
  BY <1>1, <1>2, <1>3 DEF StoreInv

LEMMA TurnStores ==
  ASSUME NEW f \in Flows, TypeOK, StoreInv, Turn(f), ~raced, raced' = raced, TypeOK'
  PROVE  StoreInv'
<1>0. history' \in Seq(Item) /\ at \in [Flows -> Places]
      /\ \A g \in Flows \ {f} : at'[g] = at[g]
  BY OnlyOne DEF TypeOK
<1>1. CASE \/ \E kind \in {"text", "code", "empty"} : StreamDone(f, kind)
           \/ StreamAborted(f) \/ StreamFails(f) \/ RetryEmpty(f)
           \/ GiveUpEmpty(f) \/ ExecuteDone(f) \/ CompactionDone(f) \/ Clear(f)
  <2>1. PICK place : Persist(f, history', place)
    <3>1. CASE \E kind \in {"text", "code", "empty"} : StreamDone(f, kind)
      BY <3>1 DEF StreamDone
    <3>2. CASE StreamAborted(f)
      BY <3>2 DEF StreamAborted, CutShort
    <3>3. CASE StreamFails(f)
      BY <3>3 DEF StreamFails, CutShort
    <3>4. CASE RetryEmpty(f)
      BY <3>4 DEF RetryEmpty
    <3>5. CASE GiveUpEmpty(f)
      <4>1. history' = history /\ Persist(f, history, "complete")
        BY <3>5 DEF GiveUpEmpty
      <4> QED
        BY <4>1
    <3>6. CASE ExecuteDone(f)
      BY <3>6 DEF ExecuteDone
    <3>7. CASE CompactionDone(f)
      BY <3>7 DEF CompactionDone
    <3>8. CASE Clear(f)
      <4>1. history' = history /\ Persist(f, history, "idle")
        BY <3>8 DEF Clear
      <4> QED
        BY <4>1
    <3> QED
      BY <1>1, <3>1, <3>2, <3>3, <3>4, <3>5, <3>6, <3>7, <3>8
  <2> QED
    BY <1>0, <2>1, PersistStores
<1>2. CASE SendRequest(f)
  <2>1. at'[f] = "starting" /\ at[f] # "saving"
        /\ UNCHANGED <<pending, saving, stored, unsaved>>
    BY <1>0, <1>2 DEF SendRequest, Go, saveVars
  <2>2. Awaited => Awaited'
    BY <1>0, <2>1 DEF Awaited
  <2>3. \E g \in Flows : at'[g] \in Dirty
    BY <2>1 DEF Dirty
  <2> QED
    BY <2>1, <2>2, <2>3 DEF StoreInv
<1>3. CASE StartStream(f)
  <2>1. at[f] = "starting" /\ at'[f] = "streaming"
        /\ UNCHANGED <<history, pending, saving, stored, unsaved>>
    BY <1>0, <1>3 DEF StartStream, Go, saveVars
  <2>2. at'[f] \in Dirty /\ at[f] # "saving"
    BY <2>1 DEF Dirty
  <2> QED
    BY <1>0, <2>1, <2>2, UnsavedStep
<1>4. CASE ~(\/ \E kind \in {"text", "code", "empty"} : StreamDone(f, kind)
             \/ StreamAborted(f) \/ StreamFails(f) \/ RetryEmpty(f)
             \/ GiveUpEmpty(f) \/ ExecuteDone(f) \/ CompactionDone(f) \/ Clear(f)
             \/ SendRequest(f) \/ StartStream(f))
  <2>1. /\ UNCHANGED <<history, pending, saving, stored, unsaved>>
        /\ at[f] \in {"processing", "prepare", "again", "stopped", "threw",
                      "answered", "retry", "complete", "executing", "output",
                      "measuring", "compacting", "compacted", "rerunning"}
    <3>1. CASE \/ Begin(f) \/ PrepareFails(f) \/ NeedsCompaction(f)
               \/ GiveUpTurn(f) \/ Stopped(f) \/ Threw(f) \/ EndAnswered(f)
               \/ Retry(f) \/ Execute(f)
      BY <3>1 DEF Begin, PrepareFails, NeedsCompaction, GiveUpTurn, Stopped,
         Threw, EndAnswered, Retry, Execute, saveVars
    <3>2. CASE \/ Complete(f) \/ ExecuteThrows(f) \/ EndAfterOutput(f)
               \/ SendOutput(f) \/ StartCompaction(f) \/ MeasureFails(f)
               \/ Compacted(f) \/ CompactionFails(f) \/ RerunEnds(f)
      BY <3>2 DEF Complete, ExecuteThrows, EndAfterOutput, SendOutput,
         StartCompaction, MeasureFails, Compacted, CompactionFails, RerunEnds,
         saveVars
    <3> QED
      BY <1>4, <3>1, <3>2 DEF Turn
  <2>2. at[f] \notin Dirty /\ at[f] # "saving"
    BY <2>1 DEF Dirty
  <2> QED
    BY <1>0, <2>1, <2>2, UnsavedStep
<1> QED
  BY <1>1, <1>2, <1>3, <1>4

LEMMA ClickStores ==
  ASSUME NEW f \in Flows, TypeOK, OneInv, StoreInv, Click(f), ~raced'
  PROVE  StoreInv'
<1>1. /\ ~raced /\ ~sending /\ ~\E g \in Flows : at[g] \in Window
      /\ at[f] = "idle"
  BY DEF Click, Submit, ClickCompact, ClickClear, ClickRerun, Race
<1>2. controller = Nothing /\ Nothing \notin Flows
  BY <1>1, NoneDoing, ConversationAssumption
<1>3. CASE Submit(f) \/ ClickCompact(f) \/ ClickRerun(f)
  <2>1. /\ UNCHANGED <<history, pending, saving, stored, unsaved>>
        /\ \A g \in Flows \ {f} : at'[g] = at[g]
    BY <1>3 DEF Submit, ClickCompact, ClickRerun, Go, saveVars, TypeOK
  <2>2. at[f] \notin Dirty /\ at[f] # "saving"
    BY <1>1 DEF Dirty
  <2> QED
    BY <1>1, <2>1, <2>2, UnsavedStep
<1>4. CASE ClickClear(f)
  <2>1. /\ at' = [g \in Flows |-> IF g = f THEN "clearing" ELSE at[g]]
        /\ UNCHANGED <<pending, saving, stored, unsaved>>
    BY <1>2, <1>4 DEF ClickClear, saveVars
  <2>2. Awaited => Awaited'
    BY <1>1, <2>1 DEF Awaited
  <2>3. \E g \in Flows : at'[g] \in Dirty
    BY <2>1 DEF Dirty
  <2> QED
    BY <1>1, <2>1, <2>2, <2>3 DEF StoreInv
<1> QED
  BY <1>3, <1>4 DEF Click

LEMMA SaveStores ==
  ASSUME TypeOK, StoreInv, Save, ~raced
  PROVE  StoreInv'
<1>1. /\ saving # Nothing /\ history' = history
      /\ saving' = pending /\ pending' = Nothing
  BY DEF Save, SaveDone, SaveFails, TakePending
<1>2. \A f \in Flows : at[f] \in Dirty => Released[f] \in Dirty
  BY DEF Released, Place, Dirty
<1>3. (\E f \in Flows : at[f] \in Dirty) => \E f \in Flows : at'[f] \in Dirty
  BY <1>2 DEF Save, SaveDone, SaveFails
<1>4. CASE pending = Nothing
  <2>1. pending' = Nothing /\ saving' = Nothing
    BY <1>1, <1>4
  <2>2. CASE SaveDone
    <3>1. stored' = saving
      BY <2>2 DEF SaveDone
    <3>2. Latest' = Latest
      BY <1>1, <1>4, <2>1, <3>1 DEF Latest
    <3> QED
      BY <1>1, <1>3, <2>1, <3>2 DEF StoreInv
  <2>3. CASE SaveFails
    BY <2>1, <2>3 DEF SaveFails, StoreInv
  <2> QED
    BY <2>2, <2>3 DEF Save
<1>5. CASE pending # Nothing
  <2>1. Latest' = Latest
    BY <1>1, <1>5 DEF Latest
  <2>2. Awaited
    BY <1>5 DEF StoreInv
  <2>3. CASE SaveDone
    <3>1. at' = at
      BY <1>5, <2>3 DEF SaveDone
    <3> QED
      BY <1>1, <1>3, <2>1, <2>2, <3>1 DEF StoreInv, Awaited
  <2>4. CASE SaveFails
    <3>1. unsaved' = TRUE
      BY <2>4 DEF SaveFails
    <3> QED
      BY <1>1, <1>3, <2>1, <3>1 DEF StoreInv
  <2> QED
    BY <2>3, <2>4 DEF Save
<1> QED
  BY <1>4, <1>5

LEMMA RacedOfTurn == ASSUME NEW f \in Flows, Turn(f) PROVE raced' = raced
BY DEF Turn, Begin, PrepareFails, NeedsCompaction, GiveUpTurn, DropUnsent,
   SendRequest, StartStream, StreamDone, StreamAborted, StreamFails,
   CutShort, Stopped, Threw, EndAnswered, RetryEmpty, Retry, GiveUpEmpty,
   Execute, Complete, ExecuteThrows, ExecuteDone, EndAfterOutput,
   SendOutput, StartCompaction, MeasureFails, CompactionDone, Compacted,
   CompactionFails, Clear, RerunEnds, ghostVars

LEMMA StoreKept == TypeOK /\ OneInv /\ StoreInv /\ [Next]_vars => StoreInv'
<1> SUFFICES ASSUME TypeOK, OneInv, StoreInv, [Next]_vars, ~raced' PROVE StoreInv'
  BY DEF StoreInv
<1>1. ASSUME NEW f \in Flows, Turn(f) PROVE StoreInv'
  BY <1>1, RacedOfTurn, TurnStores, TypesKept
<1>2. ASSUME NEW f \in Flows, Click(f) PROVE StoreInv'
  BY <1>2, ClickStores
<1>3. CASE Save
  <2>1. raced' = raced
    BY <1>3 DEF Save, SaveDone, SaveFails, ghostVars
  <2> QED
    BY <1>3, <2>1, SaveStores
<1>4. CASE (\E m \in Messages : Type(m)) \/ QueueDraft \/ RequestStop \/ UNCHANGED vars
  <2>1. /\ UNCHANGED <<history, pending, saving, stored, unsaved, raced>>
        /\ \A f \in Flows : \/ at'[f] = at[f]
                            \/ at[f] = "streaming" /\ at'[f] = "aborting"
    <3>1. CASE RequestStop
      BY <3>1 DEF RequestStop, saveVars, ghostVars, TypeOK
    <3>2. CASE (\E m \in Messages : Type(m)) \/ QueueDraft \/ UNCHANGED vars
      BY <3>2 DEF Type, QueueDraft, vars, saveVars, flowVars, ghostVars
    <3> QED
      BY <1>4, <3>1, <3>2
  <2>2. Awaited => Awaited'
    BY <2>1 DEF Awaited
  <2>3. \A f \in Flows : at[f] \in Dirty => at'[f] \in Dirty
    BY <2>1 DEF Dirty
  <2>4. Latest' = Latest
    BY <2>1 DEF Latest
  <2> QED
    BY <2>1, <2>2, <2>3, <2>4 DEF StoreInv
<1> QED
  BY <1>1, <1>2, <1>3, <1>4 DEF Next

LEMMA InitStore == Init => StoreInv
BY DEF Init, StoreInv, Latest

(* Coalescing saves loses none: when all is quiet the file holds the        *)
(* history, unless its last save failed.                                    *)
THEOREM FileFollowsHistory == Spec => []StoredWhenQuiet
<1>1. StoreInv => StoredWhenQuiet
  BY DEF StoreInv, StoredWhenQuiet, Awaited, Latest, Dirty
<1> QED
  BY InitTypes, TypesKept, InitOne, OneKept, InitStore, StoreKept, <1>1, PTL
     DEF Spec
-----------------------------------------------------------------------------
(* The end of the history, and each message in it once.                     *)
LastIs(h, item) == h # << >> /\ h[Len(h)] = item
NotCode(h) == h # << >> => h[Len(h)] # It("code")

Once(h) == \A i, j \in DOMAIN h :
             h[i] = h[j] /\ h[i] \in {User(m) : m \in Messages} => i = j

(* A message is in one place: history, queue or composer.                   *)
ApartOK(h, q, d, t) ==
  /\ Once(h)
  /\ \A i, j \in DOMAIN q : q[i] = q[j] => i = j
  /\ UsersIn(h) \intersect Queued(q) = {}
  /\ d \notin UsersIn(h) \union Queued(q)
  /\ UsersIn(h) \union Queued(q) \subseteq 1..t
  /\ d # Nothing => d \in 1..t

Asking == {"starting", "streaming", "aborting"}

(* The message item of a flow that has not sent it is not queued, nor       *)
(* composed again.                                                          *)
OwnOK(f, item) ==
  /\ UsersIn(<<item>>) \intersect Queued(queue) = {}
  /\ UsersIn(<<item>>) \subseteq 1..typed
  /\ Place(f) # "processing" => draft \notin UsersIn(<<item>>)

(* What a turn knows of the history h and its request r.                    *)
EndsOK(f, h, r, item) ==
  /\ item # It("code")
  /\ Place(f) \in {"prepare", "again"} \union Asking \union {"answered"}
       => LastIs(r, item) /\ Once(r)
  /\ Place(f) \in {"prepare", "again"}
       => UsersIn(r) \subseteq UsersIn(h) \union UsersIn(<<item>>)
  /\ Place(f) \in Asking \union {"answered"} => UsersIn(r) \subseteq UsersIn(h)
  /\ Place(f) \in Asking => LastIs(h, Open(f))
  /\ Place(f) \in {"answered", "executing"} => LastIs(h, It(reply[f]))
  /\ Place(f) \in {"stopped", "complete", "output"} => NotCode(h)
  /\ Place(f) = "retry" => LastIs(h, item)
  /\ Place(f) = "processing" => UsersIn(<<item>>) \intersect UsersIn(h) = {}
  /\ Place(f) = "compacted" => UsersIn(h) = {}

HistOK(f) ==
  /\ EndsOK(f, history, request[f], next[f])
  /\ Place(f) \in Unsent => OwnOK(f, next[f])

HistInv ==
  ~raced => /\ ApartOK(history, queue, draft, typed)
            /\ \A f \in Flows : HistOK(f)

LEMMA ItInjective ==
  /\ \A k, l : It(k) = It(l) => k = l
  /\ \A m \in Messages, k \in Kinds : User(m) # It(k)
  /\ \A f \in Flows, k \in Kinds : Open(f) # It(k)
  /\ \A f \in Flows, m \in Messages : Open(f) # User(m)
BY DEF It, User, Open, Kinds

LEMMA OnceAppended ==
  ASSUME NEW h \in Seq(Item), Once(h), NEW item,
         UsersIn(<<item>>) \intersect UsersIn(h) = {}
  PROVE  Once(Append(h, item))
<1> SUFFICES ASSUME NEW i \in DOMAIN Append(h, item), NEW j \in DOMAIN Append(h, item),
                    NEW m \in Messages, Append(h, item)[i] = User(m),
                    Append(h, item)[j] = User(m)
             PROVE  i = j
  BY DEF Once
<1>1. item = User(m) => \A k \in DOMAIN h : h[k] # User(m)
  BY UsersOfOne DEF UsersIn
<1>2. \A k \in DOMAIN Append(h, item) :
        \/ k \in DOMAIN h /\ Append(h, item)[k] = h[k]
        \/ k = Len(h) + 1 /\ Append(h, item)[k] = item
  OBVIOUS
<1> QED
  BY <1>1, <1>2 DEF Once

LEMMA OnceRequested ==
  ASSUME NEW h \in Seq(Item), Once(h), NEW item,
         UsersIn(<<item>>) \intersect UsersIn(h) = {} \/ LastIs(h, item)
  PROVE  Once(Requested(h, item))
BY OnceAppended DEF Requested, LastIs

LEMMA LastRequested ==
  ASSUME NEW h \in Seq(Item), NEW item
  PROVE  LastIs(Requested(h, item), item)
<1>1. Append(h, item) # << >> /\ Append(h, item)[Len(Append(h, item))] = item
  OBVIOUS
<1> QED
  BY <1>1 DEF Requested, LastIs

LEMMA OnceSettled ==
  ASSUME NEW h \in Seq(Item), NEW f \in Flows, NEW kind \in Kinds, Once(h)
  PROVE  Once(Settled(h, f, kind))
<1>1. DOMAIN Settled(h, f, kind) = DOMAIN h
  BY DEF Settled
<1>2. ASSUME NEW m \in Messages, NEW i \in DOMAIN h
      PROVE  Settled(h, f, kind)[i] = User(m) <=> h[i] = User(m)
  BY ItInjective DEF Settled
<1> QED
  BY <1>1, <1>2 DEF Once

LEMMA LastSettled ==
  ASSUME NEW h \in Seq(Item), NEW f \in Flows, NEW kind, LastIs(h, Open(f))
  PROVE  LastIs(Settled(h, f, kind), It(kind))
<1>1. Len(h) \in DOMAIN h /\ DOMAIN h = 1..Len(h) /\ Len(h) \in Nat
  BY DEF LastIs
<1>2. Settled(h, f, kind)[Len(h)] = It(kind)
  BY <1>1 DEF LastIs, Settled
<1>3. Len(Settled(h, f, kind)) = Len(h)
  BY <1>1 DEF Settled
<1> QED
  BY <1>1, <1>2, <1>3 DEF LastIs, Settled

LEMMA HistStep ==
  ASSUME NEW f \in Flows, TypeOK, HistInv, ~raced,
         \A g \in Flows \ {f} : /\ ~Doing(Place(g)) /\ Place(g)' = Place(g)
                                /\ next'[g] = next[g],
         ApartOK(history, queue, draft, typed)', HistOK(f)'
  PROVE  HistInv'
<1>1. ASSUME NEW g \in Flows \ {f} PROVE HistOK(g)'
  <2>1. next[g] # It("code") /\ next'[g] = next[g]
    BY DEF HistInv, HistOK, EndsOK
  <2>2. Place(g)' \in {"idle", "clearing"}
    BY DEF Doing
  <2> QED
    BY <2>1, <2>2 DEF HistOK, EndsOK, Unsent, Asking
<1> QED
  BY <1>1 DEF HistInv

(* A turn begins with item over a history that has it last or not at all.   *)
LEMMA TurnBegins ==
  ASSUME NEW f \in Flows, TypeOK, NEW item \in Item, item # It("code"),
         history' = history,
         Once(history),
         Place(f)' = "prepare", next'[f] = item,
         request'[f] = Requested(history, item),
         UsersIn(<<item>>) \intersect UsersIn(history) = {} \/ LastIs(history, item),
         UsersIn(<<item>>) \intersect Queued(queue') = {},
         UsersIn(<<item>>) \subseteq 1..typed', draft' \notin UsersIn(<<item>>)
  PROVE  HistOK(f)'
<1>1. history \in Seq(Item)
  BY DEF TypeOK
<1>2. /\ LastIs(Requested(history, item), item) /\ Once(Requested(history, item))
      /\ UsersIn(Requested(history, item)) = UsersIn(history) \union UsersIn(<<item>>)
  BY <1>1, LastRequested, OnceRequested, UsersOfRequested
<1>3. EndsOK(f, history, request[f], next[f])'
  BY <1>2 DEF EndsOK, Asking
<1>4. OwnOK(f, next[f])'
  BY DEF OwnOK
<1> QED
  BY <1>3, <1>4 DEF HistOK

LEMMA EndLoopHist ==
  ASSUME NEW f \in Flows, NEW outcome, TypeOK, EndLoop(f, outcome), at[f] # "saving",
         history' = history, ApartOK(history, queue, draft, typed)
  PROVE  ApartOK(history, queue, draft, typed)' /\ HistOK(f)'
<1>0. typed' = typed /\ draft' = draft
  BY DEF EndLoop
<1>1. CASE Consume(f)
  <2>1. /\ queue # << >> /\ queue' = Tail(queue) /\ Head(queue) \in Messages
        /\ queue \in Seq(Messages)
    BY <1>1 DEF Consume, TypeOK
  <2>2. /\ at' = [at EXCEPT ![f] = "prepare"]
        /\ next' = [next EXCEPT ![f] = User(Head(queue))]
        /\ request' = [request EXCEPT ![f] = Requested(history, User(Head(queue)))]
    BY <1>1 DEF Consume, BeginTurn, Go
  <2>3. /\ Place(f)' = "prepare" /\ next'[f] = User(Head(queue))
        /\ request'[f] = Requested(history, User(Head(queue)))
    BY <2>2 DEF Place, TypeOK
  <2>4. UsersIn(<<User(Head(queue))>>) = {Head(queue)}
    BY <2>1, UsersOfUser
  <2>5. /\ \A i \in DOMAIN Tail(queue) : i + 1 \in DOMAIN queue
                                        /\ Tail(queue)[i] = queue[i + 1]
        /\ 1 \in DOMAIN queue /\ Head(queue) = queue[1]
        /\ DOMAIN Tail(queue) \subseteq Nat \ {0}
    BY <2>1
  <2>6. /\ \A i, j \in DOMAIN Tail(queue) : Tail(queue)[i] = Tail(queue)[j] => i = j
        /\ Head(queue) \notin Queued(Tail(queue))
    <3>1. \A i, j \in DOMAIN queue : queue[i] = queue[j] => i = j
      BY DEF ApartOK
    <3>2. ASSUME NEW i \in DOMAIN Tail(queue), NEW j \in DOMAIN Tail(queue),
                 Tail(queue)[i] = Tail(queue)[j]
          PROVE  i = j
      <4>1. i + 1 = j + 1
        BY <2>5, <3>1, <3>2
      <4>2. i \in Nat /\ j \in Nat
        BY <2>5
      <4> QED
        BY <4>1, <4>2
    <3>3. ASSUME NEW i \in DOMAIN Tail(queue) PROVE Tail(queue)[i] # Head(queue)
      <4>1. i + 1 # 1 /\ i + 1 \in DOMAIN queue
        BY <2>5
      <4> QED
        BY <2>5, <3>1, <4>1
    <3> QED
      BY <3>2, <3>3 DEF Queued
  <2>7. Head(queue) \in Queued(queue) /\ Queued(Tail(queue)) \subseteq Queued(queue)
    BY <2>5 DEF Queued
  <2>8. ApartOK(history, queue, draft, typed)'
    BY <1>0, <2>1, <2>6, <2>7 DEF ApartOK
  <2>9. /\ User(Head(queue)) \in Item /\ User(Head(queue)) # It("code")
    BY <2>1, ItemTypes, ItInjective DEF Kinds
  <2>10. /\ UsersIn(<<User(Head(queue))>>) \intersect UsersIn(history) = {}
         /\ UsersIn(<<User(Head(queue))>>) \intersect Queued(queue') = {}
         /\ UsersIn(<<User(Head(queue))>>) \subseteq 1..typed'
         /\ draft' \notin UsersIn(<<User(Head(queue))>>)
         /\ Once(history)
    BY <1>0, <2>1, <2>4, <2>6, <2>7 DEF ApartOK
  <2>11. HistOK(f)'
    BY <2>3, <2>9, <2>10, TurnBegins
  <2> QED
    BY <2>8, <2>11
<1>2. CASE Finish(f)
  <2>1. /\ queue' = queue /\ at' = [at EXCEPT ![f] = "idle"]
        /\ next' = [next EXCEPT ![f] = NoItem]
    BY <1>2 DEF Finish, Return, Go
  <2>2. Place(f)' = "idle" /\ next'[f] = NoItem
    BY <2>1 DEF Place, TypeOK
  <2>3. NoItem # It("code")
    BY ItInjective DEF NoItem
  <2>4. HistOK(f)'
    BY <2>2, <2>3 DEF HistOK, EndsOK, Unsent, Asking
  <2> QED
    BY <1>0, <2>1, <2>4 DEF ApartOK
<1> QED
  BY <1>1, <1>2 DEF EndLoop

LEMMA LastAppended ==
  ASSUME NEW h \in Seq(Item), NEW item
  PROVE  LastIs(Append(h, item), item)
<1>1. Append(h, item) # << >> /\ Append(h, item)[Len(Append(h, item))] = item
  OBVIOUS
<1> QED
  BY <1>1 DEF LastIs

LEMMA NextFrame ==
  ASSUME NEW f \in Flows, TypeOK, Turn(f)
  PROVE  \A g \in Flows \ {f} : next'[g] = next[g]
BY DEF TypeOK, Turn, Begin, PrepareFails, NeedsCompaction, GiveUpTurn,
   SendRequest, StartStream, StreamDone, StreamAborted, StreamFails,
   CutShort, Stopped, Threw, EndAnswered, RetryEmpty, Retry, GiveUpEmpty,
   Execute, Complete, ExecuteThrows, ExecuteDone, EndAfterOutput,
   SendOutput, StartCompaction, MeasureFails, CompactionDone, Compacted,
   CompactionFails, Clear, RerunEnds, EndLoop, Consume, Finish, Return, BeginTurn

LEMMA TurnKeepsApart ==
  ASSUME NEW f \in Flows, TypeOK, OneInv, KeepInv, HistInv, ~raced, Turn(f),
         ~Clear(f), ~RerunEnds(f)
  PROVE  HistInv'
<1>0. /\ next[f] \in Item /\ request[f] \in Seq(Item) /\ history \in Seq(Item)
      /\ at[f] \in Places /\ after[f] \in Places \ {"saving"}
      /\ at \in [Flows -> Places] /\ after \in [Flows -> Places \ {"saving"}]
      /\ next \in [Flows -> Item] /\ request \in [Flows -> Seq(Item)]
      /\ reply \in [Flows -> Kinds]
      /\ TurnOK(f) /\ FlowOK(f) /\ HistOK(f)
      /\ ApartOK(history, queue, draft, typed)
  BY NextOfTurn DEF TypeOK, KeepInv, OneInv, HistInv
<1>s. SUFFICES ASSUME Doing(Place(f))
               PROVE  ApartOK(history, queue, draft, typed)' /\ HistOK(f)'
  <2>1. at[f] \in Places \ {"idle", "clearing", "saving"}
    BY <1>0 DEF Turn, Begin, PrepareFails, NeedsCompaction, GiveUpTurn,
       SendRequest, StartStream, StreamDone, StreamAborted, StreamFails,
       Stopped, Threw, EndAnswered, RetryEmpty, Retry, GiveUpEmpty,
       Execute, Complete, ExecuteThrows, ExecuteDone, EndAfterOutput,
       SendOutput, StartCompaction, MeasureFails, CompactionDone, Compacted,
       CompactionFails, Places
  <2>2. Doing(Place(f))
    BY <2>1 DEF Doing, Place
  <2> QED
    BY <2>2, TurnFrame, NextFrame, HistStep
<1> DEFINE Goal == ApartOK(history, queue, draft, typed)' /\ HistOK(f)'
<1>1. ASSUME Begin(f) PROVE Goal
  <2>1. /\ at[f] = "processing" /\ draft' = Nothing /\ queue' = queue
        /\ at' = [at EXCEPT ![f] = "prepare"] /\ next' = [next EXCEPT ![f] = next[f]]
        /\ request' = [request EXCEPT ![f] = Requested(history, next[f])]
        /\ history' = history /\ typed' = typed
    BY <1>1 DEF Begin, BeginTurn, Go
  <2>2. /\ Place(f) = "processing" /\ Place(f)' = "prepare" /\ next'[f] = next[f]
        /\ request'[f] = Requested(history, next[f])
    BY <1>0, <2>1 DEF Place
  <2>3. /\ Nothing \notin Messages /\ UsersIn(<<next[f]>>) \subseteq Messages
        /\ Queued(queue) \subseteq Messages /\ UsersIn(history) \subseteq Messages
    <3>1. next[f] \in Item /\ history \in Seq(Item) /\ queue \in Seq(Messages)
      BY DEF TypeOK
    <3>2. Queued(queue) \subseteq Messages
      BY <3>1 DEF Queued
    <3>3. UsersIn(<<next[f]>>) \subseteq Messages /\ UsersIn(history) \subseteq Messages
      BY <3>1, UsersAreMessages
    <3> QED
      BY <3>2, <3>3, ConversationAssumption DEF Messages
  <2>4. ApartOK(history, queue, draft, typed)'
    BY <1>0, <2>1, <2>3 DEF ApartOK
  <2>5. /\ next[f] # It("code") /\ Once(history)
        /\ UsersIn(<<next[f]>>) \intersect UsersIn(history) = {}
        /\ UsersIn(<<next[f]>>) \intersect Queued(queue') = {}
        /\ UsersIn(<<next[f]>>) \subseteq 1..typed'
        /\ draft' \notin UsersIn(<<next[f]>>)
    BY <1>0, <2>1, <2>2, <2>3 DEF HistOK, EndsOK, OwnOK, ApartOK, Unsent
  <2>6. HistOK(f)'
    BY <1>0, <2>1, <2>2, <2>5, TurnBegins
  <2> QED
    BY <2>4, <2>6
<1>2. ASSUME PrepareFails(f) PROVE Goal
  <2>1. PICK outcome : EndLoop(f, outcome)
    BY <1>2 DEF PrepareFails
  <2>2. at[f] # "saving" /\ history' = history
    BY <1>2 DEF PrepareFails
  <2> QED
    BY <1>0, <2>1, <2>2, EndLoopHist
<1>3. ASSUME GiveUpTurn(f) PROVE Goal
  <2>1. PICK outcome : EndLoop(f, outcome)
    BY <1>3 DEF GiveUpTurn
  <2>2. at[f] # "saving" /\ history' = history
    BY <1>3 DEF GiveUpTurn
  <2> QED
    BY <1>0, <2>1, <2>2, EndLoopHist
<1>4. ASSUME Stopped(f) PROVE Goal
  <2>1. PICK outcome : EndLoop(f, outcome)
    BY <1>4 DEF Stopped
  <2>2. at[f] # "saving" /\ history' = history
    BY <1>4 DEF Stopped
  <2> QED
    BY <1>0, <2>1, <2>2, EndLoopHist
<1>5. ASSUME Threw(f) PROVE Goal
  <2>1. PICK outcome : EndLoop(f, outcome)
    BY <1>5 DEF Threw
  <2>2. at[f] # "saving" /\ history' = history
    BY <1>5 DEF Threw
  <2> QED
    BY <1>0, <2>1, <2>2, EndLoopHist
<1>6. ASSUME EndAnswered(f) PROVE Goal
  <2>1. PICK outcome : EndLoop(f, outcome)
    BY <1>6 DEF EndAnswered
  <2>2. at[f] # "saving" /\ history' = history
    BY <1>6 DEF EndAnswered
  <2> QED
    BY <1>0, <2>1, <2>2, EndLoopHist
<1>7. ASSUME Complete(f) PROVE Goal
  <2>1. PICK outcome : EndLoop(f, outcome)
    BY <1>7 DEF Complete
  <2>2. at[f] # "saving" /\ history' = history
    BY <1>7 DEF Complete
  <2> QED
    BY <1>0, <2>1, <2>2, EndLoopHist
<1>8. ASSUME ExecuteThrows(f) PROVE Goal
  <2>1. PICK outcome : EndLoop(f, outcome)
    BY <1>8 DEF ExecuteThrows
  <2>2. at[f] # "saving" /\ history' = history
    BY <1>8 DEF ExecuteThrows
  <2> QED
    BY <1>0, <2>1, <2>2, EndLoopHist
<1>9. ASSUME EndAfterOutput(f) PROVE Goal
  <2>1. PICK outcome : EndLoop(f, outcome)
    BY <1>9 DEF EndAfterOutput
  <2>2. at[f] # "saving" /\ history' = history
    BY <1>9 DEF EndAfterOutput
  <2> QED
    BY <1>0, <2>1, <2>2, EndLoopHist
<1>10. ASSUME NeedsCompaction(f) PROVE Goal
  <2>1. /\ at[f] = "prepare" /\ history' = history /\ queue' = queue
        /\ draft' = draft /\ typed' = typed
        /\ at' = [at EXCEPT ![f] = "compacting"]
    BY <1>10 DEF NeedsCompaction, Go, userVars
  <2>2. Place(f) = "prepare" /\ Place(f)' = "compacting"
    BY <1>0, <2>1 DEF Place
  <2>3. next'[f] \in {next[f], It("summary")}
    BY <1>10, <1>0 DEF NeedsCompaction
  <2>4. /\ UsersIn(<<It("summary")>>) = {} /\ It("summary") # It("code")
    BY UsersOfOthers, ItInjective DEF Kinds
  <2>5. next'[f] # It("code") /\ UsersIn(<<next'[f]>>) \subseteq UsersIn(<<next[f]>>)
    BY <1>0, <2>3, <2>4 DEF HistOK, EndsOK
  <2>6. OwnOK(f, next[f])
    BY <1>0, <2>2 DEF HistOK, Unsent
  <2>7. HistOK(f)'
    BY <2>1, <2>2, <2>5, <2>6 DEF HistOK, EndsOK, OwnOK, Asking
  <2>8. ApartOK(history, queue, draft, typed)'
    BY <1>0, <2>1 DEF ApartOK
  <2> QED
    BY <2>7, <2>8
<1>11. ASSUME SendRequest(f) PROVE Goal
  <2>1. at[f] \in {"prepare", "again"} /\ history' = Append(request[f], Open(f))
        /\ at' = [at EXCEPT ![f] = "starting"] /\ next' = next /\ request' = request
        /\ draft' = draft /\ queue' = queue /\ typed' = typed
    BY <1>11 DEF SendRequest, Go, userVars
  <2>2. Place(f) \in {"prepare", "again"} /\ Place(f)' = "starting"
    BY <1>0, <2>1 DEF Place
  <2>3. UsersIn(Append(request[f], Open(f))) = UsersIn(request[f])
    <3>1. UsersIn(Append(request[f], Open(f)))
            = UsersIn(request[f]) \union UsersIn(<<Open(f)>>)
      BY <1>0, UsersOfAppend
    <3> QED
      BY <3>1, UsersOfOthers
  <2>4. /\ Once(request[f]) /\ LastIs(request[f], next[f]) /\ next[f] # It("code")
        /\ UsersIn(request[f]) \subseteq UsersIn(history) \union UsersIn(<<next[f]>>)
        /\ OwnOK(f, next[f])
    BY <1>0, <2>2 DEF HistOK, EndsOK, Unsent
  <2>5. UsersIn(<<Open(f)>>) = {}
    BY UsersOfOthers
  <2>6. Once(Append(request[f], Open(f)))
    BY <1>0, <2>4, <2>5, OnceAppended
  <2>7. LastIs(Append(request[f], Open(f)), Open(f))
    BY <1>0, LastAppended
  <2>8. ApartOK(history, queue, draft, typed)'
    BY <1>0, <2>1, <2>2, <2>3, <2>4, <2>6 DEF ApartOK, OwnOK
  <2>9. HistOK(f)'
    BY <2>1, <2>2, <2>3, <2>4, <2>7 DEF HistOK, EndsOK, Asking, Unsent
  <2> QED
    BY <2>8, <2>9
<1>12. ASSUME StartStream(f) PROVE Goal
  <2>1. at[f] = "starting" /\ history' = history
        /\ at' = [at EXCEPT ![f] = "streaming"] /\ next' = next /\ request' = request
        /\ reply' = reply
        /\ draft' = draft /\ queue' = queue /\ typed' = typed
    BY <1>12 DEF StartStream, Go, userVars
  <2>2. Place(f) = "starting" /\ Place(f)' = "streaming"
    BY <1>0, <2>1 DEF Place
  <2>3. HistOK(f)'
    BY <1>0, <2>1, <2>2 DEF HistOK, EndsOK, Asking, Unsent
  <2>4. ApartOK(history, queue, draft, typed)'
    BY <1>0, <2>1 DEF ApartOK
  <2> QED
    BY <2>3, <2>4
<1>13. ASSUME Execute(f) PROVE Goal
  <2>1. at[f] = "answered" /\ history' = history
        /\ at' = [at EXCEPT ![f] = "executing"] /\ next' = next /\ request' = request
        /\ reply' = reply
        /\ draft' = draft /\ queue' = queue /\ typed' = typed
    BY <1>13 DEF Execute, Go, userVars
  <2>2. Place(f) = "answered" /\ Place(f)' = "executing"
    BY <1>0, <2>1 DEF Place
  <2>3. HistOK(f)'
    BY <1>0, <2>1, <2>2 DEF HistOK, EndsOK, Asking, Unsent
  <2>4. ApartOK(history, queue, draft, typed)'
    BY <1>0, <2>1 DEF ApartOK
  <2> QED
    BY <2>3, <2>4
<1>14. ASSUME NEW kind \in {"text", "code", "empty"}, StreamDone(f, kind) PROVE Goal
  <2>1. at[f] \in {"streaming", "aborting"} /\ Place(f)' = "answered" /\ next' = next /\ request' = request
        /\ draft' = draft /\ queue' = queue /\ typed' = typed /\ reply' = [reply EXCEPT ![f] = kind]
    <3>1. PICK h : Persist(f, h, "answered")
      BY <1>14 DEF StreamDone
    <3>2. "answered" \in Places \ {"saving"}
      BY DEF Places
    <3>3. Place(f)' = "answered"
      BY <3>1, <3>2, PersistAlone
    <3> QED
      BY <1>14, <3>3 DEF StreamDone, userVars
  <2>2. Place(f) = at[f]
    BY <2>1 DEF Place
  <2>3. /\ Once(history') /\ UsersIn(history') = UsersIn(history)
        /\ LastIs(history', It(kind)) /\ reply'[f] = kind
    <3>1. history' = Settled(history, f, kind) /\ kind \in Kinds \ {"user"}
      BY <1>14 DEF StreamDone, Kinds
    <3>2. UsersIn(history) = UsersIn(history')
      BY <1>0, <3>1, UsersOfSettled
    <3>3. Once(history')
      BY <1>0, <3>1, OnceSettled DEF ApartOK
    <3>4. LastIs(history, Open(f))
      BY <1>0, <2>1, <2>2 DEF HistOK, EndsOK, Asking
    <3>5. LastIs(history', It(kind))
      BY <1>0, <3>1, <3>4, LastSettled
    <3> QED
      BY <1>0, <2>1, <3>2, <3>3, <3>5
  <2>4. ApartOK(history, queue, draft, typed)'
    BY <1>0, <2>1, <2>3 DEF ApartOK
  <2>5. HistOK(f)'
    BY <1>0, <2>1, <2>2, <2>3 DEF HistOK, EndsOK, Asking, Unsent
  <2> QED
    BY <2>4, <2>5
<1>15. ASSUME StreamAborted(f) PROVE Goal
  <2>1. at[f] \in {"aborting"} /\ Place(f)' = "stopped" /\ next' = next /\ request' = request
        /\ draft' = draft /\ queue' = queue /\ typed' = typed
    <3>1. PICK h : Persist(f, h, "stopped")
      BY <1>15 DEF StreamAborted, CutShort
    <3>2. "stopped" \in Places \ {"saving"}
      BY DEF Places
    <3>3. Place(f)' = "stopped"
      BY <3>1, <3>2, PersistAlone
    <3> QED
      BY <1>15, <3>3 DEF StreamAborted, CutShort, userVars
  <2>2. Place(f) = at[f]
    BY <2>1 DEF Place
  <2>3. /\ Once(history') /\ UsersIn(history') \subseteq UsersIn(history)
        /\ NotCode(history')
    <3>1. history' = Settled(history, f, "cut") \/ history' = request[f]
      BY <1>15 DEF StreamAborted, CutShort
    <3>2. "cut" \in Kinds \ {"user"} /\ It("cut") # It("code")
      BY ItInjective DEF Kinds
    <3>3. /\ UsersIn(Settled(history, f, "cut")) = UsersIn(history)
          /\ Once(Settled(history, f, "cut"))
      BY <1>0, <3>2, UsersOfSettled, OnceSettled DEF ApartOK
    <3>4. /\ LastIs(history, Open(f)) /\ LastIs(request[f], next[f])
          /\ next[f] # It("code") /\ Once(request[f])
          /\ UsersIn(request[f]) \subseteq UsersIn(history)
      BY <1>0, <2>1, <2>2 DEF HistOK, EndsOK, Asking
    <3>5. LastIs(Settled(history, f, "cut"), It("cut"))
      BY <1>0, <3>4, LastSettled
    <3> QED
      BY <3>1, <3>2, <3>3, <3>4, <3>5 DEF LastIs, NotCode
  <2>4. ApartOK(history, queue, draft, typed)'
    BY <1>0, <2>1, <2>3 DEF ApartOK
  <2>5. HistOK(f)'
    BY <1>0, <2>1, <2>2, <2>3 DEF HistOK, EndsOK, Asking, Unsent
  <2> QED
    BY <2>4, <2>5
<1>16. ASSUME StreamFails(f) PROVE Goal
  <2>1. at[f] \in {"starting", "streaming", "aborting"}
        /\ Place(f)' = "threw" /\ next' = next /\ request' = request
        /\ draft' = draft /\ queue' = queue /\ typed' = typed
    <3>1. PICK h : Persist(f, h, "threw")
      BY <1>16 DEF StreamFails, CutShort
    <3>2. "threw" \in Places \ {"saving"}
      BY DEF Places
    <3>3. Place(f)' = "threw"
      BY <3>1, <3>2, PersistAlone
    <3> QED
      BY <1>16, <3>3 DEF StreamFails, CutShort, userVars
  <2>2. Place(f) = at[f]
    BY <2>1 DEF Place
  <2>3. /\ Once(history') /\ UsersIn(history') \subseteq UsersIn(history)
        /\ NotCode(history')
    <3>1. history' = Settled(history, f, "cut") \/ history' = request[f]
      BY <1>16 DEF StreamFails, CutShort
    <3>2. "cut" \in Kinds \ {"user"} /\ It("cut") # It("code")
      BY ItInjective DEF Kinds
    <3>3. /\ UsersIn(Settled(history, f, "cut")) = UsersIn(history)
          /\ Once(Settled(history, f, "cut"))
      BY <1>0, <3>2, UsersOfSettled, OnceSettled DEF ApartOK
    <3>4. /\ LastIs(history, Open(f)) /\ LastIs(request[f], next[f])
          /\ next[f] # It("code") /\ Once(request[f])
          /\ UsersIn(request[f]) \subseteq UsersIn(history)
      BY <1>0, <2>1, <2>2 DEF HistOK, EndsOK, Asking
    <3>5. LastIs(Settled(history, f, "cut"), It("cut"))
      BY <1>0, <3>4, LastSettled
    <3> QED
      BY <3>1, <3>2, <3>3, <3>4, <3>5 DEF LastIs, NotCode
  <2>4. ApartOK(history, queue, draft, typed)'
    BY <1>0, <2>1, <2>3 DEF ApartOK
  <2>5. HistOK(f)'
    BY <1>0, <2>1, <2>2, <2>3 DEF HistOK, EndsOK, Asking, Unsent
  <2> QED
    BY <2>4, <2>5
<1>17. ASSUME RetryEmpty(f) PROVE Goal
  <2>1. at[f] \in {"answered"} /\ Place(f)' = "retry" /\ next' = next /\ request' = request
        /\ draft' = draft /\ queue' = queue /\ typed' = typed
    <3>1. PICK h : Persist(f, h, "retry")
      BY <1>17 DEF RetryEmpty
    <3>2. "retry" \in Places \ {"saving"}
      BY DEF Places
    <3>3. Place(f)' = "retry"
      BY <3>1, <3>2, PersistAlone
    <3> QED
      BY <1>17, <3>3 DEF RetryEmpty, userVars
  <2>2. Place(f) = at[f]
    BY <2>1 DEF Place
  <2>3. /\ Once(history') /\ UsersIn(history') \subseteq UsersIn(history)
        /\ LastIs(history', next[f])
    <3>1. history' = request[f]
      BY <1>17 DEF RetryEmpty
    <3> QED
      BY <1>0, <2>1, <2>2, <3>1 DEF HistOK, EndsOK
  <2>4. ApartOK(history, queue, draft, typed)'
    BY <1>0, <2>1, <2>3 DEF ApartOK
  <2>5. HistOK(f)'
    BY <1>0, <2>1, <2>2, <2>3 DEF HistOK, EndsOK, Asking, Unsent
  <2> QED
    BY <2>4, <2>5
<1>18. ASSUME GiveUpEmpty(f) PROVE Goal
  <2>1. at[f] \in {"answered"} /\ Place(f)' = "complete" /\ next' = next /\ request' = request
        /\ draft' = draft /\ queue' = queue /\ typed' = typed
    <3>1. PICK h : Persist(f, h, "complete")
      BY <1>18 DEF GiveUpEmpty
    <3>2. "complete" \in Places \ {"saving"}
      BY DEF Places
    <3>3. Place(f)' = "complete"
      BY <3>1, <3>2, PersistAlone
    <3> QED
      BY <1>18, <3>3 DEF GiveUpEmpty, userVars
  <2>2. Place(f) = at[f]
    BY <2>1 DEF Place
  <2>3. /\ Once(history') /\ UsersIn(history') \subseteq UsersIn(history)
        /\ NotCode(history')
    <3>1. history' = history /\ reply[f] = "empty"
      BY <1>18 DEF GiveUpEmpty
    <3>2. LastIs(history, It("empty")) /\ It("empty") # It("code")
      BY <1>0, <2>1, <2>2, <3>1, ItInjective DEF HistOK, EndsOK
    <3> QED
      BY <1>0, <3>1, <3>2 DEF ApartOK, LastIs, NotCode
  <2>4. ApartOK(history, queue, draft, typed)'
    BY <1>0, <2>1, <2>3 DEF ApartOK
  <2>5. HistOK(f)'
    BY <1>0, <2>1, <2>2, <2>3 DEF HistOK, EndsOK, Asking, Unsent
  <2> QED
    BY <2>4, <2>5
<1>19. ASSUME ExecuteDone(f) PROVE Goal
  <2>1. at[f] \in {"executing"} /\ Place(f)' = "output" /\ next' = next /\ request' = request
        /\ draft' = draft /\ queue' = queue /\ typed' = typed
    <3>1. PICK h : Persist(f, h, "output")
      BY <1>19 DEF ExecuteDone
    <3>2. "output" \in Places \ {"saving"}
      BY DEF Places
    <3>3. Place(f)' = "output"
      BY <3>1, <3>2, PersistAlone
    <3> QED
      BY <1>19, <3>3 DEF ExecuteDone, userVars
  <2>2. Place(f) = at[f]
    BY <2>1 DEF Place
  <2>3. /\ Once(history') /\ UsersIn(history') \subseteq UsersIn(history)
        /\ NotCode(history')
    <3>1. history' = Append(history, It("output"))
      BY <1>19 DEF ExecuteDone
    <3>2. UsersIn(<<It("output")>>) = {} /\ It("output") # It("code")
      BY UsersOfOthers, ItInjective DEF Kinds
    <3>3. Once(history') /\ UsersIn(history') = UsersIn(history)
      BY <1>0, <3>1, <3>2, OnceAppended, UsersOfAppend DEF ApartOK
    <3>4. history'[Len(history')] = It("output")
      BY <1>0, <3>1
    <3> QED
      BY <3>2, <3>3, <3>4 DEF NotCode
  <2>4. ApartOK(history, queue, draft, typed)'
    BY <1>0, <2>1, <2>3 DEF ApartOK
  <2>5. HistOK(f)'
    BY <1>0, <2>1, <2>2, <2>3 DEF HistOK, EndsOK, Asking, Unsent
  <2> QED
    BY <2>4, <2>5
<1>20. ASSUME CompactionDone(f) PROVE Goal
  <2>1. at[f] = "compacting" /\ Place(f)' = "compacted" /\ next' = next
        /\ draft' = draft /\ queue' = queue /\ typed' = typed
        /\ history' = <<It("summary")>>
    <3>1. PICK h : Persist(f, h, "compacted")
      BY <1>20 DEF CompactionDone
    <3>2. "compacted" \in Places \ {"saving"}
      BY DEF Places
    <3>3. Place(f)' = "compacted"
      BY <3>1, <3>2, PersistAlone
    <3> QED
      BY <1>20, <3>3 DEF CompactionDone, userVars
  <2>2. Place(f) = at[f]
    BY <2>1 DEF Place
  <2>3. UsersIn(<<It("summary")>>) = {} /\ Once(<<It("summary")>>)
    BY UsersOfOthers DEF Kinds, Once
  <2>4. ApartOK(history, queue, draft, typed)'
    BY <1>0, <2>1, <2>3 DEF ApartOK
  <2>5. next[f] # It("code") /\ OwnOK(f, next[f])
    BY <1>0, <2>1, <2>2 DEF HistOK, EndsOK, Unsent
  <2>6. HistOK(f)'
    BY <2>1, <2>2, <2>3, <2>5 DEF HistOK, EndsOK, OwnOK, Asking
  <2> QED
    BY <2>4, <2>6
<1>21. ASSUME Retry(f) PROVE Goal
  <2> DEFINE item == IF retries[f] = 1 THEN next[f] ELSE It("retry")
  <2>1. at[f] = "retry" /\ at' = [at EXCEPT ![f] = "prepare"]
        /\ next' = [next EXCEPT ![f] = item]
        /\ request' = [request EXCEPT ![f] = Requested(history, item)]
        /\ draft' = draft /\ queue' = queue /\ typed' = typed /\ history' = history
    BY <1>21 DEF Retry, BeginTurn, Go, userVars
  <2>2. /\ item \in Item /\ item # It("code") /\ Once(history)
        /\ UsersIn(<<item>>) \intersect UsersIn(history) = {} \/ LastIs(history, item)
        /\ UsersIn(<<item>>) \intersect Queued(queue') = {}
        /\ UsersIn(<<item>>) \subseteq 1..typed' /\ draft' \notin UsersIn(<<item>>)
    <3>1. CASE retries[f] = 1
      <4>1. Place(f) = "retry" /\ item = next[f]
        BY <2>1, <3>1 DEF Place
      <4>2. LastIs(history, next[f]) /\ next[f] # It("code")
        BY <1>0, <4>1 DEF HistOK, EndsOK
      <4>3. UsersIn(<<next[f]>>) \subseteq UsersIn(history)
        BY <1>0, <4>1 DEF TurnOK, Sent
      <4> QED
        BY <1>0, <2>1, <4>1, <4>2, <4>3 DEF ApartOK
    <3>2. CASE retries[f] # 1
      <4>1. item = It("retry") /\ UsersIn(<<It("retry")>>) = {}
            /\ It("retry") # It("code") /\ It("retry") \in Item
        BY <3>2, UsersOfOthers, ItInjective, ItemTypes DEF Kinds
      <4> HIDE DEF item
      <4> QED
        BY <1>0, <4>1 DEF ApartOK
    <3> QED
      BY <3>1, <3>2
  <2> HIDE DEF item
  <2>3. /\ Place(f)' = "prepare" /\ next'[f] = item
        /\ request'[f] = Requested(history, item)
    BY <1>0, <2>1 DEF Place
  <2>4. ApartOK(history, queue, draft, typed)'
    BY <1>0, <2>1 DEF ApartOK
  <2>5. HistOK(f)'
    BY <1>0, <2>1, <2>2, <2>3, TurnBegins
  <2> QED
    BY <2>4, <2>5
<1>22. ASSUME SendOutput(f) PROVE Goal
  <2> DEFINE item == It("output")
  <2>1. at[f] = "output" /\ at' = [at EXCEPT ![f] = "prepare"]
        /\ next' = [next EXCEPT ![f] = item]
        /\ request' = [request EXCEPT ![f] = Requested(history, item)]
        /\ draft' = draft /\ queue' = queue /\ typed' = typed /\ history' = history
    BY <1>22 DEF SendOutput, BeginTurn, Go, userVars
  <2>2. /\ item \in Item /\ item # It("code") /\ Once(history)
        /\ UsersIn(<<item>>) \intersect UsersIn(history) = {} \/ LastIs(history, item)
        /\ UsersIn(<<item>>) \intersect Queued(queue') = {}
        /\ UsersIn(<<item>>) \subseteq 1..typed' /\ draft' \notin UsersIn(<<item>>)
    <3>1. item = It("output") /\ UsersIn(<<It("output")>>) = {}
          /\ It("output") # It("code") /\ It("output") \in Item
      BY UsersOfOthers, ItInjective, ItemTypes DEF Kinds
    <3> HIDE DEF item
    <3> QED
      BY <1>0, <3>1 DEF ApartOK
  <2> HIDE DEF item
  <2>3. /\ Place(f)' = "prepare" /\ next'[f] = item
        /\ request'[f] = Requested(history, item)
    BY <1>0, <2>1 DEF Place
  <2>4. ApartOK(history, queue, draft, typed)'
    BY <1>0, <2>1 DEF ApartOK
  <2>5. HistOK(f)'
    BY <1>0, <2>1, <2>2, <2>3, TurnBegins
  <2> QED
    BY <2>4, <2>5
<1>23. ASSUME StartCompaction(f) PROVE Goal
  <2>1. at[f] = "measuring" /\ at' = [at EXCEPT ![f] = "compacting"]
        /\ draft' = draft /\ queue' = queue /\ typed' = typed
        /\ history' = history /\ next' = next
    BY <1>23 DEF StartCompaction, Go, userVars
  <2>2. Place(f) = "measuring" /\ Place(f)' = "compacting"
    BY <1>0, <2>1 DEF Place
  <2>3. next[f] = NoItem /\ next[f] # It("code") /\ UsersIn(<<NoItem>>) = {}
    BY <1>0, <2>2, UsersOfOthers DEF FlowOK, HistOK, EndsOK
  <2>4. HistOK(f)'
    BY <2>1, <2>2, <2>3 DEF HistOK, EndsOK, OwnOK, Asking
  <2>5. ApartOK(history, queue, draft, typed)'
    BY <1>0, <2>1 DEF ApartOK
  <2> QED
    BY <2>4, <2>5
<1>24. ASSUME MeasureFails(f) PROVE Goal
  <2>1. at[f] = "measuring" /\ at' = [at EXCEPT ![f] = "idle"]
        /\ draft' = draft /\ queue' = queue /\ typed' = typed
        /\ history' = history /\ next' = next
    BY <1>24 DEF MeasureFails, Go, userVars
  <2>2. Place(f)' = "idle"
    BY <1>0, <2>1 DEF Place
  <2>3. next[f] # It("code")
    BY <1>0 DEF HistOK, EndsOK
  <2>4. HistOK(f)'
    BY <2>1, <2>2, <2>3 DEF HistOK, EndsOK, Asking, Unsent
  <2>5. ApartOK(history, queue, draft, typed)'
    BY <1>0, <2>1 DEF ApartOK
  <2> QED
    BY <2>4, <2>5
<1>25. ASSUME Compacted(f) PROVE Goal
  <2>1. at[f] = "compacted" /\ next' = next
        /\ draft' = draft /\ queue' = queue /\ typed' = typed /\ history' = history
    BY <1>25 DEF Compacted, userVars
  <2>2. Place(f) = "compacted"
    BY <2>1 DEF Place
  <2>3. /\ next[f] # It("code") /\ UsersIn(history) = {} /\ OwnOK(f, next[f])
    BY <1>0, <2>2 DEF HistOK, EndsOK, Unsent
  <2>4. ApartOK(history, queue, draft, typed)'
    BY <1>0, <2>1 DEF ApartOK
  <2>5. CASE next[f] = NoItem
    <3>1. Place(f)' = "idle"
      BY <1>25, <1>0, <2>5 DEF Compacted, Go, Place
    <3>2. HistOK(f)'
      BY <2>1, <2>3, <3>1 DEF HistOK, EndsOK, Asking, Unsent
    <3> QED
      BY <2>4, <3>2
  <2>6. CASE next[f] # NoItem
    <3>1. /\ Place(f)' = "again"
          /\ request'[f] = Requested(history, next[f])
      BY <1>25, <1>0, <2>6 DEF Compacted, Go, Place
    <3>2. /\ LastIs(Requested(history, next[f]), next[f])
          /\ Once(Requested(history, next[f]))
          /\ UsersIn(Requested(history, next[f]))
               = UsersIn(history) \union UsersIn(<<next[f]>>)
      <4>1. Once(history) /\ UsersIn(<<next[f]>>) \intersect UsersIn(history) = {}
        BY <1>0, <2>3 DEF ApartOK
      <4> QED
        BY <1>0, <4>1, LastRequested, OnceRequested, UsersOfRequested
    <3>3. HistOK(f)'
      BY <2>1, <2>2, <2>3, <3>1, <3>2 DEF HistOK, EndsOK, OwnOK, Asking, Unsent
    <3> QED
      BY <2>4, <3>3
  <2> QED
    BY <2>5, <2>6
<1>26. ASSUME CompactionFails(f) PROVE Goal
  <2>1. at[f] = "compacting" /\ history' = history
    BY <1>26 DEF CompactionFails
  <2>2. CASE next[f] = NoItem
    <3>1. /\ at' = [at EXCEPT ![f] = "idle"] /\ next' = next
          /\ draft' = draft /\ queue' = queue /\ typed' = typed
      BY <1>26, <2>2 DEF CompactionFails, Go, userVars
    <3>2. Place(f)' = "idle"
      BY <1>0, <3>1 DEF Place
    <3>3. next[f] # It("code")
      BY <1>0 DEF HistOK, EndsOK
    <3>4. HistOK(f)'
      BY <3>1, <3>2, <3>3 DEF HistOK, EndsOK, Asking, Unsent
    <3>5. ApartOK(history, queue, draft, typed)'
      BY <1>0, <2>1, <3>1 DEF ApartOK
    <3> QED
      BY <3>4, <3>5
  <2>3. CASE next[f] # NoItem
    <3>1. EndLoop(f, "failed")
      BY <1>26, <2>3 DEF CompactionFails
    <3>2. at[f] # "saving"
      BY <2>1
    <3> QED
      BY <1>0, <2>1, <3>1, <3>2, EndLoopHist
  <2> QED
    BY <2>2, <2>3
<1> QED
  BY <1>1, <1>2, <1>3, <1>4, <1>5, <1>6, <1>7, <1>8, <1>9, <1>10, <1>11, <1>12, <1>13, <1>14, <1>15, <1>16, <1>17, <1>18, <1>19, <1>20, <1>21, <1>22, <1>23, <1>24, <1>25, <1>26 DEF Turn

LEMMA QuietHist ==
  ASSUME HistInv, ~raced,
         UNCHANGED <<typed, draft, queue, history, next, request, reply>>,
         \A f \in Flows : \/ Place(f)' = Place(f)
                          \/ Place(f) = "streaming" /\ Place(f)' = "aborting"
                          \/ /\ Place(f) \in {"idle", "clearing", "rerunning"}
                             /\ Place(f)' \in {"idle", "clearing", "rerunning"}
  PROVE  HistInv'
<1>1. ASSUME NEW f \in Flows PROVE HistOK(f)'
  <2>1. HistOK(f)
    BY DEF HistInv
  <2>2. CASE Place(f)' = Place(f)
    BY <2>1, <2>2 DEF HistOK, EndsOK, OwnOK
  <2>3. CASE Place(f) = "streaming" /\ Place(f)' = "aborting"
    BY <2>1, <2>3 DEF HistOK, EndsOK, OwnOK, Asking, Unsent
  <2>4. CASE Place(f)' \in {"idle", "clearing", "rerunning"}
    BY <2>1, <2>4 DEF HistOK, EndsOK, OwnOK, Asking, Unsent
  <2> QED
    BY <2>2, <2>3, <2>4
<1>2. ApartOK(history, queue, draft, typed)'
  BY DEF HistInv, ApartOK
<1> QED
  BY <1>1, <1>2 DEF HistInv

LEMMA QueuedOnce ==
  ASSUME NEW q \in Seq(Messages), NEW m, m \notin Queued(q),
         \A i, j \in DOMAIN q : q[i] = q[j] => i = j
  PROVE  /\ \A i, j \in DOMAIN Append(q, m) :
              Append(q, m)[i] = Append(q, m)[j] => i = j
         /\ Queued(Append(q, m)) \subseteq Queued(q) \union {m}
<1>1. \A k \in DOMAIN Append(q, m) :
        \/ k \in DOMAIN q /\ Append(q, m)[k] = q[k]
        \/ k = Len(q) + 1 /\ Append(q, m)[k] = m
  OBVIOUS
<1>2. \A k \in DOMAIN q : q[k] # m
  BY DEF Queued
<1>3. Queued(Append(q, m)) \subseteq Queued(q) \union {m}
  BY <1>1 DEF Queued
<1> QED
  BY <1>1, <1>2, <1>3

LEMMA TypeApart ==
  ASSUME TypeOK, HistInv, ~raced, NEW m \in Messages, Type(m)
  PROVE  HistInv'
<1>1. /\ draft' = typed + 1 /\ typed' = typed + 1 /\ queue' = queue
      /\ history' = history /\ typed \in Nat
      /\ UNCHANGED <<at, after, next, request, reply>>
  BY DEF Type, flowVars, TypeOK
<1>2. 1..typed \subseteq 1..typed' /\ draft' \notin 1..typed /\ draft' \in 1..typed'
  BY <1>1
<1>3. ApartOK(history, queue, draft, typed)'
  BY <1>1, <1>2 DEF HistInv, ApartOK
<1>4. ASSUME NEW f \in Flows PROVE HistOK(f)'
  <2>1. HistOK(f) /\ Place(f)' = Place(f)
    BY <1>1 DEF HistInv, Place
  <2>2. EndsOK(f, history, request[f], next[f])'
    BY <1>1, <2>1 DEF HistOK, EndsOK
  <2>3. ASSUME OwnOK(f, next[f]) PROVE OwnOK(f, next[f])'
    BY <1>1, <1>2, <2>1, <2>3 DEF OwnOK
  <2> QED
    BY <2>1, <2>2, <2>3 DEF HistOK
<1> QED
  BY <1>3, <1>4 DEF HistInv

LEMMA QueueApart ==
  ASSUME TypeOK, OneInv, HistInv, ~raced, QueueDraft
  PROVE  HistInv'
<1>1. /\ queue' = Append(queue, draft) /\ draft' = Nothing /\ typed' = typed
      /\ history' = history /\ draft # Nothing /\ draft \in Messages
      /\ queue \in Seq(Messages) /\ Nothing \notin Messages
      /\ UNCHANGED <<at, after, next, request, reply>>
  BY ConversationAssumption DEF QueueDraft, flowVars, TypeOK, Messages
<1>2. ApartOK(history, queue, draft, typed)
  BY DEF HistInv
<1>3. /\ \A i, j \in DOMAIN queue' : queue'[i] = queue'[j] => i = j
      /\ Queued(queue') \subseteq Queued(queue) \union {draft}
  <2>1. /\ draft \notin Queued(queue)
        /\ \A i, j \in DOMAIN queue : queue[i] = queue[j] => i = j
    BY <1>2 DEF ApartOK
  <2> QED
    BY <1>1, <2>1, QueuedOnce
<1>4. Queued(queue') \subseteq Messages /\ UsersIn(history) \subseteq Messages
  BY <1>1, <1>3, UsersAreMessages DEF Queued
<1>5. ApartOK(history', queue', draft', typed')
  BY <1>1, <1>2, <1>3, <1>4 DEF ApartOK
<1>6. ASSUME NEW f \in Flows PROVE HistOK(f)'
  <2>1. HistOK(f) /\ Place(f)' = Place(f)
    BY <1>1 DEF HistInv, Place
  <2>2. EndsOK(f, history, request[f], next[f])'
    BY <1>1, <2>1 DEF HistOK, EndsOK
  <2>3. Place(f) # "processing"
    <3>1. PICK g \in Flows : BusyAt(Place(g))
      BY DEF OneInv, Alone, Released, QueueDraft
    <3>2. Doing(Place(g)) /\ Place(g) # "processing"
      BY <3>1 DEF BusyAt, Window
    <3>3. ASSUME Place(f) = "processing" PROVE f = g
      <4>1. Doing(Place(f))
        BY <3>3 DEF Doing
      <4> QED
        BY <3>2, <4>1 DEF OneInv, Alone, Released
    <3> QED
      BY <3>2, <3>3
  <2>4. ASSUME OwnOK(f, next[f]) PROVE OwnOK(f, next[f])'
    <3>1. UsersIn(<<next[f]>>) \subseteq Messages
      BY UsersAreMessages
    <3> QED
      BY <1>1, <1>3, <2>1, <2>3, <2>4, <3>1 DEF OwnOK
  <2> QED
    BY <2>1, <2>2, <2>4 DEF HistOK
<1> QED
  BY <1>5, <1>6 DEF HistInv

LEMMA ClickKeepsApart ==
  ASSUME NEW f \in Flows, TypeOK, OneInv, HistInv, Click(f), ~raced'
  PROVE  HistInv'
<1>1. /\ ~raced /\ ~sending /\ ~\E g \in Flows : at[g] \in Window
      /\ at[f] = "idle"
  BY DEF Click, Submit, ClickCompact, ClickClear, ClickRerun, Race
<1>2. (\A g \in Flows : ~Doing(Place(g))) /\ controller = Nothing
  BY <1>1, NoneDoing
<1>3. /\ Nothing \notin Flows /\ at \in [Flows -> Places]
      /\ next \in [Flows -> Item] /\ Place(f) = "idle"
      /\ ApartOK(history, queue, draft, typed) /\ HistOK(f)
  BY <1>1, ConversationAssumption DEF TypeOK, Place, HistInv
<1>5. CASE Submit(f)
  <2>1. /\ at' = [at EXCEPT ![f] = "processing"] /\ after' = after
        /\ next' = [next EXCEPT ![f] = User(draft)] /\ draft \in Messages
        /\ draft # Nothing
        /\ UNCHANGED <<draft, queue, typed, history, request, reply>>
    BY <1>5 DEF Submit, Go, userVars, TypeOK
  <2>2. Place(f)' = "processing" /\ next'[f] = User(draft)
    BY <1>3, <2>1 DEF Place
  <2>3. /\ UsersIn(<<User(draft)>>) = {draft} /\ User(draft) # It("code")
    BY <2>1, UsersOfUser, ItInjective DEF Kinds
  <2>4. \A g \in Flows \ {f} : /\ ~Doing(Place(g)) /\ Place(g)' = Place(g)
                               /\ next'[g] = next[g]
    BY <1>2, <1>3, <2>1 DEF Place
  <2>5. ApartOK(history, queue, draft, typed)'
    BY <1>3, <2>1 DEF ApartOK
  <2>6. HistOK(f)'
    BY <1>3, <2>1, <2>2, <2>3 DEF HistOK, EndsOK, OwnOK, ApartOK, Asking
  <2> QED
    BY <1>1, <2>4, <2>5, <2>6, HistStep
<1>6. CASE ClickCompact(f)
  <2>1. /\ at' = [at EXCEPT ![f] = "measuring"] /\ after' = after
        /\ next' = [next EXCEPT ![f] = NoItem]
        /\ UNCHANGED <<draft, queue, typed, history, request, reply>>
    BY <1>6 DEF ClickCompact, Go, userVars
  <2>2. Place(f)' = "measuring" /\ next'[f] = NoItem
    BY <1>3, <2>1 DEF Place
  <2>3. NoItem # It("code")
    BY ItInjective DEF NoItem
  <2>4. \A g \in Flows \ {f} : /\ ~Doing(Place(g)) /\ Place(g)' = Place(g)
                               /\ next'[g] = next[g]
    BY <1>2, <1>3, <2>1 DEF Place
  <2>5. ApartOK(history, queue, draft, typed)'
    BY <1>3, <2>1 DEF ApartOK
  <2>6. HistOK(f)'
    BY <2>2, <2>3 DEF HistOK, EndsOK, Unsent, Asking
  <2> QED
    BY <1>1, <2>4, <2>5, <2>6, HistStep
<1>7. CASE ClickClear(f)
  <2>1. /\ after' = after /\ typed' = typed /\ next' = next
        /\ at' = [g \in Flows |-> IF g = f THEN "clearing" ELSE at[g]]
        /\ draft' = Nothing /\ queue' = << >> /\ history' = << >>
    BY <1>2, <1>3, <1>7 DEF ClickClear
  <2>2. Place(f)' = "clearing"
    BY <1>3, <2>1 DEF Place
  <2>4. \A g \in Flows \ {f} : /\ ~Doing(Place(g)) /\ Place(g)' = Place(g)
                               /\ next'[g] = next[g]
    BY <1>2, <1>3, <2>1 DEF Place
  <2>5. ApartOK(history', queue', draft', typed')
    <3>1. UsersIn(<< >>) = {} /\ Queued(<< >>) = {}
      BY DEF UsersIn, Queued
    <3> QED
      BY <2>1, <3>1 DEF ApartOK, Once
  <2>6. HistOK(f)'
    BY <1>3, <2>1, <2>2 DEF HistOK, EndsOK, Unsent, Asking
  <2> QED
    BY <1>1, <2>4, <2>5, <2>6, HistStep
<1>8. CASE ClickRerun(f)
  <2>1. /\ at' = [at EXCEPT ![f] = "rerunning"] /\ after' = after
        /\ UNCHANGED <<typed, draft, queue, history, next, request, reply>>
    BY <1>8 DEF ClickRerun, Go, userVars
  <2>2. Place(f)' = "rerunning" /\ \A g \in Flows \ {f} : Place(g)' = Place(g)
    BY <1>3, <2>1 DEF Place
  <2> QED
    BY <1>1, <1>3, <2>1, <2>2, QuietHist
<1> QED
  BY <1>5, <1>6, <1>7, <1>8 DEF Click

LEMMA ApartKept == TypeOK /\ OneInv /\ KeepInv /\ HistInv /\ [Next]_vars => HistInv'
<1> SUFFICES ASSUME TypeOK, OneInv, KeepInv, HistInv, [Next]_vars, ~raced'
             PROVE  HistInv'
  BY DEF HistInv
<1>1. ASSUME NEW f \in Flows, Turn(f) PROVE HistInv'
  <2>1. raced' = raced
    BY <1>1, RacedOfTurn
  <2>2. CASE Clear(f)
    <3>1. /\ Persist(f, history, "idle") /\ "idle" \in Places \ {"saving"}
          /\ at[f] = "clearing"
      BY <2>2 DEF Clear, Places
    <3>2. at' = [at EXCEPT ![f] = "saving"] /\ after' = [after EXCEPT ![f] = "idle"]
          /\ Place(f)' = "idle"
      BY <3>1, PersistAlone
    <3>3. Place(f) = "clearing" /\ \A g \in Flows \ {f} : Place(g)' = Place(g)
      BY <3>1, <3>2 DEF Place, TypeOK
    <3>4. UNCHANGED <<typed, draft, queue, history, next, request, reply>>
      BY <2>2 DEF Clear, userVars
    <3> QED
      BY <2>1, <3>2, <3>3, <3>4, QuietHist
  <2>3. CASE RerunEnds(f)
    <3>1. /\ at' = [at EXCEPT ![f] = "idle"] /\ after' = after /\ at[f] = "rerunning"
          /\ UNCHANGED <<typed, draft, queue, history, next, request, reply>>
      BY <2>3 DEF RerunEnds, Go, userVars
    <3>2. Place(f) = "rerunning" /\ Place(f)' = "idle"
          /\ \A g \in Flows \ {f} : Place(g)' = Place(g)
      BY <3>1 DEF Place, TypeOK
    <3> QED
      BY <2>1, <3>1, <3>2, QuietHist
  <2> QED
    BY <1>1, <2>1, <2>2, <2>3, TurnKeepsApart
<1>2. ASSUME NEW f \in Flows, Click(f) PROVE HistInv'
  BY <1>2, ClickKeepsApart
<1>3. CASE Save \/ RequestStop \/ UNCHANGED vars
  <2>1. /\ UNCHANGED <<typed, draft, queue, history, next, request, reply>>
        /\ raced' = raced /\ after' = after
    BY <1>3 DEF Save, SaveDone, SaveFails, RequestStop, vars, userVars, ghostVars,
       flowVars
  <2>2. ASSUME NEW f \in Flows
        PROVE  \/ Place(f)' = Place(f)
               \/ Place(f) = "streaming" /\ Place(f)' = "aborting"
    BY <1>3, <2>1 DEF Save, SaveDone, SaveFails, RequestStop, vars, flowVars,
       Released, Place, TypeOK
  <2> QED
    BY <2>1, <2>2, QuietHist
<1>4. CASE (\E m \in Messages : Type(m)) \/ QueueDraft
  <2>1. raced' = raced
    BY <1>4 DEF Type, QueueDraft, ghostVars
  <2> QED
    BY <1>4, <2>1, TypeApart, QueueApart
<1> QED
  BY <1>1, <1>2, <1>3, <1>4 DEF Next

LEMMA InitApart == Init => HistInv
<1> SUFFICES ASSUME Init PROVE HistInv
  OBVIOUS
<1>1. /\ history = << >> /\ queue = << >> /\ draft = Nothing
      /\ at = [f \in Flows |-> "idle"] /\ next = [f \in Flows |-> NoItem]
  BY DEF Init
<1>2. UsersIn(<< >>) = {} /\ Queued(<< >>) = {}
  BY DEF UsersIn, Queued
<1>3. ApartOK(history, queue, draft, typed)
  BY <1>1, <1>2 DEF ApartOK, Once
<1>4. NoItem # It("code")
  BY ItInjective DEF NoItem
<1>5. ASSUME NEW f \in Flows PROVE HistOK(f)
  <2>1. Place(f) = "idle" /\ next[f] = NoItem
    BY <1>1 DEF Place
  <2> QED
    BY <1>4, <2>1 DEF HistOK, EndsOK, Unsent, Asking
<1> QED
  BY <1>3, <1>5 DEF HistInv

(* A message is asked of the model once: it is in the history at most once, *)
(* and not in the queue or the composer as well, so no turn sends it again. *)
THEOREM EachMessageAskedOnce == Spec => []AskedOnce
<1>1. TypeOK /\ HistInv => AskedOnce
  <2> SUFFICES ASSUME TypeOK, HistInv, ~raced
               PROVE  /\ \A i, j \in DOMAIN history :
                           history[i].kind = "user" /\ history[i] = history[j]
                             => i = j
                      /\ UsersIn(history) \intersect Queued(queue) = {}
                      /\ draft \notin UsersIn(history)
    BY DEF AskedOnce, Queued
  <2>1. ApartOK(history, queue, draft, typed) /\ history \in Seq(Item)
    BY DEF HistInv, TypeOK
  <2>2. ASSUME NEW item \in Item, item.kind = "user"
        PROVE  item \in {User(m) : m \in Messages}
    BY <2>2 DEF Item, It, Open, Kinds
  <2>3. \A i \in DOMAIN history : history[i] \in Item
    BY <2>1
  <2> QED
    BY <2>1, <2>2, <2>3 DEF ApartOK, Once
<1> QED
  BY InitTypes, TypesKept, InitOne, OneKept, InitKept, KeptKept, InitApart,
     ApartKept, <1>1, PTL DEF Spec

LEMMA TakenAfterOutput ==
  ASSUME TypeOK, HistInv, [Next]_vars, NEW f \in Flows, ~raced,
         Len(queue') < Len(queue), at[f] \notin {"prepare", "again"},
         at'[f] = "prepare"
  PROVE  history = << >> \/ history[Len(history)] # It("code")
<1>1. queue' # queue /\ at'[f] # at[f] /\ queue \in Seq(Messages) /\ HistOK(f)
  BY DEF TypeOK, HistInv
<1>2. \E g \in Flows : Turn(g)
  <2>1. CASE (\E m \in Messages : Type(m)) \/ RequestStop \/ Save \/ UNCHANGED vars
    BY <1>1, <2>1 DEF Type, RequestStop, Save, SaveDone, SaveFails, userVars, vars
  <2>2. CASE QueueDraft
    BY <1>1, <2>2 DEF QueueDraft, flowVars
  <2>3. ASSUME NEW g \in Flows, Click(g) PROVE FALSE
    BY <1>1, <2>3 DEF Click, Submit, ClickCompact, ClickClear, ClickRerun, userVars
  <2> QED
    BY <2>1, <2>2, <2>3 DEF Next
<1>3. Turn(f)
  BY <1>1, <1>2, OnlyOne
<1>4. \/ Stopped(f) \/ Threw(f) \/ EndAnswered(f) \/ Complete(f)
      \/ ExecuteThrows(f) \/ EndAfterOutput(f) \/ CompactionFails(f)
  BY <1>1, <1>3 DEF Turn, Begin, PrepareFails, NeedsCompaction, GiveUpTurn,
     SendRequest, StartStream, StreamDone, StreamAborted, StreamFails, CutShort,
     RetryEmpty, Retry, GiveUpEmpty, Execute, ExecuteDone, SendOutput,
     StartCompaction, MeasureFails, CompactionDone, Compacted, Clear, RerunEnds,
     userVars
<1>5. \A outcome : EndLoop(f, outcome) => outcome \in {"queued", "complete"}
  BY <1>1 DEF EndLoop, Finish
<1>6. ~(Threw(f) \/ ExecuteThrows(f) \/ CompactionFails(f))
  BY <1>1, <1>5 DEF Threw, ExecuteThrows, CompactionFails, userVars
<1>7. CASE Stopped(f) \/ EndAfterOutput(f) \/ (Complete(f) /\ at[f] = "complete")
  <2>1. Place(f) \in {"stopped", "output", "complete"}
    BY <1>7 DEF Stopped, EndAfterOutput, Place
  <2> QED
    BY <1>1, <2>1 DEF HistOK, EndsOK, NotCode
<1>8. CASE Complete(f) /\ at[f] # "complete"
  <2>1. Place(f) = "executing" /\ reply[f] # "code"
    BY <1>8 DEF Complete, Place
  <2> QED
    BY <1>1, <2>1, ItInjective DEF HistOK, EndsOK, LastIs
<1>9. CASE EndAnswered(f)
  <2>1. Place(f) = "answered" /\ EndLoop(f, BoundaryAfter(reply[f]))
    BY <1>9 DEF EndAnswered, Place
  <2>2. BoundaryAfter(reply[f]) \in {"queued", "complete"}
    BY <1>5, <2>1
  <2>3. reply[f] # "code"
    BY <2>2 DEF BoundaryAfter, Boundary
  <2> QED
    BY <1>1, <2>1, <2>3, ItInjective DEF HistOK, EndsOK, LastIs
<1> QED
  BY <1>4, <1>6, <1>7, <1>8, <1>9

(* A queued message is taken behind the output of a reply's code, never     *)
(* between the two.                                                         *)
THEOREM OutputComesFirst == Spec => QueuedAfterOutput
<1>1. TypeOK /\ HistInv /\ [Next]_vars =>
        [\A f \in Flows :
           /\ ~raced /\ Len(queue') < Len(queue)
           /\ at[f] \notin {"prepare", "again"} /\ at'[f] = "prepare"
           => history = << >> \/ history[Len(history)] # It("code")]_vars
  BY TakenAfterOutput
<1> QED
  BY InitTypes, TypesKept, InitOne, OneKept, InitKept, KeptKept, InitApart,
     ApartKept, <1>1, PTL DEF Spec, QueuedAfterOutput
=============================================================================
