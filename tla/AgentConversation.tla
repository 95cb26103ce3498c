-------------------------- MODULE AgentConversation --------------------------
(***************************************************************************)
(* The on-screen agent's conversation in one browser tab                   *)
(* (_core/onscreen_agent/store.js): what the user submits, queues and      *)
(* stops, the series of requests this starts, the compaction of the        *)
(* history, and the coalesced saving of the history.                       *)
(*                                                                         *)
(* The page has one thread, so code between two awaits is one step.  A     *)
(* flow is a call of submitMessage(), handleCompactClick(),                *)
(* handleClearClick() or a rerun: its place is the await it stands at.     *)
(* Replies are told apart only by what the loop asks of them: text, code   *)
(* to execute, or nothing.                                                 *)
(***************************************************************************)
EXTENDS Naturals, Sequences

CONSTANTS Flows,       \* calls that can be under way at a time
          Nothing,     \* null
          MaxMessages, \* bound: messages the user types
          MaxCode,     \* bound: replies that hold code
          MaxClicks,   \* bound: clicks on compact, clear and rerun
          MaxFaults,   \* bound: awaits that throw
          Overlap      \* bound: whether a click inside another's first awaits
                       \* is explored
ASSUME ConversationAssumption ==
  /\ Nothing \notin Nat \union Flows
  /\ \A n \in {MaxMessages, MaxCode, MaxClicks, MaxFaults} : n \in Nat
  /\ Overlap \in BOOLEAN

Messages == 1..MaxMessages   \* in the order the user types them

VARIABLES
  draft,        \* the composer's text
  queue,        \* queuedSubmissions
  sending, stop, compacting,   \* isSending, stopRequested, isCompactingHistory
  history,      \* the conversation
  controller,   \* whose request activeRequestController can abort
  at, after,    \* the await a flow stands at; where its save returns to
  next,         \* nextUserMessage of a flow
  request,      \* requestMessages of a flow
  reply,        \* what the assistant answered a flow
  retries,      \* emptyAssistantRetryCount of a flow
  before,       \* previousSendingState of a flow's compaction
  pending, saving,   \* pendingHistorySnapshot; the snapshot on its way
  stored,       \* ~/hist/onscreen-agent.json
  typed,        \* messages typed so far
  lost, gone,   \* history variables: messages dropped unsent, and cleared or
                \* summarised
  raced,        \* history variable: a flow began inside another's window
  unsaved,      \* history variable: the last save failed
  codes, clicks, faults   \* what the bounds count

userVars == <<draft, queue, typed>>
flagVars == <<sending, stop, compacting>>
flowVars == <<at, after, next, request, reply, retries, before>>
saveVars == <<pending, saving, stored, unsaved>>
ghostVars == <<lost, gone, raced>>
countVars == <<codes, clicks, faults>>
vars == <<userVars, flagVars, history, controller, flowVars, saveVars,
          ghostVars, countVars>>
-----------------------------------------------------------------------------
Kinds == {"none", "summary", "output", "retry", "text", "code", "empty", "cut"}
It(kind) == [kind |-> kind, of |-> Nothing]
NoItem == It("none")
User(m) == [kind |-> "user", of |-> m]
Open(f) == [kind |-> "open", of |-> f]   \* the reply being streamed
Item == {It(kind) : kind \in Kinds} \union {User(m) : m \in Messages}
                                    \union {Open(f) : f \in Flows}

(* null is no history.                                                      *)
ASSUME NothingAssumption == Nothing \notin Seq(Item)

Places == {"idle", "processing", "measuring", "clearing", "rerunning",
           "prepare", "again", "compacting", "compacted", "starting",
           "streaming", "aborting", "answered", "stopped", "threw", "retry",
           "complete", "executing", "output", "saving"}

MaxRetries == 2   \* MAX_PROTOCOL_RETRY_COUNT

UsersIn(h) == {m \in Messages : \E i \in DOMAIN h : h[i] = User(m)}

Go(f, place) == at' = [at EXCEPT ![f] = place]

(* A call returns, and its locals are gone.                                 *)
Return(f) ==
  /\ Go(f, "idle")
  /\ next' = [next EXCEPT ![f] = NoItem]
  /\ request' = [request EXCEPT ![f] = << >>]
  /\ retries' = [retries EXCEPT ![f] = 0]

(* The first awaits of a click on send or on compact: isSending is not set. *)
Window == {"processing", "measuring"}
Race ==
  /\ raced' = (raced \/ \E f \in Flows : at[f] \in Window)
  /\ raced' => Overlap

(* What the boundary checks ask for: a queued message hides a stop.         *)
Boundary == IF queue # << >> THEN "queued"
            ELSE IF stop THEN "stopped" ELSE ""

(* Mutant: a queued message goes before the code of the reply.              *)
BoundaryUnmasked(kind) == Boundary

(* resolveOnscreenAgentBoundaryAfterAssistantResponse: code runs first.     *)
BoundaryAfter(kind) ==
  IF Boundary = "queued" /\ kind = "code" THEN "" ELSE Boundary

(* Mutant: the message is always appended.                                  *)
RequestedTwice(h, item) == Append(h, item)

(* requestMessages: the history, with the message unless it is its last.    *)
Requested(h, item) ==
  IF h # << >> /\ h[Len(h)] = item THEN h ELSE Append(h, item)

(* Bounds: clicks of the user and awaits that throw are counted.            *)
Clicked ==
  clicks < MaxClicks /\ clicks' = clicks + 1 /\ UNCHANGED <<codes, faults>>
Fault ==
  faults < MaxFaults /\ faults' = faults + 1 /\ UNCHANGED <<codes, clicks>>

(* The reply of f settles as an item, in place.                             *)
Settled(h, f, kind) ==
  [i \in DOMAIN h |-> IF h[i] = Open(f) THEN It(kind) ELSE h[i]]
-----------------------------------------------------------------------------
(* Saving the history.                                                      *)

(* Mutant: a snapshot that finds a save under way is not kept for it.       *)
PersistUnqueued(f, h, place) ==
  /\ Go(f, "saving")
  /\ after' = [after EXCEPT ![f] = place]
  /\ saving' = IF saving = Nothing THEN h ELSE saving
  /\ UNCHANGED <<pending, stored, unsaved>>

(* persistHistory({immediate: true}) of h by flow f, which then waits.      *)
Persist(f, h, place) ==
  /\ Go(f, "saving")
  /\ after' = [after EXCEPT ![f] = place]
  /\ IF saving = Nothing THEN saving' = h /\ UNCHANGED pending
                         ELSE pending' = h /\ UNCHANGED saving
  /\ UNCHANGED <<stored, unsaved>>

Place(f) == IF at[f] = "saving" THEN after[f] ELSE at[f]
Released == [f \in Flows |-> Place(f)]

(* flushHistoryPersistence takes the pending snapshot, if there is one.     *)
TakePending == saving' = pending /\ pending' = Nothing

SaveDone ==
  /\ saving # Nothing
  /\ stored' = saving /\ unsaved' = FALSE
  /\ TakePending
  /\ at' = IF pending = Nothing THEN Released ELSE at
  /\ UNCHANGED <<userVars, flagVars, history, controller, after, next,
                 request, reply, retries, before, ghostVars, countVars>>

(* A failed save is reported and its snapshot is gone; who waited goes on.  *)
SaveFails ==
  /\ saving # Nothing
  /\ unsaved' = TRUE
  /\ TakePending
  /\ at' = Released
  /\ UNCHANGED <<userVars, flagVars, history, controller, after, next,
                 request, reply, retries, before, stored, ghostVars>>
  /\ Fault
-----------------------------------------------------------------------------
(* A series of submissions.                                                 *)

(* A turn of runConversationLoop begins: the request is put together.       *)
BeginTurn(f, item, h, n) ==
  /\ Go(f, "prepare")
  /\ next' = [next EXCEPT ![f] = item]
  /\ request' = [request EXCEPT ![f] = Requested(h, item)]
  /\ retries' = [retries EXCEPT ![f] = n]

(* consumeNextQueuedSubmissionMessage, and another conversation loop.       *)
Consume(f) ==
  /\ queue # << >>
  /\ queue' = Tail(queue)
  /\ BeginTurn(f, User(Head(queue)), history, 0)
  /\ UNCHANGED <<sending, controller>>

(* Mutant: a series that was stopped does not reset its flags.              *)
FinishStillSending(f) ==
  /\ Return(f)
  /\ stop' = stop /\ controller' = Nothing
  /\ sending' = stop
  /\ UNCHANGED queue

(* The finally of runSubmissionSeries.                                      *)
Finish(f) ==
  /\ Return(f)
  /\ sending' = FALSE /\ stop' = FALSE /\ controller' = Nothing
  /\ UNCHANGED queue

(* Mutant: a loop that completes ends its series.                           *)
EndLoopAtOnce(f, outcome) ==
  /\ \/ outcome = "queued" /\ Consume(f) /\ stop' = FALSE
     \/ outcome = "queued" /\ queue = << >> /\ Finish(f)
     \/ outcome \in {"complete", "stopped", "failed", "threw"} /\ Finish(f)
  /\ UNCHANGED <<draft, typed, after, reply, before>>

(* A conversation loop returned outcome, or threw, to its series.           *)
EndLoop(f, outcome) ==
  /\ \/ outcome = "queued" /\ Consume(f) /\ stop' = FALSE
     \/ outcome = "complete" /\ Consume(f) /\ UNCHANGED stop
     \/ outcome \in {"queued", "complete"} /\ queue = << >> /\ Finish(f)
     \/ outcome \in {"stopped", "failed", "threw"} /\ Finish(f)
  /\ UNCHANGED <<draft, typed, after, reply, before>>

(* A user's message whose turn ends before its request is not in the        *)
(* history, nor in the composer or the queue any more.                      *)
DropUnsent(f) ==
  /\ lost' = lost \union (UsersIn(<<next[f]>>) \ UsersIn(history))
  /\ UNCHANGED <<gone, raced>>

(* submitMessage, up to the end of createProcessedMessage.                  *)
Submit(f) ==
  /\ ~sending /\ draft # Nothing
  /\ Go(f, "processing")
  /\ next' = [next EXCEPT ![f] = User(draft)]
  /\ Race
  /\ UNCHANGED <<userVars, flagVars, history, controller, after, request,
                 reply, retries, before, saveVars, lost, gone, countVars>>

(* The composer is cleared, of what was typed meanwhile too, and the series *)
(* starts.                                                                  *)
Begin(f) ==
  /\ at[f] = "processing"
  /\ draft' = Nothing
  /\ lost' = lost \union ((Messages \intersect {draft}) \ {next[f].of})
  /\ sending' = TRUE /\ stop' = FALSE
  /\ BeginTurn(f, next[f], history, 0)
  /\ UNCHANGED <<queue, typed, compacting, history, controller, after, reply,
                 before, saveVars, gone, raced, countVars>>

(* preparePromptRequest fails, or the prompt is too large and there is no   *)
(* history to compact.                                                      *)
PrepareFails(f) ==
  /\ at[f] \in {"prepare", "again"}
  /\ DropUnsent(f)
  /\ EndLoop(f, "failed")
  /\ UNCHANGED <<compacting, history, saveVars>>
  /\ Fault

(* The prompt is too large: the history is compacted first.  A message that *)
(* was its last stands for itself no more.                                  *)
NeedsCompaction(f) ==
  /\ at[f] = "prepare"
  /\ history # << >>
  /\ Go(f, "compacting")
  /\ next' = [next EXCEPT ![f] = IF @ = history[Len(history)]
                                 THEN It("summary") ELSE @]
  /\ before' = [before EXCEPT ![f] = sending]
  /\ sending' = TRUE /\ compacting' = TRUE
  /\ UNCHANGED <<userVars, stop, history, controller, after, request, reply,
                 retries, saveVars, ghostVars, countVars>>

(* A boundary check comes before the request: the message of a turn that    *)
(* has not reached the model is given up for a queued one, or for a stop.   *)
GiveUpTurn(f) ==
  /\ at[f] \in {"prepare", "again"}
  /\ Boundary # ""
  /\ DropUnsent(f)
  /\ EndLoop(f, Boundary)
  /\ UNCHANGED <<compacting, history, saveVars, countVars>>

(* Mutant: the message of the request does not join the history.            *)
SendRequestWithoutMessage(f) ==
  /\ at[f] \in {"prepare", "again"}
  /\ Boundary = ""
  /\ history' = Append(history, Open(f))
  /\ Go(f, "starting")
  /\ UNCHANGED <<userVars, flagVars, controller, after, next, request, reply,
                 retries, before, saveVars, ghostVars, countVars>>

(* The request and an empty reply become the history.                       *)
SendRequest(f) ==
  /\ at[f] \in {"prepare", "again"}
  /\ Boundary = ""
  /\ history' = Append(request[f], Open(f))
  /\ Go(f, "starting")
  /\ UNCHANGED <<userVars, flagVars, controller, after, next, request, reply,
                 retries, before, saveVars, ghostVars, countVars>>

(* A local model may have to load before there is a request to abort.       *)
StartStream(f) ==
  /\ at[f] = "starting"
  /\ controller' = f
  /\ Go(f, "streaming")
  /\ UNCHANGED <<userVars, flagVars, history, after, next, request, reply,
                 retries, before, saveVars, ghostVars, countVars>>

LetGo(f) == controller' = IF controller = f THEN Nothing ELSE controller

(* The reply is complete, even when an abort came too late.                 *)
StreamDone(f, kind) ==
  /\ at[f] \in {"streaming", "aborting"}
  /\ kind = "code" => codes < MaxCode
  /\ codes' = IF kind = "code" THEN codes + 1 ELSE codes
  /\ LetGo(f)
  /\ reply' = [reply EXCEPT ![f] = kind]
  /\ history' = Settled(history, f, kind)
  /\ Persist(f, history', "answered")
  /\ UNCHANGED <<userVars, flagVars, next, request, retries, before,
                 ghostVars, clicks, faults>>

(* The stream ends early, or what follows it throws: what has come is kept, *)
(* and an empty reply is not; before the stream there is nothing to keep,   *)
(* nor a controller of f to let go.  Code in it is not executed.            *)
CutShort(f, place) ==
  /\ LetGo(f)
  /\ \/ at[f] # "starting" /\ history' = Settled(history, f, "cut")
     \/ history' = request[f]
  /\ Persist(f, history', place)
  /\ UNCHANGED <<userVars, flagVars, next, request, reply, retries, before,
                 ghostVars>>

StreamAborted(f) == at[f] = "aborting" /\ stop /\ CutShort(f, "stopped") /\ UNCHANGED countVars

(* A failure, of the local model's runtime too, or an abort that no stop    *)
(* asked for.                                                               *)
StreamFails(f) ==
  /\ at[f] \in {"starting", "streaming", "aborting"}
  /\ CutShort(f, "threw")
  /\ Fault

Stopped(f) ==
  /\ at[f] = "stopped"
  /\ EndLoop(f, IF Boundary = "" THEN "stopped" ELSE Boundary)
  /\ UNCHANGED <<compacting, history, saveVars, ghostVars, countVars>>

Threw(f) ==
  /\ at[f] = "threw"
  /\ EndLoop(f, "threw")
  /\ UNCHANGED <<compacting, history, saveVars, ghostVars, countVars>>

(* A reply came whole: end here, try again, or execute its code.            *)
EndAnswered(f) ==
  /\ at[f] = "answered"
  /\ BoundaryAfter(reply[f]) # ""
  /\ EndLoop(f, BoundaryAfter(reply[f]))
  /\ UNCHANGED <<compacting, history, saveVars, ghostVars, countVars>>

RetryEmpty(f) ==
  /\ at[f] = "answered"
  /\ BoundaryAfter(reply[f]) = ""
  /\ reply[f] = "empty"
  /\ retries[f] < MaxRetries
  /\ retries' = [retries EXCEPT ![f] = @ + 1]
  /\ history' = request[f]
  /\ Persist(f, history', "retry")
  /\ UNCHANGED <<userVars, flagVars, controller, next, request, reply, before,
                 ghostVars, countVars>>

(* The first time the same request, then one that asks for content.         *)
Retry(f) ==
  /\ at[f] = "retry"
  /\ BeginTurn(f, IF retries[f] = 1 THEN next[f] ELSE It("retry"),
               history, retries[f])
  /\ UNCHANGED <<userVars, flagVars, history, controller, after, reply, before,
                 saveVars, ghostVars, countVars>>

(* "[No content returned]" stands for the reply.                            *)
GiveUpEmpty(f) ==
  /\ at[f] = "answered"
  /\ BoundaryAfter(reply[f]) = ""
  /\ reply[f] = "empty"
  /\ retries[f] >= MaxRetries
  /\ Persist(f, history, "complete")
  /\ UNCHANGED <<userVars, flagVars, history, controller, next, request, reply,
                 retries, before, ghostVars, countVars>>

Execute(f) ==
  /\ at[f] = "answered"
  /\ BoundaryAfter(reply[f]) = ""
  /\ reply[f] # "empty"
  /\ Go(f, "executing")
  /\ UNCHANGED <<userVars, flagVars, history, controller, after, next, request,
                 reply, retries, before, saveVars, ghostVars, countVars>>

(* There was nothing to execute, or the reply stayed empty.                 *)
Complete(f) ==
  /\ \/ at[f] = "complete"
     \/ at[f] = "executing" /\ reply[f] # "code"
  /\ EndLoop(f, "complete")
  /\ UNCHANGED <<compacting, history, saveVars, ghostVars, countVars>>

(* evaluateOnscreenAssistantMessage is a seam that may throw.               *)
ExecuteThrows(f) ==
  /\ at[f] = "executing"
  /\ EndLoop(f, "threw")
  /\ UNCHANGED <<compacting, history, saveVars, ghostVars>>
  /\ Fault

ExecuteDone(f) ==
  /\ at[f] = "executing" /\ reply[f] = "code"
  /\ history' = Append(history, It("output"))
  /\ Persist(f, history', "output")
  /\ UNCHANGED <<userVars, flagVars, controller, next, request, reply, retries,
                 before, ghostVars, countVars>>

EndAfterOutput(f) ==
  /\ at[f] = "output"
  /\ Boundary # ""
  /\ EndLoop(f, Boundary)
  /\ UNCHANGED <<compacting, history, saveVars, ghostVars, countVars>>

SendOutput(f) ==
  /\ at[f] = "output"
  /\ Boundary = ""
  /\ BeginTurn(f, It("output"), history, 0)
  /\ UNCHANGED <<userVars, flagVars, history, controller, after, reply, before,
                 saveVars, ghostVars, countVars>>
-----------------------------------------------------------------------------
(* Compaction, by the series or by a click; a click has no next message.    *)
ClickCompact(f) ==
  /\ ~sending /\ ~compacting /\ history # << >>
  /\ Go(f, "measuring")
  /\ next' = [next EXCEPT ![f] = NoItem]
  /\ Race
  /\ UNCHANGED <<userVars, flagVars, history, controller, after, request,
                 reply, retries, before, saveVars, lost, gone>>
  /\ Clicked

(* refreshHistoryMetrics is over: isSending is not looked at again.         *)
StartCompaction(f) ==
  /\ at[f] = "measuring" /\ history # << >>
  /\ Go(f, "compacting")
  /\ before' = [before EXCEPT ![f] = sending]
  /\ sending' = TRUE /\ compacting' = TRUE
  /\ UNCHANGED <<userVars, stop, history, controller, after, next, request,
                 reply, retries, saveVars, ghostVars, countVars>>

(* It fails, or there is no history left.                                   *)
MeasureFails(f) ==
  /\ at[f] = "measuring"
  /\ Go(f, "idle")
  /\ UNCHANGED <<userVars, flagVars, history, controller, after, next, request,
                 reply, retries, before, saveVars, ghostVars>>
  /\ Fault

(* The summary replaces the whole history.                                  *)
CompactionDone(f) ==
  /\ at[f] = "compacting"
  /\ gone' = gone \union UsersIn(history)
  /\ history' = <<It("summary")>>
  /\ Persist(f, history', "compacted")
  /\ UNCHANGED <<userVars, flagVars, controller, next, request, reply, retries,
                 before, lost, raced, countVars>>

(* Mutant: compaction leaves the page idle.                                 *)
CompactedIdle(f) ==
  /\ at[f] = "compacted"
  /\ compacting' = FALSE /\ sending' = FALSE
  /\ IF next[f] = NoItem
     THEN Go(f, "idle") /\ UNCHANGED request
     ELSE /\ Go(f, "again")
          /\ request' = [request EXCEPT ![f] = Requested(history, next[f])]
  /\ UNCHANGED <<userVars, stop, history, controller, after, next, reply,
                 retries, before, saveVars, ghostVars, countVars>>

(* The finally of compactHistory, and the second half of the turn.          *)
Compacted(f) ==
  /\ at[f] = "compacted"
  /\ compacting' = FALSE /\ sending' = before[f]
  /\ IF next[f] = NoItem
     THEN Go(f, "idle") /\ UNCHANGED request
     ELSE /\ Go(f, "again")
          /\ request' = [request EXCEPT ![f] = Requested(history, next[f])]
  /\ UNCHANGED <<userVars, stop, history, controller, after, next, reply,
                 retries, before, saveVars, ghostVars, countVars>>

CompactionFails(f) ==
  /\ at[f] = "compacting"
  /\ compacting' = FALSE
  /\ IF next[f] = NoItem
     THEN /\ Go(f, "idle") /\ sending' = before[f]
          /\ UNCHANGED <<userVars, stop, controller, after, next, request,
                         reply, retries, before, ghostVars>>
     ELSE DropUnsent(f) /\ EndLoop(f, "failed")
  /\ UNCHANGED <<history, saveVars>>
  /\ Fault
-----------------------------------------------------------------------------
(* The user.                                                                *)
Type(m) ==
  /\ draft = Nothing /\ m = typed + 1
  /\ draft' = m /\ typed' = m
  /\ UNCHANGED <<queue, flagVars, history, controller, flowVars, saveVars,
                 ghostVars, countVars>>

(* queueDraftSubmission, while the composer is enabled.                     *)
QueueDraft ==
  /\ sending /\ ~compacting /\ draft # Nothing
  /\ queue' = Append(queue, draft)
  /\ draft' = Nothing
  /\ UNCHANGED <<typed, flagVars, history, controller, flowVars, saveVars,
                 ghostVars, countVars>>

(* The button stops only with an empty composer and nothing queued.         *)
RequestStop ==
  /\ sending /\ ~compacting /\ draft = Nothing /\ queue = << >>
  /\ stop' = TRUE
  /\ at' = [f \in Flows |-> IF f = controller /\ at[f] = "streaming"
                            THEN "aborting" ELSE at[f]]
  /\ UNCHANGED <<userVars, sending, compacting, history, controller, after,
                 next, request, reply, retries, before, saveVars, ghostVars,
                 countVars>>

(* handleClearClick, up to the refresh of the prompt ...                    *)
ClickClear(f) ==
  /\ ~sending /\ ~compacting /\ history # << >>
  /\ draft' = Nothing /\ queue' = << >> /\ history' = << >>
  /\ stop' = FALSE /\ controller' = Nothing
  /\ at' = [g \in Flows |-> IF g = f THEN "clearing"
                            ELSE IF g = controller THEN "aborting" ELSE at[g]]
  /\ gone' = gone \union (Messages \intersect {draft}) \union UsersIn(history)
                  \union {queue[i] : i \in DOMAIN queue}
  /\ Race
  /\ UNCHANGED <<typed, sending, compacting, after, next, request, reply,
                 retries, before, saveVars, lost>>
  /\ Clicked

(* ... and the save of what the history is by then.                         *)
Clear(f) ==
  /\ at[f] = "clearing"
  /\ Persist(f, history, "idle")
  /\ UNCHANGED <<userVars, flagVars, history, controller, next, request, reply,
                 retries, before, ghostVars, countVars>>

(* A rerun of the code of a reply, beside any series.                       *)
ClickRerun(f) ==
  /\ ~sending /\ \E i \in DOMAIN history : history[i] = It("code")
  /\ sending' = TRUE
  /\ Go(f, "rerunning")
  /\ Race
  /\ UNCHANGED <<userVars, stop, compacting, history, controller, after, next,
                 request, reply, retries, before, saveVars, lost, gone>>
  /\ Clicked

RerunEnds(f) ==
  /\ at[f] = "rerunning"
  /\ sending' = FALSE
  /\ Go(f, "idle")
  /\ UNCHANGED <<userVars, stop, compacting, history, controller, after, next,
                 request, reply, retries, before, saveVars, ghostVars, countVars>>
-----------------------------------------------------------------------------
Init ==
  /\ draft = Nothing /\ queue = << >> /\ typed = 0
  /\ sending = FALSE /\ stop = FALSE /\ compacting = FALSE
  /\ history = << >> /\ controller = Nothing
  /\ at = [f \in Flows |-> "idle"] /\ after = [f \in Flows |-> "idle"]
  /\ next = [f \in Flows |-> NoItem] /\ request = [f \in Flows |-> << >>]
  /\ reply = [f \in Flows |-> "none"] /\ retries = [f \in Flows |-> 0]
  /\ before = [f \in Flows |-> FALSE]
  /\ pending = Nothing /\ saving = Nothing /\ stored = << >>
  /\ unsaved = FALSE
  /\ lost = {} /\ gone = {} /\ raced = FALSE
  /\ codes = 0 /\ clicks = 0 /\ faults = 0

(* What a flow does next once the await it stands at is over.               *)
Turn(f) ==
  \/ Begin(f) \/ PrepareFails(f) \/ NeedsCompaction(f) \/ GiveUpTurn(f)
  \/ SendRequest(f) \/ StartStream(f)
  \/ \E kind \in {"text", "code", "empty"} : StreamDone(f, kind)
  \/ StreamAborted(f) \/ StreamFails(f) \/ Stopped(f) \/ Threw(f)
  \/ EndAnswered(f) \/ RetryEmpty(f) \/ Retry(f) \/ GiveUpEmpty(f)
  \/ Execute(f) \/ Complete(f) \/ ExecuteThrows(f) \/ ExecuteDone(f)
  \/ EndAfterOutput(f) \/ SendOutput(f)
  \/ StartCompaction(f) \/ MeasureFails(f) \/ CompactionDone(f)
  \/ Compacted(f) \/ CompactionFails(f) \/ Clear(f) \/ RerunEnds(f)

(* Which flow a new call is does not matter.                                *)
Click(f) ==
  /\ at[f] = "idle" /\ f = CHOOSE g \in Flows : at[g] = "idle"
  /\ Submit(f) \/ ClickCompact(f) \/ ClickClear(f) \/ ClickRerun(f)

Save == SaveDone \/ SaveFails

Next ==
  \/ \E m \in Messages : Type(m)
  \/ QueueDraft \/ RequestStop
  \/ Save
  \/ \E f \in Flows : Turn(f) \/ Click(f)

Spec == Init /\ [][Next]_vars

(* Awaits end: streams, executions and saves finish or fail.  The user does *)
(* not have to do anything.                                                 *)
Fairness == WF_vars(Save) /\ \A f \in Flows : WF_vars(Turn(f))

FairSpec == Spec /\ Fairness
-----------------------------------------------------------------------------
(* The variables keep their types; what a save waits with is never a flow   *)
(* that goes on to wait for another save.                                   *)
TypeOK ==
  /\ draft \in Messages \union {Nothing} /\ queue \in Seq(Messages)
  /\ typed \in Nat
  /\ sending \in BOOLEAN /\ stop \in BOOLEAN /\ compacting \in BOOLEAN
  /\ history \in Seq(Item)
  /\ controller \in Flows \union {Nothing}
  /\ at \in [Flows -> Places] /\ after \in [Flows -> Places \ {"saving"}]
  /\ next \in [Flows -> Item] /\ request \in [Flows -> Seq(Item)]
  /\ reply \in [Flows -> Kinds] /\ retries \in [Flows -> 0..MaxRetries]
  /\ before \in [Flows -> BOOLEAN]
  /\ pending \in Seq(Item) \union {Nothing}
  /\ saving \in Seq(Item) \union {Nothing}
  /\ stored \in Seq(Item) /\ unsaved \in BOOLEAN
  /\ lost \in SUBSET Messages /\ gone \in SUBSET Messages
  /\ raced \in BOOLEAN /\ codes \in Nat
  /\ clicks \in Nat /\ faults \in Nat

Busy(f) == Place(f) \notin {"idle", "clearing"} \union Window

(* isSending says that a series, a compaction or a rerun is under way, and  *)
(* never more than one is, unless one began in another's first awaits.      *)
OneAtATime ==
  ~raced => /\ sending = \E f \in Flows : Busy(f)
            /\ \A f, g \in Flows : Busy(f) /\ Busy(g) => f = g

(* The messages a flow still has to send.                                   *)
Carried == {m \in Messages : \E f \in Flows :
              at[f] \in {"processing", "prepare", "again", "compacting",
                         "compacted", "saving", "retry"}
              /\ next[f] = User(m)}

(* Whatever the user typed is in the composer, in the queue, in a turn or   *)
(* in the history, but for what was cleared, summarised, or given up        *)
(* before its request.                                                      *)
MessagesKept ==
  ~raced => 1..typed \subseteq lost \union gone \union {draft} \union Carried
                            \union UsersIn(history)
                            \union {queue[i] : i \in DOMAIN queue}

(* A message is asked of the model once: it is in the history once, and not *)
(* in the queue or the composer any more.                                   *)
AskedOnce ==
  ~raced =>
    /\ \A i, j \in DOMAIN history :
         history[i].kind = "user" /\ history[i] = history[j] => i = j
    /\ UsersIn(history) \intersect {queue[i] : i \in DOMAIN queue} = {}
    /\ draft \notin UsersIn(history)

(* When all is quiet the file holds the history, unless its save failed.    *)
StoredWhenQuiet ==
  ~raced /\ ~unsaved /\ (\A f \in Flows : at[f] = "idle")
    => saving = Nothing /\ stored = history

(* A queued message is taken behind the output of a reply's code: the end   *)
(* of the history is no code that is still to be executed.  A turn that is  *)
(* given up before its request may stand behind code that was cut off by an *)
(* earlier series.                                                          *)
QueuedAfterOutput ==
  [][\A f \in Flows :
       /\ ~raced /\ Len(queue') < Len(queue)
       /\ at[f] \notin {"prepare", "again"} /\ at'[f] = "prepare"
       => history = << >> \/ history[Len(history)] # It("code")]_vars

(* A series that ends by itself leaves no message in the queue.             *)
SeriesDrainsQueue ==
  [][\A f \in Flows :
       /\ at[f] \in {"complete", "stopped", "output", "answered"}
       /\ at'[f] = "idle"
       => queue' = << >>]_vars

(* A stop is answered by the end of what runs, or by a queued message.      *)
StopIsAnswered == (stop /\ sending) ~> (~stop \/ ~sending)
=============================================================================
