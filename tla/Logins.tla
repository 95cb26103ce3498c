-------------------------------- MODULE Logins --------------------------------
(***************************************************************************)
(* The logins, sessions, password and browser-held key of one user.        *)
(*                                                                         *)
(*   server/lib/auth/service.js      challenges, logins, sessions          *)
(*   server/lib/auth/user_manage.js  a new password, by the user or an     *)
(*                                   administrator's command               *)
(*   server/lib/auth/user_crypto.js  the wrapped key and the server's share*)
(*   server/runtime/state_system.js  entries taken once                    *)
(*   app/.../user_crypto/user-crypto.js, server/pages/res/public-login.js  *)
(*                                   what the browser keeps and sends      *)
(*                                                                         *)
(* A handler's work on the files has no await in it: it is one turn of its *)
(* process.  With a cluster the turns of two workers interleave between    *)
(* two file operations, and so does the user command, a process of its own.*)
(* The model takes one file operation per step and forbids two turns at    *)
(* once in one process.                                                    *)
(*                                                                         *)
(* A password is the number of the verifier made from it; a session, a key *)
(* and a share are named after the challenge they came with, which is fresh*)
(* for every login.  The cryptography is reduced to what it needs: a record*)
(* opens with the password and the share it was wrapped with.              *)
(*                                                                         *)
(* Bounds: Challenges, Requests (requests under way at once), MaxPasswords *)
(* changes of the password, MaxFaults faults (a process that ends, a       *)
(* request sent again, a restart that may lose the share's file).          *)
(***************************************************************************)
EXTENDS Naturals

CONSTANTS
  Browsers, Challenges, Requests,
  Workers, First,   \* server processes, and the one there is without a cluster
  None, Legacy,     \* no key or share; the key of before there were sealed copies
  Settings,         \* pairs: WORKERS > 1, CUSTOMWARE_PATH a launch argument
  MaxPasswords, MaxFaults

ASSUME LoginsAssumption ==
  /\ Settings \subseteq BOOLEAN \X BOOLEAN
  /\ First \in Workers /\ "command" \notin Workers
  /\ None \notin Challenges \union {Legacy} /\ Legacy \notin Challenges
  /\ None \notin Browsers
  /\ MaxPasswords \in Nat /\ MaxFaults \in Nat

VARIABLES
  clustered,   \* WORKERS > 1
  relocated,   \* CUSTOMWARE_PATH is a launch argument, not in the environment
  challenges,  \* the area login_challenge: challenge -> what it recorded
  fresh,       \* challenges no one has asked for yet
  verifier,    \* meta/password.json
  logins,      \* meta/logins.json
  record,      \* meta/user_crypto.json
  share,       \* server/data/user_crypto/<username>.json
  browser,     \* what a browser holds
  req,         \* requests under way
  issued,      \* passwords made so far
  live,        \* ghost: sessions begun and not ended
  proven,      \* ghost: session -> the verifier its login was checked with
  used,        \* ghost: challenge -> logins it completed
  found,       \* ghost: challenge -> a record was there when it was asked for
  keyless,     \* ghost: logins before a key was written over an invalidated one
  harm,        \* ghost: what the properties except, below
  faults       \* counter of the bound

fileVars == <<verifier, logins, record, share>>
ghostVars == <<live, proven, used, found, keyless, harm>>
vars == <<clustered, relocated, challenges, fresh, verifier, logins, record, share,
          browser, req, issued, live, proven, used, found, keyless,
          harm, faults>>
setting  == <<clustered, relocated>>
-----------------------------------------------------------------------------
Keys      == Challenges \union {Legacy}
Processes == Workers \union {"command"}
Passwords == 0..MaxPasswords

(* "overlap": two processes had a turn at the files at once; "torn": one    *)
(* ended within a change of the password; "replaced": a login wrote a first *)
(* key over another.                                                        *)
Harms == {"overlap", "torn", "replaced"}

NoRecord == [status |-> "none", key |-> None, pw |-> 0, share |-> None,
             sealed |-> None]
Ready(k, pw, s, sealed) ==
  [status |-> "ready", key |-> k, pw |-> pw, share |-> s, sealed |-> sealed]
Invalidated(k) == [NoRecord EXCEPT !.status = "invalidated", !.key = k]

Free == [step |-> "free", op |-> "login", by |-> None, at |-> First,
         chal |-> None, missing |-> FALSE, pw |-> 0, new |-> 0,
         key |-> None, share |-> None, seen |-> {}, heard |-> FALSE]

Out == [at |-> "out", chal |-> None, missing |-> FALSE, pw |-> 0,
        key |-> None, share |-> None]
In(c, k, s) == [at |-> "in", chal |-> c, missing |-> FALSE, pw |-> 0,
                key |-> k, share |-> s]

(* The steps within a turn; a request at "sent" or "taken" awaits.          *)
Turn == {"record", "share", "sessions", "save", "answer", "password", "end",
         "wrap", "forget", "invalidate"}
Inside(p) == \E q \in Requests : req[q].at = p /\ req[q].step \in Turn
Quiet == \A q \in Requests : req[q].step \notin Turn
Serving(p) == p = First \/ clustered

(* Entering a turn: no other in this process; in another it is an overlap.  *)
Harmed == IF Quiet THEN harm ELSE harm \union {"overlap"}

(* readUserCryptoServerShare: the file, or the copy sealed in the record.   *)
ServerShare(rec) ==
  IF share # None THEN share
  ELSE IF rec.status = "ready" THEN rec.sealed ELSE None

(* Mutant: a record without a share counts as missing.                      *)
StatusWithoutShare ==
  IF record.status = "invalidated" THEN "invalidated"
  ELSE IF record.status = "ready" /\ ServerShare(record) # None
  THEN "ready" ELSE "missing"

(* getUserCryptoState                                                       *)
Status ==
  IF record.status = "none" THEN "missing"
  ELSE IF record.status = "ready" /\ ServerShare(record) # None
  THEN "ready" ELSE "invalidated"

Step(q, step) == req' = [req EXCEPT ![q].step = step]
Sent(q, r) == req[q] = Free /\ req' = [req EXCEPT ![q] = r]
Done(q) == [req EXCEPT ![q] = Free]

Init ==
  /\ \E s \in Settings : clustered = s[1] /\ relocated = s[2]
  /\ challenges = [c \in Challenges |-> "none"] /\ fresh = Challenges
  /\ verifier = 0 /\ logins = {}
  /\ \/ record = NoRecord /\ share = None
     \/ record = Ready(Legacy, 0, Legacy, None) /\ share = Legacy
  /\ browser = [b \in Browsers |-> Out]
  /\ req = [q \in Requests |-> Free]
  /\ issued = 0 /\ live = {} /\ proven = [c \in Challenges |-> 0]
  /\ used = [c \in Challenges |-> 0] /\ found = [c \in Challenges |-> FALSE]
  /\ keyless = {} /\ harm = {} /\ faults = 0
-----------------------------------------------------------------------------
(* createLoginChallenge, in one step: what it recorded is as good as stale. *)
AskChallenge(b, c, p) ==
  /\ browser[b].at = "out" /\ \A q \in Requests : req[q].by # b
  /\ c \in fresh /\ Serving(p) /\ ~Inside(p)
  /\ fresh' = fresh \ {c}
  /\ challenges' = [challenges EXCEPT
                      ![c] = IF Status = "missing" THEN "missing" ELSE "kept"]
  /\ browser' = [browser EXCEPT
                   ![b] = [Out EXCEPT !.at = "asked", !.chal = c, !.pw = verifier,
                                      !.missing = (Status = "missing")]]
  /\ found' = [found EXCEPT ![c] = record.status # "none"]
  /\ UNCHANGED <<setting, fileVars, req, issued, live, proven, used, keyless,
                 harm, faults>>

LoginRequest(b, p) ==
  [Free EXCEPT !.step = "sent", !.op = "login", !.by = b, !.at = p,
               !.chal = browser[b].chal, !.pw = browser[b].pw, !.heard = TRUE]

(* loginWithPassword: the proof and, when a record is missing, a first one. *)
SendLogin(b, q, p) ==
  /\ browser[b].at = "asked" /\ \A o \in Requests : req[o].by # b
  /\ Serving(p) /\ Sent(q, LoginRequest(b, p))
  /\ UNCHANGED <<setting, challenges, fresh, fileVars, browser, issued,
                 ghostVars, faults>>

(* The connection broke and the request is sent again: the first answer is  *)
(* not heard.                                                               *)
ResendLogin(b, q, o, p) ==
  /\ faults < MaxFaults /\ faults' = faults + 1
  /\ req[o].by = b /\ req[o].op = "login" /\ req[o].heard
  /\ Serving(p) /\ req[q] = Free
  /\ req' = [req EXCEPT ![o].heard = FALSE, ![q] = LoginRequest(b, p)]
  /\ UNCHANGED <<setting, challenges, fresh, fileVars, browser, issued, ghostVars>>

Expire(c) ==
  /\ challenges[c] # "none"
  /\ challenges' = [challenges EXCEPT ![c] = "none"]
  /\ UNCHANGED <<setting, fresh, fileVars, browser, req, issued, ghostVars, faults>>

(* The browser is told that its login failed.                               *)
Refuse(q) ==
  /\ req' = Done(q)
  /\ browser' = IF req[q].heard
                THEN [browser EXCEPT ![req[q].by] = Out] ELSE browser

(* Mutant: the challenge is read and stays.                                 *)
PeekChallenge(q) ==
  /\ req[q].step = "sent" /\ req[q].op = "login"
  /\ IF challenges[req[q].chal] = "none"
     THEN Refuse(q) /\ UNCHANGED challenges
     ELSE /\ UNCHANGED <<browser, challenges>>
          /\ req' = [req EXCEPT ![q].step = "taken",
                      ![q].missing = (challenges[req[q].chal] = "missing")]
  /\ UNCHANGED <<setting, fresh, fileVars, issued, ghostVars, faults>>

(* completeLogin: takeEntry in the primary, then the awaits.                *)
TakeChallenge(q) ==
  /\ req[q].step = "sent" /\ req[q].op = "login"
  /\ IF challenges[req[q].chal] = "none"
     THEN Refuse(q) /\ UNCHANGED challenges
     ELSE /\ challenges' = [challenges EXCEPT ![req[q].chal] = "none"]
          /\ UNCHANGED browser
          /\ req' = [req EXCEPT ![q].step = "taken",
                      ![q].missing = (challenges[req[q].chal] = "missing")]
  /\ UNCHANGED <<setting, fresh, fileVars, issued, ghostVars, faults>>

(* Mutant: the proof is checked against the verifier of the challenge.      *)
VerifyOld(q) ==
  /\ req[q].step = "taken" /\ ~Inside(req[q].at)
  /\ harm' = Harmed
  /\ proven' = [proven EXCEPT ![req[q].chal] = req[q].pw]
  /\ Step(q, IF req[q].missing THEN "record" ELSE "sessions")
  /\ UNCHANGED browser
  /\ UNCHANGED <<setting, challenges, fresh, fileVars, issued, live, used, found,
                 keyless, faults>>

(* verifyLoginProof against the password of now                             *)
Verify(q) ==
  /\ req[q].step = "taken" /\ ~Inside(req[q].at)
  /\ IF req[q].pw # verifier
     THEN Refuse(q) /\ UNCHANGED <<harm, proven>>
     ELSE /\ harm' = Harmed
          /\ proven' = [proven EXCEPT ![req[q].chal] = verifier]
          /\ req' = [req EXCEPT
                      ![q].step = IF req[q].missing THEN "record" ELSE "sessions",
                      ![q].missing = FALSE]
          /\ UNCHANGED browser
  /\ UNCHANGED <<setting, challenges, fresh, fileVars, issued, live, used, found,
                 keyless, faults>>

(* provisionUserCrypto writes the record, with the share sealed in it, then *)
(* the share's file.                                                        *)
WriteRecord(q) ==
  LET c == req[q].chal
  IN /\ req[q].step = "record" /\ Step(q, "share")
     /\ record' = Ready(c, req[q].pw, c, c)
     /\ harm' = IF record.status = "ready" THEN harm \union {"replaced"} ELSE harm
     /\ keyless' = keyless \union
                     (IF record.status = "invalidated" THEN logins ELSE {})
     /\ UNCHANGED <<setting, challenges, fresh, verifier, logins, share, browser,
                    issued, live, proven, used, found, faults>>

WriteShare(q) ==
  /\ req[q].step = "share" /\ Step(q, "sessions")
  /\ share' = req[q].chal
  /\ UNCHANGED <<setting, challenges, fresh, verifier, logins, record, browser,
                 issued, ghostVars, faults>>

ReadSessions(q) ==
  /\ req[q].step = "sessions"
  /\ req' = [req EXCEPT ![q].step = "save", ![q].seen = logins]
  /\ UNCHANGED <<setting, challenges, fresh, fileVars, browser, issued,
                 ghostVars, faults>>

(* Mutant: a login writes its own session only.                             *)
SaveOwnSession(q) ==
  LET c == req[q].chal
  IN /\ req[q].step = "save" /\ req[q].op = "login"
     /\ req' = [req EXCEPT ![q].step = "answer", ![q].seen = {}]
     /\ logins' = {c} /\ live' = live \union {c}
     /\ used' = [used EXCEPT ![c] = @ + 1]
     /\ UNCHANGED <<setting, challenges, fresh, verifier, record, share, browser,
                    issued, proven, found, keyless, harm, faults>>

(* persistSessionForUser rewrites all sessions with the new one.            *)
SaveSession(q) ==
  LET c == req[q].chal
  IN /\ req[q].step = "save" /\ req[q].op = "login"
     /\ req' = [req EXCEPT ![q].step = "answer", ![q].seen = {}]
     /\ logins' = req[q].seen \union {c} /\ live' = live \union {c}
     /\ used' = [used EXCEPT ![c] = @ + 1]
     /\ UNCHANGED <<setting, challenges, fresh, verifier, record, share, browser,
                    issued, proven, found, keyless, harm, faults>>

(* buildLoginUserCryptoPayload looks for the record where CUSTOMWARE_PATH   *)
(* of the environment says, if the share's file is not there.               *)
SharePayload ==
  IF relocated /\ share = None THEN None ELSE ServerShare(record)

Opens(pw, s) == record.status = "ready" /\ record.pw = pw /\ record.share = s

(* The browser keeps the key it can unwrap, and the session in any case.    *)
Answer(q) ==
  /\ req[q].step = "answer" /\ req' = Done(q)
  /\ browser' =
       IF ~req[q].heard THEN browser
       ELSE [browser EXCEPT ![req[q].by] =
               IF Status = "ready" /\ Opens(req[q].pw, SharePayload)
               THEN In(req[q].chal, record.key, SharePayload)
               ELSE In(req[q].chal, None, None)]
  /\ UNCHANGED <<setting, challenges, fresh, fileVars, issued, ghostVars, faults>>
-----------------------------------------------------------------------------
Idle(b) == \A q \in Requests : req[q].by # b

(* /logout, by the user or by a page whose key is not the record's.         *)
SendLogout(b, q, p) ==
  /\ browser[b].at = "in" /\ Idle(b) /\ Serving(p)
  /\ Sent(q, [Free EXCEPT !.step = "sent", !.op = "logout", !.by = b, !.at = p,
                          !.chal = browser[b].chal, !.heard = TRUE])
  /\ UNCHANGED <<setting, challenges, fresh, fileVars, browser, issued,
                 ghostVars, faults>>

BeginRevoke(q) ==
  /\ req[q].step = "sent" /\ req[q].op = "logout" /\ ~Inside(req[q].at)
  /\ harm' = Harmed /\ Step(q, "sessions")
  /\ UNCHANGED <<setting, challenges, fresh, fileVars, browser, issued, live,
                 proven, used, found, keyless, faults>>

(* revokeSession: a session that is not there is none to write about.       *)
SaveRevoked(q) ==
  LET c == req[q].chal
  IN /\ req[q].step = "save" /\ req[q].op = "logout" /\ req' = Done(q)
     /\ logins' = IF c \in req[q].seen THEN req[q].seen \ {c} ELSE logins
     /\ live' = live \ {c}
     /\ browser' = [browser EXCEPT ![req[q].by] = Out]
     /\ UNCHANGED <<setting, challenges, fresh, verifier, record, share, issued,
                    proven, used, found, keyless, harm, faults>>

(* A page loads: its session has ended, or its key is of another record.    *)
Load(b) ==
  /\ browser[b].at = "in" /\ Idle(b)
  /\ \/ /\ browser[b].chal \notin logins
        /\ browser' = [browser EXCEPT ![b] = Out]
     \/ /\ browser[b].chal \in logins
        /\ browser[b].key \notin {None, record.key} /\ Status = "invalidated"
        /\ browser' = [browser EXCEPT ![b] = In(browser[b].chal, None, None)]
  /\ UNCHANGED <<setting, challenges, fresh, fileVars, req, issued, ghostVars,
                 faults>>
-----------------------------------------------------------------------------
NewPassword == issued < MaxPasswords /\ issued' = issued + 1

(* changeUserPassword: the browser wraps its key with the new password.     *)
SendChange(b, q, p) ==
  /\ browser[b].at = "in" /\ browser[b].chal \in logins
  /\ Idle(b) /\ Serving(p) /\ NewPassword
  /\ Sent(q, [Free EXCEPT !.step = "sent", !.op = "change", !.by = b, !.at = p,
                          !.chal = browser[b].chal, !.pw = verifier,
                          !.new = issued + 1, !.key = browser[b].key,
                          !.share = browser[b].share, !.heard = TRUE])
  /\ UNCHANGED <<setting, challenges, fresh, fileVars, browser, ghostVars, faults>>

(* changePassword: 401 for another password, 400 without the key rewrapped. *)
BeginChange(q) ==
  LET ready == Status = "ready"
  IN /\ req[q].step = "sent" /\ req[q].op = "change" /\ ~Inside(req[q].at)
     /\ IF req[q].pw # verifier \/ (ready /\ req[q].key = None)
        THEN req' = Done(q) /\ UNCHANGED harm
        ELSE /\ req' = [req EXCEPT ![q].step = "password", ![q].missing = ~ready]
             /\ harm' = Harmed
     /\ UNCHANGED <<setting, challenges, fresh, fileVars, browser, issued, live,
                    proven, used, found, keyless, faults>>

(* node space user password, in a process of its own                        *)
BeginReset(q) ==
  /\ NewPassword /\ ~Inside("command") /\ harm' = Harmed
  /\ Sent(q, [Free EXCEPT !.step = "password", !.op = "reset", !.at = "command",
                          !.new = issued + 1])
  /\ UNCHANGED <<setting, challenges, fresh, fileVars, browser, live, proven,
                 used, found, keyless, faults>>

(* setUserPassword: the verifier, then no sessions, then the record.        *)
WritePassword(q) ==
  /\ req[q].step = "password" /\ Step(q, "end")
  /\ verifier' = req[q].new
  /\ UNCHANGED <<setting, challenges, fresh, logins, record, share, browser,
                 issued, ghostVars, faults>>

AfterSessions(q) ==
  IF req[q].op = "reset" THEN "forget"
  ELSE IF req[q].missing THEN "free" ELSE "wrap"

(* Mutant: a new password leaves the sessions alone.                        *)
KeepSessions(q) ==
  /\ req[q].step = "end"
  /\ UNCHANGED <<logins, live>>
  /\ IF AfterSessions(q) = "free"
     THEN /\ req' = Done(q)
          /\ browser' = [browser EXCEPT ![req[q].by] = Out]
     ELSE Step(q, AfterSessions(q)) /\ UNCHANGED browser
  /\ UNCHANGED <<setting, challenges, fresh, verifier, record, share, issued,
                 proven, used, found, keyless, harm, faults>>

EndSessions(q) ==
  /\ req[q].step = "end"
  /\ logins' = {} /\ live' = {}
  /\ IF AfterSessions(q) = "free"
     THEN /\ req' = Done(q)
          /\ browser' = [browser EXCEPT ![req[q].by] = Out]
     ELSE Step(q, AfterSessions(q)) /\ UNCHANGED browser
  /\ UNCHANGED <<setting, challenges, fresh, verifier, record, share, issued,
                 proven, used, found, keyless, harm, faults>>

(* Mutant: the rewrapped record comes without the share sealed in it.       *)
WrapUnsealed(q) ==
  /\ req[q].step = "wrap" /\ req' = Done(q)
  /\ record' = Ready(req[q].key, req[q].new, req[q].share, None)
  /\ browser' = [browser EXCEPT ![req[q].by] = Out]
  /\ UNCHANGED <<setting, challenges, fresh, verifier, logins, share, issued,
                 ghostVars, faults>>

(* writeReadyUserCryptoRecord seals the share it finds, whatever the browser*)
(* wrapped its key with.                                                    *)
WrapRecord(q) ==
  /\ req[q].step = "wrap" /\ req' = Done(q)
  /\ record' = Ready(req[q].key, req[q].new, req[q].share, ServerShare(record))
  /\ browser' = [browser EXCEPT ![req[q].by] = Out]
  /\ UNCHANGED <<setting, challenges, fresh, verifier, logins, share, issued,
                 ghostVars, faults>>

(* invalidateUserCryptoRecord deletes the share, then the record's use; of  *)
(* an account without either it writes an invalidated record without a key: *)
(* the deletion is forced and never reports that there was nothing.         *)
ForgetShare(q) ==
  /\ req[q].step = "forget" /\ Step(q, "invalidate")
  /\ share' = None
  /\ UNCHANGED <<setting, challenges, fresh, verifier, logins, record, browser,
                 issued, ghostVars, faults>>

InvalidateRecord(q) ==
  /\ req[q].step = "invalidate" /\ req' = Done(q)
  /\ record' = Invalidated(record.key)
  /\ UNCHANGED <<setting, challenges, fresh, verifier, logins, share, browser,
                 issued, ghostVars, faults>>
-----------------------------------------------------------------------------
(* What browsers see of requests that end with their process: a login has   *)
(* failed, and another request has changed nothing they know of.            *)
Dropped(gone) ==
  /\ req' = [q \in Requests |-> IF q \in gone THEN Free ELSE req[q]]
  /\ browser' = [b \in Browsers |->
       IF \E q \in gone : req[q].by = b /\ req[q].heard /\ req[q].op = "login"
       THEN Out ELSE browser[b]]

(* A worker, the only server process or the command ends; the challenges    *)
(* are in the primary.                                                      *)
Crash(p) ==
  LET gone == {q \in Requests : req[q] # Free /\ req[q].at = p}
  IN /\ faults < MaxFaults /\ faults' = faults + 1 /\ gone # {}
     /\ Dropped(gone)
     /\ harm' = IF \E q \in gone : req[q].step \in {"end", "wrap", "forget", "invalidate"}
                THEN harm \union {"torn"} ELSE harm
     /\ challenges' = IF p = First /\ ~clustered
                      THEN [c \in Challenges |-> "none"] ELSE challenges
     /\ UNCHANGED <<setting, fresh, fileVars, issued, live, proven, used, found,
                    keyless>>

(* The server starts again, here or on another machine with the same user   *)
(* files and keys but not the shares' directory.                            *)
Restart ==
  /\ faults < MaxFaults /\ faults' = faults + 1 /\ Quiet
  /\ Dropped(Requests)
  /\ challenges' = [c \in Challenges |-> "none"]
  /\ share' \in {share, None}
  /\ UNCHANGED <<setting, fresh, verifier, logins, record, issued, ghostVars>>

Handle(q) ==
  \/ TakeChallenge(q) \/ Verify(q) \/ WriteRecord(q) \/ WriteShare(q)
  \/ ReadSessions(q) \/ SaveSession(q) \/ Answer(q)
  \/ BeginRevoke(q) \/ SaveRevoked(q)
  \/ BeginChange(q) \/ WritePassword(q) \/ EndSessions(q) \/ WrapRecord(q)
  \/ ForgetShare(q) \/ InvalidateRecord(q)

Next ==
  \/ \E b \in Browsers :
       \/ Load(b)
       \/ \E p \in Workers :
            \/ \E c \in Challenges : AskChallenge(b, c, p)
            \/ \E q \in Requests :
                 \/ SendLogin(b, q, p) \/ SendLogout(b, q, p) \/ SendChange(b, q, p)
                 \/ \E o \in Requests : ResendLogin(b, q, o, p)
  \/ \E c \in Challenges : Expire(c)
  \/ \E q \in Requests : BeginReset(q) \/ Handle(q)
  \/ \E p \in Processes : Crash(p)
  \/ Restart

Spec == Init /\ [][Next]_vars
-----------------------------------------------------------------------------
Records ==
  [status : {"none", "ready", "invalidated"}, key : Keys \union {None},
   pw : Passwords, share : Keys \union {None}, sealed : Keys \union {None}]
RequestType ==
  [step : Turn \union {"free", "sent", "taken"},
   op : {"login", "logout", "change", "reset"}, by : Browsers \union {None},
   at : Processes, chal : Challenges \union {None}, missing : BOOLEAN,
   pw : Passwords, new : Passwords, key : Keys \union {None},
   share : Keys \union {None}, seen : SUBSET Challenges, heard : BOOLEAN]
BrowserType ==
  [at : {"out", "asked", "in"}, chal : Challenges \union {None},
   missing : BOOLEAN, pw : Passwords, key : Keys \union {None},
   share : Keys \union {None}]

(* Every variable has the type its comment gives it.                        *)
TypeOK ==
  /\ {clustered, relocated} \subseteq BOOLEAN
  /\ challenges \in [Challenges -> {"none", "missing", "kept"}]
  /\ fresh \subseteq Challenges
  /\ verifier \in Passwords /\ logins \subseteq Challenges
  /\ record \in Records /\ share \in Keys \union {None}
  /\ browser \in [Browsers -> BrowserType] /\ req \in [Requests -> RequestType]
  /\ issued \in Passwords /\ live \subseteq Challenges
  /\ proven \in [Challenges -> Passwords]
  /\ used \in [Challenges -> 0..1] /\ found \in [Challenges -> BOOLEAN]
  /\ keyless \subseteq Challenges /\ harm \subseteq Harms
  /\ faults \in 0..MaxFaults

(* A challenge completes one login at most, whichever workers it is sent to,*)
(* and however often (service.js:814).                                      *)
ChallengeUsedOnce ==
  \A c \in Challenges :
    \/ used[c] = 0
    \/ used[c] = 1 /\ challenges[c] = "none"
       /\ \A q \in Requests : req[q].chal = c /\ req[q].op = "login" =>
            req[q].step \in {"free", "sent", "answer"}

(* While no two processes meet in the files, the sessions of the file are   *)
(* those begun and not ended: none is lost, none comes back.                *)
SessionsAreKept == "overlap" \in harm \/ logins = live

(* And none outlives the password it was begun with, unless the process     *)
(* ended within the change.                                                 *)
PasswordEndsSessions ==
  Quiet /\ harm \intersect {"overlap", "torn"} = {} =>
    \A c \in logins : proven[c] = verifier

(* The wrapped key opens with the password and the share of now, even after *)
(* a crash between the two files or a restart without the shares; without   *)
(* its share is only a record no code of today wrote.                       *)
KeyOpens ==
  Quiet /\ harm = {} /\ record.status = "ready" =>
    \/ Opens(verifier, ServerShare(record))
    \/ record.sealed = None /\ record.key = Legacy /\ share = None

(* Every browser that is logged in holds the key of the record, so what one *)
(* encrypts the others can read; none is locked out of a key that can be    *)
(* opened, unless CUSTOMWARE_PATH is a launch argument and the login found  *)
(* the share in the record only (service.js:614), or had logged in before a *)
(* first login asked for within a reset made the record ready again: such a *)
(* browser stays without a key, but never has another one.                  *)
BrowsersShareKey ==
  Quiet /\ harm = {} =>
    \A b \in Browsers :
      browser[b].at = "in" /\ browser[b].chal \in logins =>
        \/ browser[b].key = record.key /\ record.status = "ready"
        \/ /\ browser[b].key = None
           /\ Status # "ready" \/ relocated \/ browser[b].chal \in keyless

(* A key is replaced only by a first login that was asked before there was  *)
(* a record: one that was asked since keeps it, with or without its share.  *)
KeyIsKept ==
  [][record.status = "ready" /\ record'.status = "ready" /\ record'.key # record.key
     => \/ "replaced" \in harm
        \/ record'.key \in Challenges /\ ~found[record'.key]]_vars
=============================================================================
