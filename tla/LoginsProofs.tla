----------------------------- MODULE LoginsProofs -----------------------------
(***************************************************************************)
(* Proofs about Logins, for any number of browsers, challenges, requests,  *)
(* workers, passwords and faults: first that challenges, sessions and keys *)
(* are kept, then that the wrapped key opens and that browsers share it.   *)
(***************************************************************************)
EXTENDS Logins, TLAPS

Steps == Turn \union {"free", "sent", "taken"}
-----------------------------------------------------------------------------
(* How a request changes.                                                   *)
Same(r, s) ==
  /\ r.op = s.op /\ r.by = s.by /\ r.at = s.at /\ r.chal = s.chal
  /\ r.pw = s.pw /\ r.new = s.new /\ r.key = s.key /\ r.share = s.share

LEMMA StepRecord ==
  ASSUME NEW r \in RequestType, NEW s \in Steps
  PROVE  /\ [r EXCEPT !.step = s] \in RequestType
         /\ [r EXCEPT !.step = s].step = s /\ [r EXCEPT !.step = s].missing = r.missing
         /\ [r EXCEPT !.step = s].seen = r.seen /\ [r EXCEPT !.step = s].heard = r.heard
         /\ Same([r EXCEPT !.step = s], r)
BY Zenon DEF RequestType, Steps, Same

WithMissing(r, s, m) == [r EXCEPT !.step = s, !.missing = m]

LEMMA StepMissing ==
  ASSUME NEW r \in RequestType, NEW s \in Steps, NEW m \in BOOLEAN
  PROVE  /\ WithMissing(r, s, m) \in RequestType
         /\ WithMissing(r, s, m).step = s /\ WithMissing(r, s, m).missing = m
         /\ WithMissing(r, s, m).seen = r.seen /\ WithMissing(r, s, m).heard = r.heard
         /\ Same(WithMissing(r, s, m), r)
BY ZenonT(40) DEF WithMissing, RequestType, Steps, Same

WithSeen(r, s, l) == [r EXCEPT !.step = s, !.seen = l]

LEMMA StepSeen ==
  ASSUME NEW r \in RequestType, NEW s \in Steps, NEW l \in SUBSET Challenges
  PROVE  /\ WithSeen(r, s, l) \in RequestType
         /\ WithSeen(r, s, l).step = s /\ WithSeen(r, s, l).seen = l
         /\ WithSeen(r, s, l).missing = r.missing /\ WithSeen(r, s, l).heard = r.heard
         /\ Same(WithSeen(r, s, l), r)
BY Zenon DEF WithSeen, RequestType, Steps, Same

LEMMA FreeType ==
  /\ Free \in RequestType /\ Free.step = "free" /\ Free.op = "login"
  /\ Free.by = None /\ Free.chal = None /\ Free.key = None
  /\ Free.missing = FALSE /\ Free.heard = FALSE /\ Free.seen = {}
BY LoginsAssumption DEF Free, RequestType, Passwords, Processes

LEMMA LoginRequestIs ==
  ASSUME NEW b \in Browsers, NEW p \in Workers, browser[b] \in BrowserType
  PROVE  LET x == LoginRequest(b, p)
         IN  /\ x \in RequestType /\ x.step = "sent" /\ x.op = "login" /\ x.by = b
             /\ x.chal = browser[b].chal /\ x.key = None
             /\ x.missing = FALSE /\ x.heard = TRUE
BY FreeType, Zenon DEF LoginRequest, RequestType, BrowserType, Processes

LEMMA InvalidatedIs ==
  ASSUME NEW k \in Keys \union {None}
  PROVE  /\ Invalidated(k) \in Records /\ Invalidated(k).status = "invalidated"
         /\ Invalidated(k).key = k
<1>1. NoRecord \in Records
  BY LoginsAssumption DEF NoRecord, Records, Passwords
<1>2. \A r \in Records :
         LET x == [r EXCEPT !.status = "invalidated", !.key = k]
         IN  x \in Records /\ x.status = "invalidated" /\ x.key = k
  BY Zenon DEF Records
<1> QED
  BY <1>1, <1>2, Zenon DEF Invalidated

AskedWith(c, w, m) ==
  [Out EXCEPT !.at = "asked", !.chal = c, !.pw = w, !.missing = m]

LEMMA AskedIs ==
  ASSUME NEW c \in Challenges, NEW w \in Passwords, NEW m \in BOOLEAN
  PROVE  /\ AskedWith(c, w, m) \in BrowserType /\ AskedWith(c, w, m).at = "asked"
         /\ AskedWith(c, w, m).chal = c /\ AskedWith(c, w, m).key = None
         /\ AskedWith(c, w, m).missing = m
<1>1. Out \in BrowserType /\ Out.key = None
  BY LoginsAssumption DEF Out, BrowserType, Passwords
<1>2. \A r \in BrowserType :
         LET x == [r EXCEPT !.at = "asked", !.chal = c, !.pw = w, !.missing = m]
         IN  /\ x \in BrowserType /\ x.at = "asked" /\ x.chal = c
             /\ x.key = r.key /\ x.missing = m
  BY Zenon DEF BrowserType
<1> QED
  BY <1>1, <1>2, Zenon DEF AskedWith

LEMMA InIs ==
  ASSUME NEW c \in Challenges, NEW k \in Keys \union {None},
         NEW s \in Keys \union {None}
  PROVE  /\ In(c, k, s) \in BrowserType /\ In(c, k, s).at = "in"
         /\ In(c, k, s).chal = c /\ In(c, k, s).key = k
BY LoginsAssumption DEF In, BrowserType, Passwords

LEMMA OutIs ==
  Out \in BrowserType /\ Out.at = "out" /\ Out.chal = None /\ Out.key = None
BY LoginsAssumption DEF Out, BrowserType, Passwords

SomeChallenge == Challenges \union {None}
SomeKey       == Keys \union {None}

LogoutRequest(b, p, c) ==
  [Free EXCEPT !.step = "sent", !.op = "logout", !.by = b, !.at = p, !.chal = c,
               !.heard = TRUE]

LEMMA LogoutIs ==
  ASSUME NEW b \in Browsers, NEW p \in Workers, NEW c \in SomeChallenge
  PROVE  /\ LogoutRequest(b, p, c) \in RequestType
         /\ LogoutRequest(b, p, c).step = "sent"
         /\ LogoutRequest(b, p, c).op = "logout"
         /\ LogoutRequest(b, p, c).by = b
         /\ LogoutRequest(b, p, c).heard = TRUE
BY FreeType, Zenon DEF LogoutRequest, RequestType, Processes, SomeChallenge

LEMMA LogoutIsOf ==
  ASSUME NEW b \in Browsers, NEW p \in Workers, NEW c \in SomeChallenge
  PROVE  /\ LogoutRequest(b, p, c).chal = c
         /\ LogoutRequest(b, p, c).key = None
         /\ LogoutRequest(b, p, c).missing = FALSE
BY FreeType, Zenon DEF LogoutRequest, RequestType, Processes, SomeChallenge

ChangeRequest(b, p, c, w, n, k, s) ==
  [Free EXCEPT !.step = "sent", !.op = "change", !.by = b, !.at = p, !.chal = c,
               !.pw = w, !.new = n, !.key = k, !.share = s, !.heard = TRUE]

LEMMA ChangeIs ==
  ASSUME NEW b \in Browsers, NEW p \in Workers, NEW c \in SomeChallenge,
         NEW w \in Passwords, NEW n \in Passwords, NEW k \in SomeKey, NEW s \in SomeKey
  PROVE  /\ ChangeRequest(b, p, c, w, n, k, s) \in RequestType
         /\ ChangeRequest(b, p, c, w, n, k, s).step = "sent"
         /\ ChangeRequest(b, p, c, w, n, k, s).op = "change"
         /\ ChangeRequest(b, p, c, w, n, k, s).by = b
         /\ ChangeRequest(b, p, c, w, n, k, s).heard = TRUE
BY FreeType, ZenonT(40) DEF ChangeRequest, RequestType, Processes,
                        SomeChallenge, SomeKey

ResetRequest(n) ==
  [Free EXCEPT !.step = "password", !.op = "reset", !.at = "command", !.new = n]

LEMMA ResetIs ==
  ASSUME NEW n \in Passwords
  PROVE  LET x == ResetRequest(n)
         IN  /\ x \in RequestType /\ x.step = "password" /\ x.op = "reset"
             /\ x.by = None /\ x.chal = None /\ x.key = None
             /\ x.missing = FALSE /\ x.heard = FALSE
BY FreeType, Zenon DEF ResetRequest, RequestType, Processes, Turn

LEMMA UnheardIs ==
  ASSUME NEW r \in RequestType
  PROVE  LET x == [r EXCEPT !.heard = FALSE]
         IN  /\ x \in RequestType /\ x.heard = FALSE /\ x.step = r.step
             /\ x.missing = r.missing /\ x.seen = r.seen /\ Same(x, r)
BY Zenon DEF RequestType, Same
-----------------------------------------------------------------------------
(* Which requests there are, and what their browsers wait for.              *)
RequestOK(r) ==
  /\ r.step = "free" => r.by = None
  /\ r.op = "login" /\ r.step # "free" => r.chal \in Challenges
  /\ r.step \in {"taken", "record", "share", "answer"} => r.op = "login"
  /\ r.step \in {"sessions", "save"} => r.op \in {"login", "logout"}
  /\ r.step \in {"password", "end"} => r.op \in {"change", "reset"}
  /\ r.step = "wrap" => r.op = "change"
  /\ r.step \in {"forget", "invalidate"} => r.op = "reset"
  /\ r.op = "reset" => r.by = None
  /\ r.op \in {"logout", "change"} => r.heard
  /\ r.op # "reset" /\ r.step # "free" => r.by \in Browsers

BrowserOK(x) == x.at # "out" => x.chal \in Challenges

(* A browser has one request under way, but for a login sent again.         *)
Apart(r, s) ==
  r.by # None /\ r.by = s.by =>
    r.op = "login" /\ s.op = "login" /\ ~(r.heard /\ s.heard)

Awaited(r, x) ==
  r.op = "login" /\ r.heard /\ r.by # None =>
    x[r.by].at = "asked" /\ x[r.by].chal = r.chal

Calls ==
  /\ req \in [Requests -> RequestType] /\ browser \in [Browsers -> BrowserType]
  /\ \A q \in Requests : RequestOK(req[q]) /\ Awaited(req[q], browser)
  /\ \A b \in Browsers : BrowserOK(browser[b])
  /\ \A q, o \in Requests : q # o => Apart(req[q], req[o])

Files ==
  /\ {clustered, relocated} \subseteq BOOLEAN
  /\ challenges \in [Challenges -> {"none", "missing", "kept"}]
  /\ fresh \subseteq Challenges
  /\ verifier \in Passwords /\ logins \subseteq Challenges
  /\ record \in Records /\ share \in Keys \union {None}
  /\ issued \in Passwords /\ live \subseteq Challenges
  /\ proven \in [Challenges -> Passwords]
  /\ used \in [Challenges -> Nat] /\ found \in [Challenges -> BOOLEAN]
  /\ keyless \subseteq Challenges /\ harm \subseteq Harms
  /\ faults \in 0..MaxFaults

Shape == Calls /\ Files

LEMMA CallsMove ==
  ASSUME Calls, NEW q \in Requests, NEW r \in RequestType,
         req' = [req EXCEPT ![q] = r], browser' = browser,
         RequestOK(r), Same(r, req[q]), r.heard = req[q].heard
  PROVE  Calls'
<1>1. Awaited(r, browser)
  BY DEF Calls, Awaited, Same
<1>2. \A o \in Requests : o # q => Apart(r, req[o]) /\ Apart(req[o], r)
  BY DEF Calls, Apart, Same
<1>3. \A o \in Requests : req'[o] = IF o = q THEN r ELSE req[o]
  BY DEF Calls
<1> HIDE DEF RequestOK, Awaited, Apart
<1>4. req' \in [Requests -> RequestType]
  BY DEF Calls
<1>5. \A o \in Requests : RequestOK(req'[o]) /\ Awaited(req'[o], browser)
  BY <1>1, <1>3 DEF Calls
<1>6. \A o, p \in Requests : o # p => Apart(req'[o], req'[p])
  BY <1>2, <1>3 DEF Calls
<1> QED
  BY <1>4, <1>5, <1>6 DEF Calls

LEMMA FreeOK ==
  /\ RequestOK(Free)
  /\ \A s : Apart(Free, s) /\ Apart(s, Free)
  /\ \A x : Awaited(Free, x)
BY FreeType DEF RequestOK, Apart, Awaited

(* A request ends, and its browser is told or not.                          *)
LEMMA CallsEnd ==
  ASSUME Calls, NEW q \in Requests, req' = Done(q),
         \/ browser' = browser
         \/ /\ req[q].heard /\ req[q].by \in Browsers
            /\ \E x \in BrowserType :
                 BrowserOK(x) /\ browser' = [browser EXCEPT ![req[q].by] = x]
  PROVE  Calls'
<1>1. \A o \in Requests : req'[o] = IF o = q THEN Free ELSE req[o]
  BY DEF Done, Calls
<1>2. req' \in [Requests -> RequestType]
  BY FreeType DEF Done, Calls
<1>3. browser' \in [Browsers -> BrowserType] /\ \A b \in Browsers : BrowserOK(browser'[b])
  BY DEF Calls
<1>4. \A o \in Requests : o # q => Awaited(req[o], browser')
  <2>1. CASE browser' = browser
    BY <2>1 DEF Calls
  <2>2. CASE browser' # browser
    <3>1. PICK x \in BrowserType : browser' = [browser EXCEPT ![req[q].by] = x]
      BY <2>2
    <3>2. req[q].heard /\ req[q].by \in Browsers /\ req[q].by # None
      BY <2>2, LoginsAssumption
    <3>3. ASSUME NEW o \in Requests, o # q, req[o].op = "login", req[o].heard,
                 req[o].by # None
          PROVE  browser'[req[o].by] = browser[req[o].by]
      <4>1. req[o].by # req[q].by
        BY <3>2, <3>3 DEF Calls, Apart
      <4>2. req[o].by \in Browsers
        BY <3>3 DEF Calls, RequestOK, RequestType
      <4> QED
        BY <3>1, <4>1, <4>2 DEF Calls
    <3> QED
      BY <3>3 DEF Calls, Awaited
  <2> QED
    BY <2>1, <2>2
<1>5. \A o \in Requests : RequestOK(req'[o]) /\ Awaited(req'[o], browser')
  BY <1>1, <1>4, FreeOK DEF Calls
<1>6. \A o, p \in Requests : o # p => Apart(req'[o], req'[p])
  BY <1>1, FreeOK DEF Calls
<1> QED
  BY <1>2, <1>3, <1>5, <1>6 DEF Calls

(* A browser, or a command, begins a request.                               *)
LEMMA CallsSent ==
  ASSUME Calls, NEW q \in Requests, NEW r \in RequestType, Sent(q, r),
         browser' = browser, RequestOK(r), Awaited(r, browser),
         \A o \in Requests : r.by # None => req[o].by # r.by
  PROVE  Calls'
<1>1. \A o \in Requests : req'[o] = IF o = q THEN r ELSE req[o]
  BY DEF Calls, Sent
<1>2. req' \in [Requests -> RequestType]
  BY DEF Calls, Sent
<1>3. \A o \in Requests : Apart(r, req[o]) /\ Apart(req[o], r)
  BY DEF Apart
<1>4. \A o \in Requests : RequestOK(req'[o]) /\ Awaited(req'[o], browser)
  BY <1>1 DEF Calls
<1>5. \A o, p \in Requests : o # p => Apart(req'[o], req'[p])
  BY <1>1, <1>3 DEF Calls
<1> QED
  BY <1>2, <1>4, <1>5 DEF Calls

(* A browser with no request under way goes from one state to another.      *)
LEMMA CallsBrowse ==
  ASSUME Calls, NEW b \in Browsers, NEW x \in BrowserType, BrowserOK(x),
         \A q \in Requests : req[q].by # b,
         browser' = [browser EXCEPT ![b] = x], req' = req
  PROVE  Calls'
<1>1. browser' \in [Browsers -> BrowserType] /\ \A c \in Browsers : BrowserOK(browser'[c])
  BY DEF Calls
<1>2. ASSUME NEW q \in Requests, req[q].by # None
      PROVE  browser'[req[q].by] = browser[req[q].by]
  BY <1>2 DEF Calls
<1>3. \A q \in Requests : Awaited(req[q], browser')
  BY <1>2 DEF Calls, Awaited
<1> QED
  BY <1>1, <1>3 DEF Calls

LEMMA CallsResent ==
  ASSUME Calls, NEW b \in Browsers, NEW q \in Requests, NEW o \in Requests,
         NEW p \in Workers, ResendLogin(b, q, o, p)
  PROVE  Calls'
<1> DEFINE u == [req[o] EXCEPT !.heard = FALSE]
           r == LoginRequest(b, p)
<1>1. req[o].by = b /\ req[o].op = "login" /\ req[o].heard /\ req[q] = Free
  BY DEF ResendLogin
<1>2. o # q /\ req[o] # Free
  BY <1>1, FreeType
<1>3. req' = [[req EXCEPT ![o] = u] EXCEPT ![q] = r]
  BY Zenon DEF ResendLogin, Calls
<1>4. /\ u \in RequestType /\ u.heard = FALSE /\ u.step = req[o].step
      /\ Same(u, req[o])
  BY UnheardIs DEF Calls
<1>5. /\ r \in RequestType /\ r.step = "sent" /\ r.op = "login" /\ r.by = b
      /\ r.chal = browser[b].chal /\ r.heard = TRUE
  BY LoginRequestIs, ZenonT(40) DEF Calls
<1>6. b # None
  BY LoginsAssumption
<1>7. browser[b].at = "asked" /\ browser[b].chal = req[o].chal
  BY <1>1, <1>6 DEF Calls, Awaited
<1>8. browser[b].chal \in Challenges
  BY <1>7 DEF Calls, BrowserOK
<1> HIDE DEF u, r
<1>9. \A i \in Requests : req'[i] = IF i = q THEN r ELSE IF i = o THEN u ELSE req[i]
  BY <1>2, <1>3 DEF Calls
<1>10. req' \in [Requests -> RequestType]
  BY <1>3, <1>4, <1>5 DEF Calls
<1>11. RequestOK(u) /\ RequestOK(r)
  BY <1>1, <1>4, <1>5, <1>8 DEF RequestOK, Same, Calls
<1>12. Awaited(u, browser) /\ Awaited(r, browser)
  BY <1>4, <1>5, <1>7 DEF Awaited
<1>13. \A i \in Requests : RequestOK(req'[i]) /\ Awaited(req'[i], browser)
  BY <1>9, <1>11, <1>12 DEF Calls
<1>14. Apart(r, u) /\ Apart(u, r)
  BY <1>1, <1>4, <1>5 DEF Apart, Same
<1>15. \A i \in Requests : i \notin {o, q} =>
         /\ Apart(req[i], u) /\ Apart(u, req[i])
         /\ Apart(req[i], r) /\ Apart(r, req[i])
  BY <1>1, <1>4, <1>5, <1>6 DEF Calls, Apart, Same
<1>16. \A i, j \in Requests : i # j => Apart(req'[i], req'[j])
  BY <1>9, <1>14, <1>15 DEF Calls
<1> QED
  BY <1>10, <1>13, <1>16 DEF Calls, ResendLogin

LEMMA CallsDropped ==
  ASSUME Calls, NEW gone \in SUBSET Requests, Dropped(gone)
  PROVE  Calls'
<1>1. \A q \in Requests : req'[q] = IF q \in gone THEN Free ELSE req[q]
  BY DEF Dropped
<1>2. req' \in [Requests -> RequestType]
  BY FreeType DEF Dropped, Calls
<1>3. browser' \in [Browsers -> BrowserType] /\ \A b \in Browsers : BrowserOK(browser'[b])
  BY OutIs DEF Dropped, Calls, BrowserOK
<1>4. ASSUME NEW q \in Requests, q \notin gone, req[q].op = "login", req[q].heard,
             req[q].by # None
      PROVE  browser'[req[q].by] = browser[req[q].by]
  <2>1. req[q].by \in Browsers
    BY <1>4 DEF Calls, RequestType
  <2>2. \A o \in gone : ~(req[o].by = req[q].by /\ req[o].heard)
    BY <1>4 DEF Calls, Apart
  <2> QED
    BY <2>1, <2>2 DEF Dropped
<1>5. \A q \in Requests : q \notin gone => Awaited(req[q], browser')
  BY <1>4 DEF Awaited, Calls
<1>6. \A q \in Requests : RequestOK(req'[q]) /\ Awaited(req'[q], browser')
  BY <1>1, <1>5, FreeOK DEF Calls
<1>7. \A q, o \in Requests : q # o => Apart(req'[q], req'[o])
  BY <1>1, FreeOK DEF Calls
<1> QED
  BY <1>2, <1>3, <1>6, <1>7 DEF Calls
-----------------------------------------------------------------------------
(* One step of a request.                                                   *)
LEMMA StepIs ==
  ASSUME Calls, NEW q \in Requests, NEW s \in Steps, Step(q, s)
  PROVE  LET x == [req[q] EXCEPT !.step = s]
         IN  /\ req' = [req EXCEPT ![q] = x]
             /\ x \in RequestType /\ x.step = s /\ x.missing = req[q].missing
             /\ x.seen = req[q].seen /\ x.heard = req[q].heard /\ Same(x, req[q])
<1>1. req' = [req EXCEPT ![q] = [req[q] EXCEPT !.step = s]]
  BY Zenon DEF Step, Calls
<1>2. req[q] \in RequestType
  BY DEF Calls
<1> QED
  BY <1>1, <1>2, StepRecord

(* A step goes where its kind of request may be.                            *)
Fits(r, s) ==
  /\ s \in Steps \ {"free"} /\ r.step # "free"
  /\ s \in {"taken", "record", "share", "answer"} => r.op = "login"
  /\ s \in {"sessions", "save"} => r.op \in {"login", "logout"}
  /\ s \in {"password", "end"} => r.op \in {"change", "reset"}
  /\ s = "wrap" => r.op = "change"
  /\ s \in {"forget", "invalidate"} => r.op = "reset"

LEMMA FitsOK ==
  ASSUME NEW r, NEW x, RequestOK(r), Same(x, r), x.heard = r.heard, Fits(r, x.step)
  PROVE  RequestOK(x)
BY DEF Fits, RequestOK, Same

LEMMA CallsStep ==
  ASSUME Calls, NEW q \in Requests, NEW s, Step(q, s), Fits(req[q], s),
         browser' = browser
  PROVE  Calls'
<1>1. s \in Steps
  BY DEF Fits
<1> DEFINE x == [req[q] EXCEPT !.step = s]
<1>2. /\ req' = [req EXCEPT ![q] = x]
      /\ x \in RequestType /\ x.step = s /\ x.heard = req[q].heard /\ Same(x, req[q])
  BY <1>1, StepIs
<1> HIDE DEF x
<1>3. RequestOK(x)
  BY <1>2, FitsOK DEF Calls
<1> QED
  BY <1>2, <1>3, CallsMove

(* A step that changes another field, too.                                  *)
LEMMA CallsRecord ==
  ASSUME Calls, NEW q \in Requests, NEW x \in RequestType,
         req' = [req EXCEPT ![q] = x], x.heard = req[q].heard, Same(x, req[q]),
         Fits(req[q], x.step), browser' = browser
  PROVE  Calls'
<1>1. RequestOK(x)
  BY FitsOK DEF Calls
<1> QED
  BY <1>1, CallsMove

LEMMA MissingField ==
  ASSUME Calls, NEW q \in Requests, NEW s \in Steps, NEW m \in BOOLEAN
  PROVE  [req EXCEPT ![q].step = s, ![q].missing = m] =
           [req EXCEPT ![q] = WithMissing(req[q], s, m)]
BY Zenon DEF WithMissing, Calls, RequestType

LEMMA MissingIs ==
  ASSUME Calls, NEW q \in Requests, NEW s \in Steps, NEW m \in BOOLEAN,
         req' = [req EXCEPT ![q].step = s, ![q].missing = m]
  PROVE  \E x \in RequestType :
           /\ req' = [req EXCEPT ![q] = x]
           /\ x.step = s /\ x.missing = m /\ x.seen = req[q].seen
           /\ x.heard = req[q].heard /\ Same(x, req[q])
<1> DEFINE x == WithMissing(req[q], s, m)
<1>1. req' = [req EXCEPT ![q] = x]
  BY MissingField, ZenonT(40)
<1>2. req[q] \in RequestType
  BY DEF Calls
<1>3. /\ x \in RequestType /\ x.step = s /\ x.missing = m /\ x.seen = req[q].seen
      /\ x.heard = req[q].heard /\ Same(x, req[q])
  BY <1>2, StepMissing
<1> HIDE DEF x
<1> QED
  BY <1>1, <1>3

LEMMA SeenIs ==
  ASSUME Calls, NEW q \in Requests, NEW s \in Steps, NEW l \in SUBSET Challenges,
         req' = [req EXCEPT ![q].step = s, ![q].seen = l]
  PROVE  \E x \in RequestType :
           /\ req' = [req EXCEPT ![q] = x]
           /\ x.step = s /\ x.seen = l /\ x.missing = req[q].missing
           /\ x.heard = req[q].heard /\ Same(x, req[q])
<1> DEFINE x == WithSeen(req[q], s, l)
<1>1. req' = [req EXCEPT ![q] = x]
  BY Zenon DEF WithSeen, Calls, RequestType
<1>2. req[q] \in RequestType
  BY DEF Calls
<1>3. /\ x \in RequestType /\ x.step = s /\ x.seen = l /\ x.missing = req[q].missing
      /\ x.heard = req[q].heard /\ Same(x, req[q])
  BY <1>2, StepSeen
<1> HIDE DEF x
<1> QED
  BY <1>1, <1>3

LEMMA StepBy ==
  ASSUME Calls, NEW q \in Requests, req[q].step # "free", req[q].op # "reset"
  PROVE  req[q].by \in Browsers
BY DEF Calls, RequestOK

LEMMA CallsRefuse ==
  ASSUME Calls, NEW q \in Requests, req[q].step # "free", req[q].op = "login",
         Refuse(q)
  PROVE  Calls'
<1>1. req[q].by \in Browsers
  BY StepBy
<1>2. BrowserOK(Out) /\ Out \in BrowserType
  BY OutIs DEF BrowserOK
<1> QED
  BY <1>1, <1>2, CallsEnd DEF Refuse

(* A request of a browser ends, and its browser is logged out.              *)
LEMMA CallsOut ==
  ASSUME Calls, NEW q \in Requests, req[q].step # "free",
         req[q].op \in {"logout", "change"}, req' = Done(q),
         browser' = [browser EXCEPT ![req[q].by] = Out]
  PROVE  Calls'
<1>1. req[q].by \in Browsers /\ req[q].heard
  BY StepBy DEF Calls, RequestOK
<1>2. BrowserOK(Out) /\ Out \in BrowserType
  BY OutIs DEF BrowserOK
<1> QED
  BY <1>1, <1>2, CallsEnd
-----------------------------------------------------------------------------
(* Every operation keeps the requests and the browsers in shape.            *)
LEMMA TakeCalls ==
  ASSUME Shape, NEW q \in Requests, TakeChallenge(q)
  PROVE  Calls'
<1>1. CASE challenges[req[q].chal] = "none"
  BY <1>1, CallsRefuse DEF Shape, TakeChallenge
<1>2. CASE challenges[req[q].chal] # "none"
  <2> DEFINE m == challenges[req[q].chal] = "missing"
  <2>0. /\ m \in BOOLEAN /\ "taken" \in Steps
        /\ req' = [req EXCEPT ![q].step = "taken", ![q].missing = m]
    BY <1>2, Zenon DEF TakeChallenge, Steps
  <2> HIDE DEF m
  <2>1. PICK x \in RequestType :
          /\ req' = [req EXCEPT ![q] = x]
          /\ x.step = "taken" /\ x.heard = req[q].heard /\ Same(x, req[q])
    BY <2>0, MissingIs DEF Shape
  <2> QED
    BY <1>2, <2>1, CallsRecord DEF Shape, TakeChallenge, Fits, Steps
<1> QED
  BY <1>1, <1>2

LEMMA VerifyCalls ==
  ASSUME Shape, NEW q \in Requests, Verify(q)
  PROVE  Calls'
<1>0. req[q].op = "login"
  BY DEF Shape, Calls, RequestOK, Verify
<1>1. CASE req[q].pw # verifier
  BY <1>0, <1>1, CallsRefuse DEF Shape, Verify
<1>2. CASE req[q].pw = verifier
  <2> DEFINE s == IF req[q].missing THEN "record" ELSE "sessions"
  <2>1. s \in {"record", "sessions"}
    OBVIOUS
  <2>2. req' = [req EXCEPT ![q].step = s, ![q].missing = FALSE]
    BY <1>2 DEF Verify
  <2> HIDE DEF s
  <2>3. PICK x \in RequestType :
          /\ req' = [req EXCEPT ![q] = x]
          /\ x.step = s /\ x.heard = req[q].heard /\ Same(x, req[q])
    BY <2>1, <2>2, MissingIs, ZenonT(40) DEF Shape, Steps, Turn
  <2>4. browser' = browser
    BY <1>2 DEF Verify
  <2> QED
    BY <1>0, <2>1, <2>3, <2>4, CallsRecord DEF Shape, Verify, Fits, Steps, Turn
<1> QED
  BY <1>1, <1>2

LEMMA WriteRecordCalls ==
  ASSUME Shape, NEW q \in Requests, WriteRecord(q) \/ WriteShare(q)
  PROVE  Calls'
BY CallsStep DEF Shape, Calls, RequestOK, WriteRecord, WriteShare, Fits, Steps, Turn

LEMMA SessionCalls ==
  ASSUME Shape, NEW q \in Requests, ReadSessions(q) \/ SaveSession(q)
  PROVE  Calls'
<1>1. CASE ReadSessions(q)
  <2>0. /\ logins \in SUBSET Challenges /\ "save" \in Steps
        /\ req' = [req EXCEPT ![q].step = "save", ![q].seen = logins]
    BY <1>1, Zenon DEF Shape, Files, ReadSessions, Steps, Turn
  <2>1. PICK x \in RequestType :
          /\ req' = [req EXCEPT ![q] = x]
          /\ x.step = "save" /\ x.heard = req[q].heard /\ Same(x, req[q])
    BY <2>0, SeenIs, ZenonT(40) DEF Shape
  <2>2. Fits(req[q], "save")
    BY <1>1 DEF Shape, Calls, RequestOK, ReadSessions, Fits, Steps, Turn
  <2> QED
    BY <1>1, <2>1, <2>2, CallsRecord DEF Shape, ReadSessions
<1>2. CASE SaveSession(q)
  <2>0. /\ {} \in SUBSET Challenges /\ "answer" \in Steps
        /\ req' = [req EXCEPT ![q].step = "answer", ![q].seen = {}]
    BY <1>2, Zenon DEF SaveSession, Steps, Turn
  <2>1. PICK x \in RequestType :
          /\ req' = [req EXCEPT ![q] = x]
          /\ x.step = "answer" /\ x.heard = req[q].heard /\ Same(x, req[q])
    BY <2>0, SeenIs, ZenonT(40) DEF Shape
  <2>2. Fits(req[q], "answer")
    BY <1>2 DEF SaveSession, Fits, Steps, Turn
  <2> QED
    BY <1>2, <2>1, <2>2, CallsRecord DEF Shape, SaveSession
<1> QED
  BY <1>1, <1>2

LEMMA ServerShareType ==
  ASSUME Files
  PROVE  /\ ServerShare(record) \in Keys \union {None}
         /\ SharePayload \in Keys \union {None}
BY DEF Files, ServerShare, SharePayload, Records

LEMMA AnswerCalls ==
  ASSUME Shape, NEW q \in Requests, Answer(q)
  PROVE  Calls'
<1>1. req[q].op = "login" /\ req[q].chal \in Challenges /\ req[q].by \in Browsers
  BY DEF Shape, Calls, RequestOK, Answer
<1>2. CASE ~req[q].heard
  BY <1>2, CallsEnd DEF Shape, Answer
<1>3. CASE req[q].heard
  <2> DEFINE x == IF Status = "ready" /\ Opens(req[q].pw, SharePayload)
                  THEN In(req[q].chal, record.key, SharePayload)
                  ELSE In(req[q].chal, None, None)
  <2>1. record.key \in Keys \union {None}
    BY DEF Shape, Files, Records
  <2>2. x \in BrowserType /\ BrowserOK(x)
    BY <1>1, <2>1, InIs, ServerShareType, SMTT(20) DEF Shape, BrowserOK
  <2>3. browser' = [browser EXCEPT ![req[q].by] = x]
    BY <1>3 DEF Answer
  <2> HIDE DEF x
  <2> QED
    BY <1>1, <1>3, <2>2, <2>3, CallsEnd DEF Shape, Answer
<1> QED
  BY <1>2, <1>3

LEMMA RevokeCalls ==
  ASSUME Shape, NEW q \in Requests, BeginRevoke(q) \/ SaveRevoked(q)
  PROVE  Calls'
<1>1. CASE BeginRevoke(q)
  <2>1. Step(q, "sessions") /\ browser' = browser
    BY <1>1 DEF BeginRevoke
  <2>2. Fits(req[q], "sessions")
    BY <1>1 DEF BeginRevoke, Fits, Steps, Turn
  <2> QED
    BY <2>1, <2>2, CallsStep DEF Shape
<1>2. CASE SaveRevoked(q)
  BY <1>2, CallsOut DEF SaveRevoked, Shape
<1> QED
  BY <1>1, <1>2

LEMMA BeginChangeCalls ==
  ASSUME Shape, NEW q \in Requests, BeginChange(q)
  PROVE  Calls'
<1> DEFINE m == ~(Status = "ready")
<1>1. browser' = browser
  BY DEF BeginChange
<1>2. CASE req' = Done(q)
  BY <1>1, <1>2, CallsEnd DEF Shape
<1>3. CASE req' = [req EXCEPT ![q].step = "password", ![q].missing = m]
  <2>0. m \in BOOLEAN /\ "password" \in Steps
    BY DEF Steps, Turn
  <2> HIDE DEF m
  <2>1. PICK x \in RequestType :
          /\ req' = [req EXCEPT ![q] = x]
          /\ x.step = "password" /\ x.heard = req[q].heard /\ Same(x, req[q])
    BY <1>3, <2>0, MissingIs DEF Shape
  <2>2. Fits(req[q], "password")
    BY DEF BeginChange, Fits, Steps, Turn
  <2> QED
    BY <1>1, <2>1, <2>2, CallsRecord DEF Shape
<1> QED
  BY <1>2, <1>3, Zenon DEF BeginChange

LEMMA EndSessionsCalls ==
  ASSUME Shape, NEW q \in Requests, EndSessions(q)
  PROVE  Calls'
<1>1. req[q].op \in {"change", "reset"} /\ req[q].step = "end"
  BY DEF Shape, Calls, RequestOK, EndSessions
<1>2. CASE AfterSessions(q) = "free"
  <2>1. req[q].op = "change"
    BY <1>1, <1>2 DEF AfterSessions
  <2> QED
    BY <1>1, <1>2, <2>1, CallsOut DEF Shape, EndSessions
<1>3. CASE AfterSessions(q) # "free"
  <2>1. Step(q, AfterSessions(q)) /\ browser' = browser
    BY <1>3 DEF EndSessions
  <2>2. Fits(req[q], AfterSessions(q))
    BY <1>1, <1>3 DEF AfterSessions, Fits, Steps, Turn
  <2> QED
    BY <2>1, <2>2, CallsStep DEF Shape
<1> QED
  BY <1>2, <1>3

LEMMA ChangeCalls ==
  ASSUME Shape, NEW q \in Requests,
         WritePassword(q) \/ WrapRecord(q) \/ ForgetShare(q) \/ InvalidateRecord(q)
  PROVE  Calls'
<1>1. CASE WritePassword(q)
  <2>1. Fits(req[q], "end")
    BY <1>1 DEF WritePassword, Shape, Calls, RequestOK, Fits, Steps, Turn
  <2> QED
    BY <1>1, <2>1, CallsStep DEF Shape, WritePassword
<1>2. CASE WrapRecord(q)
  <2>1. req[q].op = "change"
    BY <1>2 DEF WrapRecord, Shape, Calls, RequestOK
  <2> QED
    BY <1>2, <2>1, CallsOut DEF WrapRecord, Shape
<1>3. CASE ForgetShare(q)
  <2>1. Fits(req[q], "invalidate") /\ browser' = browser
    BY <1>3 DEF ForgetShare, Shape, Calls, RequestOK, Fits, Steps, Turn
  <2>2. Step(q, "invalidate")
    BY <1>3 DEF ForgetShare
  <2> QED
    BY <2>1, <2>2, CallsStep DEF Shape
<1>4. CASE InvalidateRecord(q)
  BY <1>4, CallsEnd DEF InvalidateRecord, Shape
<1> QED
  BY <1>1, <1>2, <1>3, <1>4

LEMMA HandleCalls ==
  ASSUME Shape, NEW q \in Requests, Handle(q)
  PROVE  Calls'
BY TakeCalls, VerifyCalls, WriteRecordCalls, SessionCalls, AnswerCalls, RevokeCalls,
   BeginChangeCalls, EndSessionsCalls, ChangeCalls DEF Handle

LEMMA SendCalls ==
  ASSUME Shape, NEW b \in Browsers, NEW q \in Requests, NEW p \in Workers,
         SendLogin(b, q, p) \/ SendLogout(b, q, p) \/ SendChange(b, q, p)
  PROVE  Calls'
<1>0. browser[b] \in BrowserType /\ b # None
  BY LoginsAssumption DEF Shape, Calls
<1>1. CASE SendLogin(b, q, p)
  <2> DEFINE r == LoginRequest(b, p)
  <2>1. /\ r \in RequestType /\ r.step = "sent" /\ r.op = "login" /\ r.by = b
        /\ r.chal = browser[b].chal /\ r.heard = TRUE
    BY <1>0, LoginRequestIs
  <2>2. /\ Sent(q, r) /\ browser' = browser /\ browser[b].at = "asked"
        /\ \A o \in Requests : req[o].by # b
    BY <1>1 DEF SendLogin
  <2> HIDE DEF r
  <2>3. r.chal \in Challenges
    BY <2>1, <2>2 DEF Shape, Calls, BrowserOK
  <2>4. RequestOK(r) /\ Awaited(r, browser)
    BY <1>0, <2>1, <2>2, <2>3 DEF RequestOK, Awaited
  <2> QED
    BY <2>1, <2>2, <2>4, CallsSent DEF Shape
<1>2. CASE SendLogout(b, q, p)
  <2>0. browser[b].chal \in SomeChallenge
    BY <1>0 DEF BrowserType, SomeChallenge
  <2>1. PICK r \in RequestType :
          /\ r = LogoutRequest(b, p, browser[b].chal)
          /\ r.step = "sent" /\ r.op = "logout" /\ r.by = b /\ r.heard = TRUE
    BY <2>0, LogoutIs
  <2>2. /\ Sent(q, r) /\ browser' = browser
        /\ \A o \in Requests : req[o].by # b
    BY <1>2, <2>1, Zenon DEF SendLogout, Idle, LogoutRequest
  <2>4. RequestOK(r) /\ Awaited(r, browser)
    BY <1>0, <2>1, <2>2 DEF RequestOK, Awaited
  <2> QED
    BY <2>1, <2>2, <2>4, CallsSent DEF Shape
<1>3. CASE SendChange(b, q, p)
  <2>0. /\ browser[b].chal \in SomeChallenge
        /\ browser[b].key \in SomeKey /\ browser[b].share \in SomeKey
        /\ verifier \in Passwords /\ issued + 1 \in Passwords
    BY <1>0, <1>3, LoginsAssumption DEF BrowserType, SendChange, NewPassword, Shape,
       Files, Passwords, SomeChallenge, SomeKey
  <2>1. PICK r \in RequestType :
          /\ r = ChangeRequest(b, p, browser[b].chal, verifier, issued + 1,
                           browser[b].key, browser[b].share)
          /\ r.step = "sent" /\ r.op = "change" /\ r.by = b /\ r.heard = TRUE
    BY <2>0, ChangeIs
  <2>2. /\ Sent(q, r) /\ browser' = browser
        /\ \A o \in Requests : req[o].by # b
    BY <1>3, <2>1, Zenon DEF SendChange, Idle, ChangeRequest
  <2>4. RequestOK(r) /\ Awaited(r, browser)
    BY <1>0, <2>1, <2>2 DEF RequestOK, Awaited
  <2> QED
    BY <2>1, <2>2, <2>4, CallsSent DEF Shape
<1> QED
  BY <1>1, <1>2, <1>3

LEMMA ResetCalls ==
  ASSUME Shape, NEW q \in Requests, BeginReset(q)
  PROVE  Calls'
<1> DEFINE r == ResetRequest(issued + 1)
<1>0. issued + 1 \in Passwords
  BY LoginsAssumption DEF BeginReset, NewPassword, Shape, Files, Passwords
<1>1. /\ r \in RequestType /\ r.step = "password" /\ r.op = "reset" /\ r.by = None
  BY <1>0, ResetIs
<1>2. Sent(q, r) /\ browser' = browser
  BY Zenon DEF BeginReset, ResetRequest
<1> HIDE DEF r
<1>3. RequestOK(r) /\ Awaited(r, browser)
  BY <1>1 DEF RequestOK, Awaited
<1> QED
  BY <1>1, <1>2, <1>3, CallsSent DEF Shape

LEMMA AskCalls ==
  ASSUME Shape, NEW b \in Browsers, NEW c \in Challenges, NEW p \in Workers,
         AskChallenge(b, c, p)
  PROVE  Calls'
<1> DEFINE m == Status = "missing"
           x == AskedWith(c, verifier, m)
<1>1. m \in BOOLEAN /\ verifier \in Passwords
  BY DEF Shape, Files
<1>2. browser' = [browser EXCEPT ![b] = x] /\ req' = req
      /\ \A q \in Requests : req[q].by # b
  BY Zenon DEF AskChallenge, AskedWith
<1> HIDE DEF m
<1>3. x \in BrowserType /\ x.chal = c
  BY <1>1, AskedIs
<1> HIDE DEF x
<1>4. BrowserOK(x)
  BY <1>3 DEF BrowserOK
<1> QED
  BY <1>2, <1>3, <1>4, CallsBrowse DEF Shape

LEMMA LoadCalls ==
  ASSUME Shape, NEW b \in Browsers, Load(b)
  PROVE  Calls'
<1>1. browser[b].chal \in Challenges
  BY DEF Load, Shape, Calls, BrowserOK
<1>2. PICK x \in {Out, In(browser[b].chal, None, None)} :
        browser' = [browser EXCEPT ![b] = x]
  BY DEF Load
<1>3. x \in BrowserType /\ BrowserOK(x)
  BY <1>1, <1>2, OutIs, InIs DEF BrowserOK
<1> QED
  BY <1>2, <1>3, CallsBrowse DEF Shape, Load, Idle

LEMMA EndCalls ==
  ASSUME Shape, (\E p \in Processes : Crash(p)) \/ Restart
  PROVE  Calls'
<1>1. PICK gone \in SUBSET Requests : Dropped(gone)
  BY DEF Crash, Restart
<1> QED
  BY <1>1, CallsDropped DEF Shape

(* The other variables keep their types.                                    *)
LEMMA HandleFiles ==
  ASSUME Shape, NEW q \in Requests, Handle(q)
  PROVE  Files'
<1>0. req[q] \in RequestType /\ RequestOK(req[q])
  BY DEF Shape, Calls
<1>1. CASE TakeChallenge(q)
  BY <1>1 DEF Shape, Files, TakeChallenge, setting, fileVars, ghostVars
<1>2. CASE Verify(q)
  BY <1>2 DEF Shape, Files, Verify, Harmed, Harms, setting, fileVars, ghostVars
<1>3. CASE WriteRecord(q)
  <2>1. req[q].chal \in Challenges
    BY <1>0, <1>3 DEF RequestOK, WriteRecord
  <2>2. Ready(req[q].chal, req[q].pw, req[q].chal, req[q].chal) \in Records
    BY <1>0, <2>1 DEF Ready, Records, RequestType, Keys
  <2> QED
    BY <1>3, <2>2 DEF Shape, Files, WriteRecord, Harms, setting, fileVars, ghostVars
<1>4. CASE WriteShare(q)
  <2>1. req[q].chal \in Keys
    BY <1>0, <1>4 DEF RequestOK, WriteShare, Keys
  <2> QED
    BY <1>4, <2>1 DEF Shape, Files, WriteShare, setting, fileVars, ghostVars
<1>5. CASE ReadSessions(q) \/ Answer(q)
  BY <1>5 DEF Shape, Files, ReadSessions, Answer, setting, fileVars, ghostVars
<1>6. CASE SaveSession(q)
  <2>1. req[q].chal \in Challenges /\ req[q].seen \subseteq Challenges
    BY <1>0, <1>6 DEF RequestOK, RequestType, SaveSession
  <2> QED
    BY <1>6, <2>1 DEF Shape, Files, SaveSession, setting, fileVars, ghostVars
<1>7. CASE BeginRevoke(q) \/ BeginChange(q)
  BY <1>7 DEF Shape, Files, BeginRevoke, BeginChange, Harmed, Harms, setting, fileVars,
     ghostVars
<1>8. CASE SaveRevoked(q)
  <2>1. req[q].seen \subseteq Challenges
    BY <1>0 DEF RequestType
  <2> QED
    BY <1>8, <2>1 DEF Shape, Files, SaveRevoked, setting, fileVars, ghostVars
<1>9. CASE WritePassword(q)
  BY <1>0, <1>9 DEF Shape, Files, WritePassword, RequestType, setting, fileVars, ghostVars
<1>10. CASE EndSessions(q)
  BY <1>10 DEF Shape, Files, EndSessions, setting, fileVars, ghostVars
<1>11. CASE WrapRecord(q)
  <2>1. /\ req[q].key \in Keys \union {None} /\ req[q].share \in Keys \union {None}
        /\ req[q].new \in Passwords
    BY <1>0 DEF RequestType
  <2>2. Ready(req[q].key, req[q].new, req[q].share, ServerShare(record)) \in Records
    BY <2>1, ServerShareType DEF Ready, Records, Shape
  <2> QED
    BY <1>11, <2>2 DEF Shape, Files, WrapRecord, setting, fileVars, ghostVars
<1>12. CASE ForgetShare(q)
  BY <1>12 DEF Shape, Files, ForgetShare, setting, fileVars, ghostVars
<1>13. CASE InvalidateRecord(q)
  <2>1. Invalidated(record.key) \in Records
    BY InvalidatedIs DEF Shape, Files, Records
  <2> QED
    BY <1>13, <2>1 DEF Shape, Files, InvalidateRecord, setting, fileVars, ghostVars
<1> QED
  BY <1>1, <1>2, <1>3, <1>4, <1>5, <1>6, <1>7, <1>8, <1>9, <1>10, <1>11, <1>12, <1>13
  DEF Handle

LEMMA NextFiles ==
  ASSUME Shape, Next
  PROVE  Files'
<1>1. ASSUME NEW b \in Browsers, NEW p \in Workers, NEW c \in Challenges,
             AskChallenge(b, c, p)
      PROVE  Files'
  BY <1>1 DEF Shape, Files, AskChallenge, setting, fileVars, ghostVars
<1>2. ASSUME NEW b \in Browsers, Load(b)
      PROVE  Files'
  BY <1>2 DEF Shape, Files, Load, setting, fileVars, ghostVars
<1>3. ASSUME NEW b \in Browsers, NEW q \in Requests, NEW p \in Workers,
             SendLogin(b, q, p) \/ SendLogout(b, q, p) \/ SendChange(b, q, p)
      PROVE  Files'
  BY <1>3, LoginsAssumption DEF Shape, Files, SendLogin, SendLogout, SendChange,
     NewPassword, Passwords, setting, fileVars, ghostVars
<1>4. ASSUME NEW b \in Browsers, NEW q \in Requests, NEW o \in Requests,
             NEW p \in Workers, ResendLogin(b, q, o, p)
      PROVE  Files'
  BY <1>4, LoginsAssumption DEF Shape, Files, ResendLogin, setting, fileVars, ghostVars
<1>5. ASSUME NEW c \in Challenges, Expire(c)
      PROVE  Files'
  BY <1>5 DEF Shape, Files, Expire, setting, fileVars, ghostVars
<1>6. ASSUME NEW q \in Requests, BeginReset(q)
      PROVE  Files'
  BY <1>6, LoginsAssumption DEF Shape, Files, BeginReset, NewPassword, Passwords,
     Harmed, Harms, setting, fileVars, ghostVars
<1>7. ASSUME NEW p \in Processes, Crash(p)
      PROVE  Files'
  BY <1>7, LoginsAssumption DEF Shape, Files, Crash, Harms, setting, fileVars, ghostVars
<1>8. CASE Restart
  BY <1>8, LoginsAssumption DEF Shape, Files, Restart, setting, fileVars, ghostVars
<1> QED
  BY <1>1, <1>2, <1>3, <1>4, <1>5, <1>6, <1>7, <1>8, HandleFiles DEF Next

LEMMA NextCalls ==
  ASSUME Shape, Next
  PROVE  Calls'
<1>1. ASSUME NEW c \in Challenges, Expire(c)
      PROVE  Calls'
  BY <1>1 DEF Shape, Calls, Expire
<1> QED
  BY <1>1, HandleCalls, SendCalls, ResetCalls, AskCalls, LoadCalls, EndCalls, CallsResent
  DEF Next, Shape

(* The requests, the browsers and the files keep their shape.               *)
LEMMA ShapeInvariance == Spec => []Shape
<1>1. Init => Shape
  <2> SUFFICES ASSUME Init
               PROVE  Shape
    OBVIOUS
  <2>1. Files
    <3>1. record \in Records
      BY LoginsAssumption DEF Init, NoRecord, Ready, Records, Keys, Passwords
    <3>2. clustered \in BOOLEAN /\ relocated \in BOOLEAN
      BY LoginsAssumption DEF Init
    <3> QED
      BY <3>1, <3>2, LoginsAssumption DEF Init, Files, Keys, Passwords
  <2>2. \A b \in Browsers : browser[b] \in BrowserType /\ BrowserOK(browser[b])
    BY OutIs DEF Init, BrowserOK
  <2>3. Calls
    BY <2>2, FreeType, FreeOK DEF Init, Calls
  <2> QED
    BY <2>1, <2>3 DEF Shape
<1>2. Shape /\ [Next]_vars => Shape'
  <2>1. ASSUME Shape, UNCHANGED vars
        PROVE  Shape'
    BY <2>1 DEF Shape, Calls, Files, vars
  <2> QED
    BY <2>1, NextFiles, NextCalls DEF Shape
<1> QED
  BY <1>1, <1>2, PTL DEF Spec

-----------------------------------------------------------------------------
(* What an operation does to the requests.                                  *)
Becomes(q, s, m, l) ==
  /\ \A o \in Requests : o # q => req'[o] = req[o]
  /\ Same(req'[q], req[q]) /\ req'[q].heard = req[q].heard
  /\ req'[q].step = s /\ req'[q].missing = m /\ req'[q].seen = l

Ends(q) == \A o \in Requests : req'[o] = IF o = q THEN Free ELSE req[o]

Begins(q, r) == \A o \in Requests : req'[o] = IF o = q THEN r ELSE req[o]

LEMMA StepBecomes ==
  ASSUME Calls, NEW q \in Requests, NEW s \in Steps, Step(q, s)
  PROVE  Becomes(q, s, req[q].missing, req[q].seen)
<1> DEFINE x == [req[q] EXCEPT !.step = s]
<1>1. /\ req' = [req EXCEPT ![q] = x]
      /\ x.step = s /\ x.missing = req[q].missing
      /\ x.seen = req[q].seen /\ x.heard = req[q].heard /\ Same(x, req[q])
  BY StepIs
<1> HIDE DEF x
<1> QED
  BY <1>1 DEF Becomes, Calls

LEMMA RecordBecomes ==
  ASSUME Calls, NEW q \in Requests, NEW x \in RequestType,
         req' = [req EXCEPT ![q] = x], Same(x, req[q]), x.heard = req[q].heard
  PROVE  Becomes(q, x.step, x.missing, x.seen)
BY DEF Becomes, Calls

LEMMA MissingBecomes ==
  ASSUME Calls, NEW q \in Requests, NEW s \in Steps, NEW m \in BOOLEAN,
         req' = [req EXCEPT ![q].step = s, ![q].missing = m]
  PROVE  Becomes(q, s, m, req[q].seen)
<1> DEFINE x == WithMissing(req[q], s, m)
<1>1. req' = [req EXCEPT ![q] = x]
  BY MissingField, ZenonT(40)
<1>2. req[q] \in RequestType
  BY DEF Calls
<1>3. /\ x \in RequestType /\ x.step = s /\ x.missing = m /\ x.seen = req[q].seen
      /\ x.heard = req[q].heard /\ Same(x, req[q])
  BY <1>2, StepMissing
<1> HIDE DEF x
<1>4. Becomes(q, x.step, x.missing, x.seen)
  BY <1>1, <1>3, RecordBecomes
<1> QED
  BY <1>3, <1>4

LEMMA SeenBecomes ==
  ASSUME Calls, NEW q \in Requests, NEW s \in Steps, NEW l \in SUBSET Challenges,
         req' = [req EXCEPT ![q].step = s, ![q].seen = l]
  PROVE  Becomes(q, s, req[q].missing, l)
<1> DEFINE x == WithSeen(req[q], s, l)
<1>1. req' = [req EXCEPT ![q] = x]
  BY Zenon DEF WithSeen, Calls, RequestType
<1>2. req[q] \in RequestType
  BY DEF Calls
<1>3. /\ x \in RequestType /\ x.step = s /\ x.seen = l /\ x.missing = req[q].missing
      /\ x.heard = req[q].heard /\ Same(x, req[q])
  BY <1>2, StepSeen
<1> HIDE DEF x
<1>4. Becomes(q, x.step, x.missing, x.seen)
  BY <1>1, <1>3, RecordBecomes
<1> QED
  BY <1>3, <1>4

LEMMA DoneEnds ==
  ASSUME Calls, NEW q \in Requests, req' = Done(q)
  PROVE  Ends(q)
BY DEF Ends, Done, Calls

LEMMA SentBegins ==
  ASSUME Calls, NEW q \in Requests, NEW r, Sent(q, r)
  PROVE  req[q] = Free /\ Begins(q, r)
BY DEF Begins, Sent, Calls

LEMMA TakeEffect ==
  ASSUME Shape, NEW q \in Requests, TakeChallenge(q)
  PROVE  \/ Ends(q) /\ challenges' = challenges
         \/ Becomes(q, "taken", challenges[req[q].chal] = "missing", req[q].seen)
<1>1. CASE challenges[req[q].chal] = "none"
  BY <1>1, DoneEnds DEF TakeChallenge, Refuse, Shape
<1>2. CASE challenges[req[q].chal] # "none"
  <2> DEFINE m == challenges[req[q].chal] = "missing"
  <2>1. /\ m \in BOOLEAN /\ "taken" \in Steps
        /\ req' = [req EXCEPT ![q].step = "taken", ![q].missing = m]
    BY <1>2, Zenon DEF TakeChallenge, Steps
  <2> HIDE DEF m
  <2>2. Becomes(q, "taken", m, req[q].seen)
    BY <2>1, MissingBecomes DEF Shape
  <2> QED
    BY <2>2 DEF m
<1> QED
  BY <1>1, <1>2

LEMMA VerifyEffect ==
  ASSUME Shape, NEW q \in Requests, Verify(q)
  PROVE  \/ Ends(q) /\ harm' = harm /\ proven' = proven
         \/ /\ req[q].pw = verifier /\ harm' = Harmed
            /\ proven' = [proven EXCEPT ![req[q].chal] = verifier]
            /\ Becomes(q, IF req[q].missing THEN "record" ELSE "sessions", FALSE,
                       req[q].seen)
<1>1. CASE req[q].pw # verifier
  BY <1>1, DoneEnds DEF Verify, Refuse, Shape
<1>2. CASE req[q].pw = verifier
  <2> DEFINE s == IF req[q].missing THEN "record" ELSE "sessions"
  <2>1. s \in Steps
    BY DEF Steps, Turn
  <2>2. req' = [req EXCEPT ![q].step = s, ![q].missing = FALSE]
    BY <1>2 DEF Verify
  <2> HIDE DEF s
  <2>3. Becomes(q, s, FALSE, req[q].seen)
    BY <2>1, <2>2, MissingBecomes DEF Shape
  <2>4. harm' = Harmed /\ proven' = [proven EXCEPT ![req[q].chal] = verifier]
    BY <1>2 DEF Verify
  <2> QED
    BY <1>2, <2>3, <2>4 DEF s
<1> QED
  BY <1>1, <1>2

LEMMA ReadEffect ==
  ASSUME Shape, NEW q \in Requests, ReadSessions(q)
  PROVE  Becomes(q, "save", req[q].missing, logins)
<1>1. /\ logins \in SUBSET Challenges /\ "save" \in Steps
      /\ req' = [req EXCEPT ![q].step = "save", ![q].seen = logins]
  BY Zenon DEF Shape, Files, ReadSessions, Steps, Turn
<1> QED
  BY <1>1, SeenBecomes DEF Shape

LEMMA SaveEffect ==
  ASSUME Shape, NEW q \in Requests, SaveSession(q)
  PROVE  Becomes(q, "answer", req[q].missing, {})
<1>1. /\ {} \in SUBSET Challenges /\ "answer" \in Steps
      /\ req' = [req EXCEPT ![q].step = "answer", ![q].seen = {}]
  BY Zenon DEF SaveSession, Steps, Turn
<1> QED
  BY <1>1, SeenBecomes DEF Shape

LEMMA BeginChangeEffect ==
  ASSUME Shape, NEW q \in Requests, BeginChange(q)
  PROVE  \/ Ends(q) /\ harm' = harm
         \/ /\ harm' = Harmed /\ Becomes(q, "password", Status # "ready", req[q].seen)
            /\ Status = "ready" => req[q].key # None
<1>1. CASE req[q].pw # verifier \/ (Status = "ready" /\ req[q].key = None)
  BY <1>1, DoneEnds DEF BeginChange, Shape
<1>2. CASE ~(req[q].pw # verifier \/ (Status = "ready" /\ req[q].key = None))
  <2> DEFINE m == ~(Status = "ready")
  <2>1. /\ m \in BOOLEAN /\ "password" \in Steps
        /\ req' = [req EXCEPT ![q].step = "password", ![q].missing = m]
        /\ harm' = Harmed
    BY <1>2, Zenon DEF BeginChange, Steps, Turn
  <2> HIDE DEF m
  <2>2. Becomes(q, "password", m, req[q].seen)
    BY <2>1, MissingBecomes DEF Shape
  <2> QED
    BY <1>2, <2>1, <2>2 DEF m
<1> QED
  BY <1>1, <1>2

LEMMA WriteEffect ==
  ASSUME Shape, NEW q \in Requests
  PROVE  /\ WriteRecord(q) => Becomes(q, "share", req[q].missing, req[q].seen)
         /\ WriteShare(q) => Becomes(q, "sessions", req[q].missing, req[q].seen)
         /\ BeginRevoke(q) => Becomes(q, "sessions", req[q].missing, req[q].seen)
         /\ WritePassword(q) => Becomes(q, "end", req[q].missing, req[q].seen)
<1>1. {"share", "sessions", "end"} \subseteq Steps
  BY DEF Steps, Turn
<1> QED
  BY <1>1, StepBecomes DEF Shape, WriteRecord, WriteShare, BeginRevoke, WritePassword

LEMMA EndSessionsEffect ==
  ASSUME Shape, NEW q \in Requests, EndSessions(q)
  PROVE  \/ Ends(q) /\ AfterSessions(q) = "free"
         \/ /\ AfterSessions(q) # "free"
            /\ Becomes(q, AfterSessions(q), req[q].missing, req[q].seen)
<1>1. CASE AfterSessions(q) = "free"
  BY <1>1, DoneEnds DEF EndSessions, Shape
<1>2. CASE AfterSessions(q) # "free"
  <2>1. AfterSessions(q) \in Steps
    BY DEF AfterSessions, Steps, Turn
  <2>2. Step(q, AfterSessions(q))
    BY <1>2 DEF EndSessions
  <2> QED
    BY <1>2, <2>1, <2>2, StepBecomes DEF Shape
<1> QED
  BY <1>1, <1>2

LEMMA ForgetEffect ==
  ASSUME Shape, NEW q \in Requests, ForgetShare(q)
  PROVE  Becomes(q, "invalidate", req[q].missing, req[q].seen)
<1>1. "invalidate" \in Steps
  BY DEF Steps, Turn
<1>2. Step(q, "invalidate")
  BY DEF ForgetShare
<1> QED
  BY <1>1, <1>2, StepBecomes DEF Shape

LEMMA EndEffect ==
  ASSUME Shape, NEW q \in Requests,
         Answer(q) \/ SaveRevoked(q) \/ WrapRecord(q) \/ InvalidateRecord(q)
  PROVE  Ends(q)
BY DoneEnds DEF Shape, Answer, SaveRevoked, WrapRecord, InvalidateRecord

(* What a request is once an operation of it is done.                       *)
Onward(q) ==
  /\ \A o \in Requests : o # q => req'[o] = req[o]
  /\ req'[q] = Free \/ Same(req'[q], req[q])

LEMMA HandleOnward ==
  ASSUME Shape, NEW q \in Requests, Handle(q)
  PROVE  Onward(q)
<1>1. ASSUME NEW s, NEW m, NEW l, Becomes(q, s, m, l)
      PROVE  Onward(q)
  BY <1>1 DEF Becomes, Onward
<1>2. ASSUME Ends(q)
      PROVE  Onward(q)
  BY <1>2 DEF Ends, Onward
<1>3. CASE TakeChallenge(q) \/ Verify(q) \/ ReadSessions(q) \/ SaveSession(q)
  BY <1>1, <1>2, <1>3, TakeEffect, VerifyEffect, ReadEffect, SaveEffect
<1>4. CASE WriteRecord(q) \/ WriteShare(q) \/ BeginRevoke(q) \/ WritePassword(q)
  BY <1>1, <1>4, WriteEffect
<1>5. CASE BeginChange(q) \/ EndSessions(q) \/ ForgetShare(q)
  BY <1>1, <1>2, <1>5, BeginChangeEffect, EndSessionsEffect, ForgetEffect
<1>6. CASE Answer(q) \/ SaveRevoked(q) \/ WrapRecord(q) \/ InvalidateRecord(q)
  BY <1>2, <1>6, EndEffect
<1> QED
  BY <1>3, <1>4, <1>5, <1>6 DEF Handle

(* What browsers and commands begin.                                        *)
Opening(q, r) ==
  /\ Begins(q, r) /\ req[q] = Free /\ r.missing = FALSE
  /\ \/ r.step = "sent"
     \/ r.step = "password" /\ r.op = "reset" /\ r.key = None

LEMMA SendLoginEffect ==
  ASSUME Shape, NEW b \in Browsers, NEW q \in Requests, NEW p \in Workers,
         SendLogin(b, q, p)
  PROVE  \E r \in RequestType :
           /\ Opening(q, r) /\ r.step = "sent" /\ r.chal = browser[b].chal
           /\ r.key = None
<1>0. browser[b] \in BrowserType
  BY DEF Shape, Calls
<1> DEFINE r == LoginRequest(b, p)
<1>1. /\ r \in RequestType /\ r.step = "sent" /\ r.chal = browser[b].chal
      /\ r.key = None /\ r.missing = FALSE
  BY <1>0, LoginRequestIs
<1>2. Sent(q, r)
  BY DEF SendLogin
<1> HIDE DEF r
<1>3. Begins(q, r) /\ req[q] = Free
  BY <1>2, SentBegins DEF Shape
<1> QED
  BY <1>1, <1>3 DEF Opening

LEMMA SendLogoutEffect ==
  ASSUME Shape, NEW b \in Browsers, NEW q \in Requests, NEW p \in Workers,
         SendLogout(b, q, p)
  PROVE  \E r \in RequestType :
           /\ Opening(q, r) /\ r.step = "sent" /\ r.chal = browser[b].chal
           /\ r.key = None
<1>0. browser[b].chal \in SomeChallenge
  BY DEF Shape, Calls, BrowserType, SomeChallenge
<1>00. PICK c \in SomeChallenge : c = browser[b].chal
  BY <1>0
<1> DEFINE r == LogoutRequest(b, p, c)
<1>1. r \in RequestType /\ r.step = "sent"
  BY LogoutIs, ZenonT(40)
<1>2. r.chal = c /\ r.key = None /\ r.missing = FALSE
  BY LogoutIsOf
<1>3. Sent(q, r)
  BY <1>00, Zenon DEF SendLogout, LogoutRequest
<1> HIDE DEF r
<1>4. Begins(q, r) /\ req[q] = Free
  BY <1>3, SentBegins DEF Shape
<1> QED
  BY <1>1, <1>2, <1>4, <1>00 DEF Opening

LEMMA SendChangeEffect ==
  ASSUME Shape, NEW b \in Browsers, NEW q \in Requests, NEW p \in Workers,
         SendChange(b, q, p)
  PROVE  \E r \in RequestType :
           /\ Opening(q, r) /\ r.step = "sent" /\ r.chal = browser[b].chal
           /\ r.key = browser[b].key
<1>0. /\ browser[b].chal \in SomeChallenge
      /\ browser[b].key \in SomeKey /\ browser[b].share \in SomeKey
      /\ verifier \in Passwords /\ issued + 1 \in Passwords
  BY LoginsAssumption DEF BrowserType, SendChange, NewPassword, Shape, Calls,
     Files, Passwords, SomeChallenge, SomeKey
<1>1. PICK r \in RequestType :
        /\ r = ChangeRequest(b, p, browser[b].chal, verifier, issued + 1,
                             browser[b].key, browser[b].share)
        /\ r.step = "sent" /\ r.op = "change" /\ r.by = b /\ r.heard = TRUE
  BY <1>0, ChangeIs
<1>2. r.chal = browser[b].chal /\ r.key = browser[b].key /\ r.missing = FALSE
  BY <1>0, <1>1, FreeType, ZenonT(40) DEF ChangeRequest, RequestType, Processes,
                                      SomeChallenge, SomeKey
<1>3. Sent(q, r)
  BY <1>1, Zenon DEF SendChange, ChangeRequest
<1>4. Begins(q, r) /\ req[q] = Free
  BY <1>3, SentBegins DEF Shape
<1> QED
  BY <1>1, <1>2, <1>4 DEF Opening

LEMMA BeginResetEffect ==
  ASSUME Shape, NEW q \in Requests, BeginReset(q)
  PROVE  \E r \in RequestType :
           Opening(q, r) /\ r.chal = None /\ r.key = None
<1> DEFINE r == ResetRequest(issued + 1)
<1>0. issued + 1 \in Passwords
  BY LoginsAssumption DEF BeginReset, NewPassword, Shape, Files, Passwords
<1>1. /\ r \in RequestType /\ r.step = "password" /\ r.op = "reset"
      /\ r.chal = None /\ r.key = None /\ r.missing = FALSE
  BY <1>0, ResetIs
<1>2. Sent(q, r)
  BY Zenon DEF BeginReset, ResetRequest
<1> HIDE DEF r
<1>3. Begins(q, r) /\ req[q] = Free
  BY <1>2, SentBegins DEF Shape
<1> QED
  BY <1>1, <1>3 DEF Opening

(* A request that begins, in one lemma.                                     *)
LEMMA OpeningEffect ==
  ASSUME Shape, NEW b \in Browsers, NEW q \in Requests, NEW p \in Workers,
         SendLogin(b, q, p) \/ SendLogout(b, q, p) \/ SendChange(b, q, p)
  PROVE  \E r \in RequestType :
           /\ Opening(q, r) /\ r.step = "sent" /\ r.chal = browser[b].chal
           /\ r.key \in {None, browser[b].key}
BY SendLoginEffect, SendLogoutEffect, SendChangeEffect

Resends(b, q, o, u, r) ==
  /\ \A i \in Requests :
       req'[i] = IF i = q THEN r ELSE IF i = o THEN u ELSE req[i]
  /\ Same(u, req[o]) /\ u.step = req[o].step
  /\ u.missing = req[o].missing /\ u.seen = req[o].seen
  /\ r.step = "sent" /\ r.missing = FALSE /\ r.key = None
  /\ r.chal = browser[b].chal /\ req[q] = Free /\ o # q

LEMMA ResendEffect ==
  ASSUME Shape, NEW b \in Browsers, NEW q \in Requests, NEW o \in Requests,
         NEW p \in Workers, ResendLogin(b, q, o, p)
  PROVE  \E u, r \in RequestType : Resends(b, q, o, u, r)
<1> DEFINE u == [req[o] EXCEPT !.heard = FALSE]
           r == LoginRequest(b, p)
<1>1. req[o].heard /\ req[q] = Free
  BY DEF ResendLogin
<1>2. o # q
  BY <1>1, FreeType
<1>3. req' = [[req EXCEPT ![o] = u] EXCEPT ![q] = r]
  BY Zenon DEF ResendLogin, Shape, Calls
<1>4. req[o] \in RequestType /\ browser[b] \in BrowserType
  BY DEF Shape, Calls
<1>5. /\ u \in RequestType /\ u.step = req[o].step
      /\ u.missing = req[o].missing /\ u.seen = req[o].seen /\ Same(u, req[o])
  BY <1>4, UnheardIs
<1>6. /\ r \in RequestType /\ r.step = "sent" /\ r.chal = browser[b].chal
      /\ r.key = None /\ r.missing = FALSE
  BY <1>4, LoginRequestIs
<1> HIDE DEF u, r
<1>7. \A i \in Requests : req'[i] = IF i = q THEN r ELSE IF i = o THEN u ELSE req[i]
  BY <1>2, <1>3 DEF Shape, Calls
<1> QED
  BY <1>1, <1>2, <1>5, <1>6, <1>7 DEF Resends

-----------------------------------------------------------------------------
(* A challenge is with no one, or in its area, or with the one login that   *)
(* took it, or used up.                                                     *)
Carries(r, c) == r.op = "login" /\ r.chal = c
Holds(r, c) ==
  Carries(r, c) /\ r.step \in {"taken", "record", "share", "sessions", "save"}

Untouched ==
  \A c \in fresh :
    /\ challenges[c] = "none" /\ used[c] = 0
    /\ \A q \in Requests : ~Carries(req[q], c)
    /\ \A b \in Browsers : browser[b].chal # c

Held ==
  \A c \in Challenges :
    /\ \A q \in Requests : Holds(req[q], c) => challenges[c] = "none" /\ used[c] = 0
    /\ \A q, o \in Requests : q # o => ~(Holds(req[q], c) /\ Holds(req[o], c))

Spent ==
  \A c \in Challenges : used[c] = 0 \/ (used[c] = 1 /\ challenges[c] = "none")

ChallengesInv == Untouched /\ Held /\ Spent

(* A step that takes, asks for and uses no challenge.                       *)
LEMMA ChallengesKept ==
  ASSUME Shape, ChallengesInv, fresh' = fresh, used' = used,
         \A c \in Challenges : challenges'[c] \in {challenges[c], "none"},
         \A q \in Requests : \A c \in fresh : ~Carries(req'[q], c),
         \A q \in Requests : \A c \in Challenges : Holds(req'[q], c) => Holds(req[q], c),
         \A b \in Browsers : \A c \in fresh : browser'[b].chal # c
  PROVE  ChallengesInv'
<1> HIDE DEF Carries, Holds
<1>0. fresh \subseteq Challenges
  BY DEF Shape, Files
<1>1. Untouched'
  BY <1>0 DEF ChallengesInv, Untouched
<1>2. Held'
  BY DEF ChallengesInv, Held
<1>3. Spent'
  BY DEF ChallengesInv, Spent
<1> QED
  BY <1>1, <1>2, <1>3 DEF ChallengesInv

LEMMA FreeHolds ==
  \A c \in Challenges : ~Carries(Free, c) /\ ~Holds(Free, c)
BY FreeType, LoginsAssumption DEF Carries, Holds

LEMMA SameCarries ==
  ASSUME NEW x, NEW r, Same(x, r), NEW c, Carries(x, c)
  PROVE  Carries(r, c)
BY DEF Same, Carries

(* What a browser is after an operation names no other challenge.           *)
LEMMA HandleBrowser ==
  ASSUME Shape, NEW q \in Requests, Handle(q), NEW b \in Browsers
  PROVE  \/ browser'[b] = browser[b] \/ browser'[b] = Out
         \/ /\ Answer(q) /\ req[q].op = "login"
            /\ \/ browser'[b] = In(req[q].chal, record.key, SharePayload)
               \/ browser'[b] = In(req[q].chal, None, None)
<1>1. CASE Answer(q)
  <2>1. req[q].op = "login"
    BY <1>1 DEF Answer, Shape, Calls, RequestOK
  <2> QED
    BY <1>1, <2>1 DEF Answer, Shape, Calls
<1>2. CASE TakeChallenge(q) \/ Verify(q) \/ EndSessions(q)
  BY <1>2 DEF TakeChallenge, Verify, EndSessions, Refuse, Shape, Calls
<1>3. CASE SaveRevoked(q) \/ WrapRecord(q)
  BY <1>3 DEF SaveRevoked, WrapRecord, Shape, Calls
<1>4. CASE ReadSessions(q) \/ SaveSession(q) \/ WriteRecord(q) \/ WriteShare(q)
  BY <1>4 DEF ReadSessions, SaveSession, WriteRecord, WriteShare
<1>5. CASE \/ BeginRevoke(q) \/ BeginChange(q) \/ WritePassword(q)
           \/ ForgetShare(q) \/ InvalidateRecord(q)
  BY <1>5 DEF BeginRevoke, BeginChange, WritePassword, ForgetShare, InvalidateRecord
<1> QED
  BY <1>1, <1>2, <1>3, <1>4, <1>5 DEF Handle

LEMMA HandleBrowserChal ==
  ASSUME Shape, ChallengesInv, NEW q \in Requests, Handle(q)
  PROVE  \A b \in Browsers : \A c \in fresh : browser'[b].chal # c
<1> SUFFICES ASSUME NEW b \in Browsers, NEW c \in fresh
             PROVE  browser'[b].chal # c
  OBVIOUS
<1>0. c \in Challenges /\ c # None
  BY LoginsAssumption DEF Shape, Files
<1>1. browser[b].chal # c /\ Out.chal # c
  BY <1>0, OutIs DEF ChallengesInv, Untouched
<1>2. req[q].op = "login" => req[q].chal # c
  BY DEF ChallengesInv, Untouched, Carries
<1>3. \A k, s : In(req[q].chal, k, s).chal = req[q].chal
  BY DEF In
<1> QED
  BY <1>1, <1>2, <1>3, HandleBrowser

LEMMA HandleHolds ==
  ASSUME Shape, NEW q \in Requests, Handle(q), ~TakeChallenge(q), ~SaveSession(q),
         NEW o \in Requests, NEW c \in Challenges, Holds(req'[o], c)
  PROVE  Holds(req[o], c)
<1>1. CASE o # q
  BY <1>1, HandleOnward DEF Onward
<1>2. CASE o = q
  <2>0. req[q].op = "login" /\ Carries(req[q], c) /\ req'[q] # Free
    BY <1>2, HandleOnward, FreeHolds, SameCarries DEF Onward, Holds, Carries
  <2>1. ~Ends(q)
    BY <2>0 DEF Ends
  <2>2. CASE Verify(q)
    BY <1>2, <2>0, <2>2 DEF Verify, Holds
  <2>3. CASE WriteRecord(q) \/ WriteShare(q) \/ ReadSessions(q)
    BY <1>2, <2>0, <2>3 DEF WriteRecord, WriteShare, ReadSessions, Holds
  <2>4. CASE Answer(q) \/ SaveRevoked(q) \/ WrapRecord(q) \/ InvalidateRecord(q)
    BY <2>1, <2>4, EndEffect
  <2>5. CASE \/ BeginRevoke(q) \/ BeginChange(q) \/ WritePassword(q)
             \/ EndSessions(q) \/ ForgetShare(q)
    BY <2>0, <2>5 DEF BeginRevoke, BeginChange, WritePassword, EndSessions, ForgetShare,
       Shape, Calls, RequestOK
  <2> QED
    BY <2>2, <2>3, <2>4, <2>5 DEF Handle
<1> QED
  BY <1>1, <1>2

LEMMA HandleCarries ==
  ASSUME Shape, ChallengesInv, NEW q \in Requests, Handle(q)
  PROVE  \A o \in Requests : \A c \in fresh : ~Carries(req'[o], c)
<1> SUFFICES ASSUME NEW o \in Requests, NEW c \in fresh
             PROVE  ~Carries(req'[o], c)
  OBVIOUS
<1>1. c \in Challenges /\ ~Carries(req[o], c)
  BY DEF Shape, Files, ChallengesInv, Untouched
<1>2. req'[o] = req[o] \/ req'[o] = Free \/ Same(req'[o], req[o])
  BY HandleOnward DEF Onward
<1> QED
  BY <1>1, <1>2, FreeHolds, SameCarries

LEMMA HandleChallenges ==
  ASSUME Shape, ChallengesInv, NEW q \in Requests, Handle(q)
  PROVE  ChallengesInv'
<1>0. /\ \A b \in Browsers : \A c \in fresh : browser'[b].chal # c
      /\ \A o \in Requests : \A c \in fresh : ~Carries(req'[o], c)
      /\ fresh' = fresh
  BY HandleBrowserChal, HandleCarries DEF Handle, TakeChallenge, Verify, WriteRecord,
     WriteShare, ReadSessions, SaveSession, Answer, BeginRevoke, SaveRevoked,
     BeginChange, WritePassword, EndSessions, WrapRecord, ForgetShare, InvalidateRecord
<1>c. fresh \subseteq Challenges
  BY DEF Shape, Files
<1>1. CASE ~TakeChallenge(q) /\ ~SaveSession(q)
  <2>1. used' = used /\ challenges' = challenges
    BY <1>1 DEF Handle, TakeChallenge, Verify, WriteRecord, WriteShare, ReadSessions,
       SaveSession, Answer, BeginRevoke, SaveRevoked, BeginChange, WritePassword,
       EndSessions, WrapRecord, ForgetShare, InvalidateRecord, ghostVars
  <2> QED
    BY <1>0, <1>1, <2>1, HandleHolds, ChallengesKept
<1>2. CASE TakeChallenge(q)
  <2> DEFINE c == req[q].chal
  <2>0. /\ c \in Challenges /\ Carries(req[q], c) /\ ~Holds(req[q], c)
        /\ used' = used /\ c \notin fresh
    BY <1>2 DEF TakeChallenge, Shape, Calls, RequestOK, Carries, Holds, ghostVars,
       ChallengesInv, Untouched
  <2>1. CASE challenges[c] = "none"
    <3>1. Ends(q) /\ challenges' = challenges
      BY <1>2, <2>1, DoneEnds DEF TakeChallenge, Refuse, Shape
    <3>2. \A o \in Requests : \A d \in Challenges : Holds(req'[o], d) => Holds(req[o], d)
      BY <3>1, FreeHolds DEF Ends
    <3> QED
      BY <1>0, <2>0, <3>1, <3>2, ChallengesKept
  <2>2. CASE challenges[c] # "none"
    <3>1. /\ \A o \in Requests : o # q => req'[o] = req[o]
          /\ req'[q] = Free \/ Same(req'[q], req[q])
      BY <1>2, HandleOnward DEF Onward, Handle
    <3>2. challenges' = [challenges EXCEPT ![c] = "none"]
      BY <1>2, <2>2 DEF TakeChallenge
    <3>3. used[c] = 0 /\ \A o \in Requests : ~Holds(req[o], c)
      BY <2>0, <2>2 DEF ChallengesInv, Held, Spent
    <3>4. \A o \in Requests : \A d \in Challenges :
            Holds(req'[o], d) => Holds(req[o], d) \/ (o = q /\ d = c)
      BY <2>0, <3>1, FreeHolds DEF Same, Holds, Carries
    <3>5. \A d \in Challenges : challenges'[d] = IF d = c THEN "none" ELSE challenges[d]
      BY <3>2 DEF Shape, Files
    <3> HIDE DEF c
    <3>6. Untouched'
      BY <1>0, <1>c, <2>0, <3>5 DEF ChallengesInv, Untouched
    <3>7. Held'
      BY <2>0, <3>3, <3>4, <3>5 DEF ChallengesInv, Held
    <3>8. Spent'
      BY <2>0, <3>5 DEF ChallengesInv, Spent
    <3> QED
      BY <3>6, <3>7, <3>8 DEF ChallengesInv
  <2> QED
    BY <2>1, <2>2
<1>3. CASE SaveSession(q)
  <2> DEFINE c == req[q].chal
  <2>0. /\ c \in Challenges /\ Holds(req[q], c) /\ challenges' = challenges
        /\ used' = [used EXCEPT ![c] = @ + 1]
    BY <1>3 DEF SaveSession, Shape, Calls, RequestOK, Carries, Holds
  <2>1. /\ \A o \in Requests : o # q => req'[o] = req[o]
        /\ req'[q].step = "answer"
    BY <1>3, SaveEffect DEF Becomes
  <2>2. \A d \in Challenges : used'[d] = IF d = c THEN used[c] + 1 ELSE used[d]
    BY <2>0 DEF Shape, Files
  <2>3. used[c] = 0 /\ challenges[c] = "none"
    BY <2>0 DEF ChallengesInv, Held
  <2>4. c \notin fresh
    BY <2>0 DEF ChallengesInv, Untouched, Holds
  <2>5. \A o \in Requests : \A d \in Challenges :
          Holds(req'[o], d) => Holds(req[o], d) /\ o # q
    BY <2>1 DEF Holds
  <2>6. \A o \in Requests : o # q => ~Holds(req[o], c)
    BY <2>0 DEF ChallengesInv, Held
  <2> HIDE DEF c
  <2>7. Untouched'
    BY <1>0, <1>c, <2>0, <2>2, <2>4 DEF ChallengesInv, Untouched
  <2>8. Held'
    BY <2>0, <2>2, <2>5, <2>6 DEF ChallengesInv, Held
  <2>9. Spent'
    BY <2>0, <2>2, <2>3 DEF ChallengesInv, Spent
  <2> QED
    BY <2>7, <2>8, <2>9 DEF ChallengesInv
<1> QED
  BY <1>1, <1>2, <1>3

LEMMA FreshIs ==
  ASSUME Shape, NEW c \in fresh
  PROVE  c \in Challenges /\ c # None
BY LoginsAssumption DEF Shape, Files

LEMMA OpeningChallenges ==
  ASSUME Shape, ChallengesInv, NEW q \in Requests, NEW r \in RequestType, Opening(q, r),
         \A c \in fresh : r.chal # c,
         browser' = browser, fresh' = fresh, used' = used, challenges' = challenges
  PROVE  ChallengesInv'
<1>1. \A o \in Requests : req'[o] = IF o = q THEN r ELSE req[o]
  BY DEF Opening, Begins
<1>2. \A c \in Challenges : ~Holds(r, c)
  BY DEF Opening, Holds
<1>3. \A o \in Requests : \A c \in fresh : ~Carries(req'[o], c)
  BY <1>1 DEF Carries, ChallengesInv, Untouched
<1>4. \A o \in Requests : \A c \in Challenges : Holds(req'[o], c) => Holds(req[o], c)
  BY <1>1, <1>2
<1>5. \A b \in Browsers : \A c \in fresh : browser'[b].chal # c
  BY DEF ChallengesInv, Untouched
<1> QED
  BY <1>3, <1>4, <1>5, ChallengesKept

LEMMA SendChallenges ==
  ASSUME Shape, ChallengesInv, NEW b \in Browsers, NEW q \in Requests, NEW p \in Workers,
         SendLogin(b, q, p) \/ SendLogout(b, q, p) \/ SendChange(b, q, p)
  PROVE  ChallengesInv'
<1>1. PICK r \in RequestType : Opening(q, r) /\ r.chal = browser[b].chal
  BY OpeningEffect
<1>2. \A c \in fresh : r.chal # c
  BY <1>1 DEF ChallengesInv, Untouched
<1>3. browser' = browser /\ fresh' = fresh /\ used' = used /\ challenges' = challenges
  BY DEF SendLogin, SendLogout, SendChange, ghostVars
<1> QED
  BY <1>1, <1>2, <1>3, OpeningChallenges

LEMMA ResetChallenges ==
  ASSUME Shape, ChallengesInv, NEW q \in Requests, BeginReset(q)
  PROVE  ChallengesInv'
<1>1. PICK r \in RequestType : Opening(q, r) /\ r.chal = None
  BY BeginResetEffect
<1>2. \A c \in fresh : r.chal # c
  BY <1>1, FreshIs
<1>3. browser' = browser /\ fresh' = fresh /\ used' = used /\ challenges' = challenges
  BY DEF BeginReset
<1> QED
  BY <1>1, <1>2, <1>3, OpeningChallenges

LEMMA ResendChallenges ==
  ASSUME Shape, ChallengesInv, NEW b \in Browsers, NEW q \in Requests,
         NEW o \in Requests, NEW p \in Workers, ResendLogin(b, q, o, p)
  PROVE  ChallengesInv'
<1>0. PICK u \in RequestType, r \in RequestType : Resends(b, q, o, u, r)
  BY ResendEffect
<1>1. /\ \A i \in Requests :
           req'[i] = IF i = q THEN r ELSE IF i = o THEN u ELSE req[i]
      /\ Same(u, req[o]) /\ u.step = req[o].step
      /\ r.step = "sent" /\ r.chal = browser[b].chal
  BY <1>0 DEF Resends
<1>2. /\ browser' = browser /\ fresh' = fresh /\ used' = used
      /\ challenges' = challenges
  BY DEF ResendLogin, ghostVars
<1>3. \A c \in fresh : r.chal # c /\ ~Carries(u, c)
  BY <1>1, SameCarries DEF ChallengesInv, Untouched
<1>4. \A i \in Requests : \A c \in fresh : ~Carries(req'[i], c)
  BY <1>1, <1>3 DEF ChallengesInv, Untouched, Carries
<1>5. \A c \in Challenges : ~Holds(r, c) /\ (Holds(u, c) => Holds(req[o], c))
  BY <1>1 DEF Holds, Carries, Same
<1>6. \A i \in Requests : \A c \in Challenges : Holds(req'[i], c) => Holds(req[i], c)
  BY <1>1, <1>5
<1>7. \A a \in Browsers : \A c \in fresh : browser'[a].chal # c
  BY <1>2 DEF ChallengesInv, Untouched
<1> QED
  BY <1>2, <1>4, <1>6, <1>7, ChallengesKept

LEMMA DroppedChallenges ==
  ASSUME Shape, ChallengesInv, NEW gone \in SUBSET Requests, Dropped(gone),
         fresh' = fresh, used' = used,
         \A c \in Challenges : challenges'[c] \in {challenges[c], "none"}
  PROVE  ChallengesInv'
<1>1. \A q \in Requests : req'[q] = IF q \in gone THEN Free ELSE req[q]
  BY DEF Dropped
<1>2. \A q \in Requests : \A c \in fresh : ~Carries(req'[q], c)
  BY <1>1, FreshIs, FreeHolds DEF ChallengesInv, Untouched
<1>3. \A q \in Requests : \A c \in Challenges : Holds(req'[q], c) => Holds(req[q], c)
  BY <1>1, FreeHolds
<1>4. \A b \in Browsers : browser'[b] = Out \/ browser'[b] = browser[b]
  BY DEF Dropped
<1>5. \A b \in Browsers : \A c \in fresh : browser'[b].chal # c
  BY <1>4, FreshIs, OutIs DEF ChallengesInv, Untouched
<1> QED
  BY <1>2, <1>3, <1>5, ChallengesKept

LEMMA LoadBrowser ==
  ASSUME Shape, NEW b \in Browsers, Load(b), NEW a \in Browsers
  PROVE  \/ browser'[a] = browser[a] \/ browser'[a] = Out
         \/ a = b /\ browser'[a] = In(browser[a].chal, None, None)
BY DEF Load, Shape, Calls

LEMMA LoadChallenges ==
  ASSUME Shape, ChallengesInv, NEW b \in Browsers, Load(b)
  PROVE  ChallengesInv'
<1>1. \A k, s, c : In(c, k, s).chal = c
  BY DEF In
<1>2. \A a \in Browsers : \A c \in fresh : browser'[a].chal # c
  BY <1>1, LoadBrowser, FreshIs, OutIs DEF ChallengesInv, Untouched
<1>3. /\ req' = req /\ fresh' = fresh /\ used' = used
      /\ challenges' = challenges
  BY DEF Load, ghostVars
<1>4. \A q \in Requests : \A c \in fresh : ~Carries(req'[q], c)
  BY <1>3 DEF ChallengesInv, Untouched
<1> QED
  BY <1>2, <1>3, <1>4, ChallengesKept

LEMMA AskBrowser ==
  ASSUME Shape, NEW b \in Browsers, NEW c \in Challenges, NEW p \in Workers,
         AskChallenge(b, c, p)
  PROVE  \E x \in BrowserType :
           /\ x.chal = c /\ x.key = None
           /\ \A a \in Browsers : browser'[a] = IF a = b THEN x ELSE browser[a]
<1> DEFINE m == Status = "missing"
           x == AskedWith(c, verifier, m)
<1>1. m \in BOOLEAN /\ verifier \in Passwords
  BY DEF Shape, Files
<1>2. browser' = [browser EXCEPT ![b] = x]
  BY Zenon DEF AskChallenge, AskedWith
<1> HIDE DEF m
<1>3. x \in BrowserType /\ x.chal = c /\ x.key = None
  BY <1>1, AskedIs
<1> HIDE DEF x
<1> QED
  BY <1>2, <1>3 DEF Shape, Calls

LEMMA AskChallenges ==
  ASSUME Shape, ChallengesInv, NEW b \in Browsers, NEW c \in Challenges, NEW p \in Workers,
         AskChallenge(b, c, p)
  PROVE  ChallengesInv'
<1>1. /\ c \in fresh /\ fresh' = fresh \ {c} /\ req' = req /\ used' = used
      /\ \A d \in Challenges : d # c => challenges'[d] = challenges[d]
  BY DEF AskChallenge, Shape, Files
<1>2. PICK x \in BrowserType :
        /\ x.chal = c
        /\ \A a \in Browsers : browser'[a] = IF a = b THEN x ELSE browser[a]
  BY AskBrowser
<1>3. used[c] = 0 /\ \A q \in Requests : ~Carries(req[q], c)
  BY <1>1 DEF ChallengesInv, Untouched
<1>4. Untouched'
  BY <1>1, <1>2, FreshIs DEF ChallengesInv, Untouched
<1>5. Held'
  BY <1>1, <1>3 DEF ChallengesInv, Held, Holds
<1>6. Spent'
  BY <1>1, <1>3 DEF ChallengesInv, Spent
<1> QED
  BY <1>4, <1>5, <1>6 DEF ChallengesInv

LEMMA ExpireChallenges ==
  ASSUME Shape, ChallengesInv, NEW d \in Challenges, Expire(d)
  PROVE  ChallengesInv'
<1>1. /\ req' = req /\ fresh' = fresh /\ used' = used /\ browser' = browser
      /\ \A c \in Challenges : challenges'[c] \in {challenges[c], "none"}
  BY DEF Expire, ghostVars, Shape, Files
<1>2. \A q \in Requests : \A c \in fresh : ~Carries(req'[q], c)
  BY <1>1 DEF ChallengesInv, Untouched
<1>3. \A b \in Browsers : \A c \in fresh : browser'[b].chal # c
  BY <1>1 DEF ChallengesInv, Untouched
<1> QED
  BY <1>1, <1>2, <1>3, ChallengesKept

LEMMA CrashChallenges ==
  ASSUME Shape, ChallengesInv, (\E p \in Processes : Crash(p)) \/ Restart
  PROVE  ChallengesInv'
<1>1. PICK gone \in SUBSET Requests : Dropped(gone)
  BY DEF Crash, Restart
<1>2. /\ fresh' = fresh /\ used' = used
      /\ \A c \in Challenges : challenges'[c] \in {challenges[c], "none"}
  BY DEF Crash, Restart, ghostVars
<1> QED
  BY <1>1, <1>2, DroppedChallenges

LEMMA NextChallenges ==
  ASSUME Shape, ChallengesInv, Next
  PROVE  ChallengesInv'
BY HandleChallenges, SendChallenges, ResetChallenges, ResendChallenges, LoadChallenges,
   AskChallenges, ExpireChallenges, CrashChallenges DEF Next

LEMMA ChallengesInvariance == Spec => []ChallengesInv
<1>1. Init => ChallengesInv
  BY OutIs, FreeHolds, LoginsAssumption DEF Init, ChallengesInv, Untouched, Held, Spent
<1>2. Shape /\ ChallengesInv /\ [Next]_vars => ChallengesInv'
  <2>1. ASSUME ChallengesInv, UNCHANGED vars
        PROVE  ChallengesInv'
    BY <2>1 DEF ChallengesInv, Untouched, Held, Spent, Holds, Carries, vars
  <2> QED
    BY <2>1, NextChallenges
<1> QED
  BY <1>1, <1>2, ShapeInvariance, PTL DEF Spec

(* Every variable has its type; a challenge is used once.                   *)
THEOREM TypeCorrect == Spec => []TypeOK
<1>1. Shape /\ ChallengesInv => TypeOK
  BY DEF Shape, Calls, Files, ChallengesInv, Spent, TypeOK
<1> QED
  BY <1>1, ShapeInvariance, ChallengesInvariance, PTL

(* A challenge completes one login at most (service.js:814): whoever took   *)
(* it holds it alone, and it is not in its area again.                      *)
THEOREM ChallengesAreUsedOnce == Spec => []ChallengeUsedOnce
<1>1. Shape /\ ChallengesInv => ChallengeUsedOnce
  <2> SUFFICES ASSUME Shape, ChallengesInv, NEW c \in Challenges, used[c] # 0,
                      NEW q \in Requests, req[q].chal = c, req[q].op = "login"
               PROVE  /\ used[c] = 1 /\ challenges[c] = "none"
                      /\ req[q].step \in {"free", "sent", "answer"}
    BY DEF ChallengesInv, Spent, ChallengeUsedOnce
  <2>1. used[c] = 1 /\ challenges[c] = "none"
    BY DEF ChallengesInv, Spent
  <2>2. ~Holds(req[q], c)
    BY DEF ChallengesInv, Held
  <2>3. req[q].step \in Turn \union {"free", "sent", "taken"}
    BY DEF Shape, Calls, RequestType
  <2>4. RequestOK(req[q])
    BY DEF Shape, Calls
  <2> QED
    BY <2>1, <2>2, <2>3, <2>4 DEF Holds, Carries, RequestOK, Turn
<1> QED
  BY <1>1, ShapeInvariance, ChallengesInvariance, PTL

-----------------------------------------------------------------------------
(* While no two turns overlap, one process at most is at the files, what it *)
(* read of the sessions is what is there, and none of them is older than    *)
(* the password.                                                            *)
Checked == {"record", "share", "sessions", "save"}

Proven(r) == r.op = "login" /\ r.step \in Checked => proven[r.chal] = verifier

Lone ==
  /\ \A q, o \in Requests : q # o => ~(req[q].step \in Turn /\ req[o].step \in Turn)
  /\ \A q \in Requests : req[q].step = "save" => req[q].seen = logins
  /\ logins = live

Renewed ==
  /\ \A q \in Requests : Proven(req[q])
  /\ (\A q \in Requests : req[q].step # "end") => \A c \in logins : proven[c] = verifier

SessionsInv ==
  "overlap" \notin harm => Lone /\ ("torn" \notin harm => Renewed)

LEMMA EnterAlone ==
  ASSUME SessionsInv, NEW q \in Requests, "overlap" \notin harm',
         \/ req[q].step \in Turn /\ harm \subseteq harm'
         \/ harm' = Harmed
  PROVE  /\ harm \subseteq harm' /\ Lone
         /\ \A o \in Requests : o # q => req[o].step \notin Turn
<1>1. CASE req[q].step \in Turn /\ harm \subseteq harm'
  BY <1>1 DEF SessionsInv, Lone
<1>2. CASE harm' = Harmed
  BY <1>2 DEF Harmed, Quiet, SessionsInv
<1> QED
  BY <1>1, <1>2

(* One request moves on, and writes neither sessions nor the password.      *)
LEMMA SessionsMove ==
  ASSUME Shape, SessionsInv, NEW q \in Requests, harm \subseteq harm',
         logins' = logins, live' = live, verifier' = verifier,
         \A c \in Challenges : proven'[c] \in {proven[c], verifier},
         \A o \in Requests : o # q => req'[o] = req[o],
         req'[q].step \in Turn => req[q].step \in Turn \/ harm' = Harmed,
         req'[q].step = "save" => req'[q].seen = logins,
         req[q].step = "end" => req'[q].step = "end",
         req'[q].op = "login" /\ req'[q].step \in Checked =>
           \/ proven'[req'[q].chal] = verifier
           \/ /\ req[q].op = "login" /\ req[q].step \in Checked
              /\ req'[q].chal = req[q].chal
  PROVE  SessionsInv'
<1> SUFFICES ASSUME "overlap" \notin harm'
             PROVE  Lone' /\ ("torn" \notin harm' => Renewed')
  BY DEF SessionsInv
<1>0. \A o \in Requests :
        req[o].op = "login" /\ req[o].step \in Checked => req[o].chal \in Challenges
  BY DEF Shape, Calls, RequestOK, Checked
<1>1. /\ Lone /\ ("torn" \notin harm' => Renewed)
      /\ req'[q].step \in Turn => \A o \in Requests : o # q => req[o].step \notin Turn
  BY EnterAlone DEF SessionsInv
<1>2. Lone'
  BY <1>1 DEF Lone
<1>3. ASSUME "torn" \notin harm'
      PROVE  Renewed'
  <2>1. Renewed
    BY <1>1, <1>3
  <2>2. \A o \in Requests : Proven(req[o])
    BY <2>1 DEF Renewed
  <2>3. ASSUME NEW o \in Requests, o # q
        PROVE  Proven(req[o])'
    BY <1>0, <2>2, <2>3 DEF Proven
  <2>4. Proven(req[q])'
    BY <1>0, <2>2 DEF Proven
  <2>5. ASSUME \A o \in Requests : req'[o].step # "end", NEW c \in logins'
        PROVE  proven'[c] = verifier'
    <3>1. \A o \in Requests : req[o].step # "end"
      BY <2>5
    <3>2. c \in Challenges /\ proven[c] = verifier
      BY <2>1, <2>5, <3>1 DEF Renewed, Shape, Files
    <3> QED
      BY <3>2
  <2> QED
    BY <2>3, <2>4, <2>5 DEF Renewed
<1> QED
  BY <1>2, <1>3

LEMMA SessionsSame ==
  ASSUME Shape, SessionsInv, harm \subseteq harm',
         logins' = logins, live' = live, verifier' = verifier, proven' = proven,
         \A o \in Requests :
           \/ req'[o] = req[o]
           \/ /\ req'[o].step \notin Turn
              /\ req[o].step = "end" => "torn" \in harm'
           \/ /\ req'[o].step = req[o].step /\ req'[o].op = req[o].op
              /\ req'[o].chal = req[o].chal /\ req'[o].seen = req[o].seen
  PROVE  SessionsInv'
<1> SUFFICES ASSUME "overlap" \notin harm'
             PROVE  Lone' /\ ("torn" \notin harm' => Renewed')
  BY DEF SessionsInv
<1>1. Lone /\ ("torn" \notin harm' => Renewed)
  BY DEF SessionsInv
<1>2. Lone'
  BY <1>1 DEF Lone, Turn
<1>3. ASSUME "torn" \notin harm'
      PROVE  Renewed'
  <2>1. \A o \in Requests : Proven(req[o])'
    BY <1>1, <1>3 DEF Renewed, Proven, Checked, Turn
  <2>2. ASSUME \A o \in Requests : req'[o].step # "end"
        PROVE  \A o \in Requests : req[o].step # "end"
    BY <1>3, <2>2
  <2> QED
    BY <1>1, <1>3, <2>1, <2>2 DEF Renewed
<1> QED
  BY <1>2, <1>3

LEMMA EndsSessions ==
  ASSUME Shape, SessionsInv, NEW q \in Requests, Ends(q), req[q].step # "end",
         harm \subseteq harm', logins' = logins, live' = live, verifier' = verifier,
         proven' = proven
  PROVE  SessionsInv'
<1>1. Free.step \notin Turn
  BY FreeType DEF Turn
<1>2. \A o \in Requests :
        \/ req'[o] = req[o]
        \/ /\ req'[o].step \notin Turn
           /\ req[o].step = "end" => "torn" \in harm'
  BY <1>1 DEF Ends
<1> QED
  BY <1>2, SessionsSame

(* A request goes from a step to another, neither the last before the       *)
(* sessions end.                                                            *)
LEMMA BecomesSessions ==
  ASSUME Shape, SessionsInv, NEW q \in Requests, NEW s, NEW m, NEW l, Becomes(q, s, m, l),
         harm \subseteq harm', logins' = logins, live' = live, verifier' = verifier,
         \A c \in Challenges : proven'[c] \in {proven[c], verifier},
         s \in Turn => req[q].step \in Turn \/ harm' = Harmed,
         s = "save" => l = logins, req[q].step # "end",
         req[q].op = "login" /\ s \in Checked =>
           proven'[req[q].chal] = verifier \/ req[q].step \in Checked
  PROVE  SessionsInv'
<1>1. /\ \A o \in Requests : o # q => req'[o] = req[o]
      /\ req'[q].step = s /\ req'[q].seen = l
      /\ req'[q].op = req[q].op /\ req'[q].chal = req[q].chal
  BY DEF Becomes, Same
<1> QED
  BY <1>1, SessionsMove

LEMMA LoginSessions ==
  ASSUME Shape, SessionsInv, NEW q \in Requests,
         \/ TakeChallenge(q) \/ Verify(q) \/ WriteRecord(q) \/ WriteShare(q)
         \/ ReadSessions(q) \/ Answer(q)
  PROVE  SessionsInv'
<1>0. "taken" \notin Turn /\ "taken" \notin Checked /\ "save" \in Turn
  BY DEF Turn, Checked
<1>1. CASE TakeChallenge(q)
  <2>1. /\ harm' = harm /\ logins' = logins /\ live' = live /\ verifier' = verifier
        /\ proven' = proven /\ req[q].step = "sent"
    BY <1>1 DEF TakeChallenge, fileVars, ghostVars
  <2> QED
    BY <1>0, <1>1, <2>1, TakeEffect, EndsSessions, BecomesSessions
<1>2. CASE Verify(q)
  <2>1. /\ logins' = logins /\ live' = live /\ verifier' = verifier
        /\ req[q].step = "taken"
    BY <1>2 DEF Verify, fileVars
  <2>2. CASE Ends(q) /\ harm' = harm /\ proven' = proven
    BY <2>1, <2>2, EndsSessions
  <2>3. CASE /\ harm' = Harmed /\ proven' = [proven EXCEPT ![req[q].chal] = verifier]
             /\ Becomes(q, IF req[q].missing THEN "record" ELSE "sessions", FALSE,
                        req[q].seen)
    <3> DEFINE s == IF req[q].missing THEN "record" ELSE "sessions"
    <3>1. s # "save" /\ harm \subseteq harm'
      BY <2>3 DEF Harmed
    <3>2. /\ \A c \in Challenges : proven'[c] \in {proven[c], verifier}
          /\ req[q].chal \in Challenges => proven'[req[q].chal] = verifier
      BY <2>3 DEF Shape, Files
    <3>3. req[q].chal \in Challenges
      BY <1>2 DEF Verify, Shape, Calls, RequestOK
    <3>4. Becomes(q, s, FALSE, req[q].seen)
      BY <2>3
    <3> HIDE DEF s
    <3> QED
      BY <2>1, <2>3, <3>1, <3>2, <3>3, <3>4, BecomesSessions
  <2> QED
    BY <1>2, <2>2, <2>3, VerifyEffect
<1>3. CASE WriteRecord(q) \/ WriteShare(q)
  <2>1. /\ logins' = logins /\ live' = live /\ verifier' = verifier /\ harm \subseteq harm'
        /\ proven' = proven /\ req[q].step \in {"record", "share"}
    BY <1>3 DEF WriteRecord, WriteShare, ghostVars
  <2>2. PICK s \in {"share", "sessions"} : Becomes(q, s, req[q].missing, req[q].seen)
    BY <1>3, WriteEffect
  <2>3. req[q].step \in Checked /\ req[q].step \in Turn /\ req[q].step # "end"
    BY <2>1 DEF Checked, Turn
  <2> QED
    BY <2>1, <2>2, <2>3, BecomesSessions
<1>4. CASE ReadSessions(q)
  <2>1. /\ logins' = logins /\ live' = live /\ verifier' = verifier /\ harm' = harm
        /\ proven' = proven /\ req[q].step = "sessions"
    BY <1>4 DEF ReadSessions, fileVars, ghostVars
  <2>2. req[q].step \in Checked /\ req[q].step \in Turn /\ req[q].step # "end"
    BY <2>1 DEF Checked, Turn
  <2> QED
    BY <1>4, <2>1, <2>2, ReadEffect, BecomesSessions
<1>5. CASE Answer(q)
  BY <1>5, EndEffect, EndsSessions DEF Answer, fileVars, ghostVars
<1> QED
  BY <1>1, <1>2, <1>3, <1>4, <1>5

LEMMA SaveSessions ==
  ASSUME Shape, SessionsInv, NEW q \in Requests, SaveSession(q)
  PROVE  SessionsInv'
<1> DEFINE c == req[q].chal
<1>1. /\ req[q].step = "save" /\ req[q].op = "login" /\ harm' = harm
      /\ logins' = req[q].seen \union {c} /\ live' = live \union {c}
      /\ verifier' = verifier /\ proven' = proven
  BY DEF SaveSession
<1>2. /\ \A o \in Requests : o # q => req'[o] = req[o]
      /\ req'[q].step = "answer"
  BY SaveEffect DEF Becomes
<1> HIDE DEF c
<1> SUFFICES ASSUME "overlap" \notin harm'
             PROVE  Lone' /\ ("torn" \notin harm' => Renewed')
  BY DEF SessionsInv
<1>3. Lone /\ \A o \in Requests : o # q => req[o].step \notin Turn
  BY <1>1, EnterAlone DEF Turn
<1>4. Lone'
  BY <1>1, <1>2, <1>3 DEF Lone, Turn
<1>5. ASSUME "torn" \notin harm'
      PROVE  Renewed'
  <2>1. Renewed
    BY <1>1, <1>5 DEF SessionsInv
  <2>2. \A o \in Requests : Proven(req[o])'
    BY <1>1, <1>2, <1>3, <2>1 DEF Renewed, Proven, Checked, Turn
  <2>3. proven[c] = verifier
    BY <1>1, <2>1 DEF Renewed, Proven, Checked, c
  <2>4. \A o \in Requests : req[o].step # "end"
    BY <1>1, <1>3 DEF Turn
  <2>5. logins' = logins \union {c}
    BY <1>1, <1>3 DEF Lone
  <2>6. \A d \in logins' : proven'[d] = verifier'
    BY <1>1, <2>1, <2>3, <2>4, <2>5 DEF Renewed
  <2> QED
    BY <2>2, <2>6 DEF Renewed
<1> QED
  BY <1>4, <1>5

LEMMA RevokeSessions ==
  ASSUME Shape, SessionsInv, NEW q \in Requests, SaveRevoked(q)
  PROVE  SessionsInv'
<1> DEFINE c == req[q].chal
<1>1. /\ req[q].step = "save" /\ harm' = harm
      /\ logins' = IF c \in req[q].seen THEN req[q].seen \ {c} ELSE logins
      /\ live' = live \ {c} /\ verifier' = verifier /\ proven' = proven
  BY DEF SaveRevoked
<1>2. \A o \in Requests : req'[o] = IF o = q THEN Free ELSE req[o]
  BY EndEffect DEF Ends
<1> HIDE DEF c
<1> SUFFICES ASSUME "overlap" \notin harm'
             PROVE  Lone' /\ ("torn" \notin harm' => Renewed')
  BY DEF SessionsInv
<1>3. Lone /\ \A o \in Requests : o # q => req[o].step \notin Turn
  BY <1>1, EnterAlone DEF Turn
<1>4. \A o \in Requests : req'[o].step \notin Turn
  BY <1>2, <1>3, FreeType DEF Turn
<1>5. logins' = logins \ {c}
  BY <1>1, <1>3 DEF Lone
<1>6. Lone'
  BY <1>1, <1>3, <1>4, <1>5 DEF Lone, Turn
<1>7. ASSUME "torn" \notin harm'
      PROVE  Renewed'
  <2>1. Renewed
    BY <1>1, <1>7 DEF SessionsInv
  <2>2. \A o \in Requests : Proven(req[o])'
    BY <1>4 DEF Proven, Checked, Turn
  <2>3. \A o \in Requests : req[o].step # "end"
    BY <1>1, <1>3 DEF Turn
  <2> QED
    BY <1>1, <1>5, <2>1, <2>2, <2>3 DEF Renewed
<1> QED
  BY <1>6, <1>7

LEMMA PasswordSessions ==
  ASSUME Shape, SessionsInv, NEW q \in Requests, WritePassword(q)
  PROVE  SessionsInv'
<1>1. /\ req[q].step = "password" /\ harm' = harm /\ logins' = logins /\ live' = live
  BY DEF WritePassword, ghostVars
<1>2. /\ \A o \in Requests : o # q => req'[o] = req[o]
      /\ req'[q].step = "end"
  BY WriteEffect DEF Becomes
<1> SUFFICES ASSUME "overlap" \notin harm'
             PROVE  Lone' /\ Renewed'
  BY DEF SessionsInv
<1>3. Lone /\ \A o \in Requests : o # q => req[o].step \notin Turn
  BY <1>1, EnterAlone DEF Turn
<1>4. Lone'
  BY <1>1, <1>2, <1>3 DEF Lone, Turn
<1>5. \A o \in Requests : Proven(req[o])'
  BY <1>2, <1>3 DEF Proven, Checked, Turn
<1> QED
  BY <1>2, <1>4, <1>5 DEF Renewed

LEMMA EndOfSessions ==
  ASSUME Shape, SessionsInv, NEW q \in Requests, EndSessions(q)
  PROVE  SessionsInv'
<1>1. req[q].step = "end" /\ harm' = harm /\ logins' = {} /\ live' = {}
  BY DEF EndSessions
<1>2. /\ \A o \in Requests : o # q => req'[o] = req[o]
      /\ req'[q].step \in {"free", "forget", "wrap"}
  BY EndSessionsEffect, FreeType DEF Becomes, Ends, AfterSessions
<1> SUFFICES ASSUME "overlap" \notin harm'
             PROVE  Lone' /\ Renewed'
  BY DEF SessionsInv
<1>3. Lone /\ \A o \in Requests : o # q => req[o].step \notin Turn
  BY <1>1, EnterAlone DEF Turn
<1>4. Lone'
  BY <1>1, <1>2, <1>3 DEF Lone, Turn
<1>5. \A o \in Requests : Proven(req[o])'
  BY <1>2, <1>3 DEF Proven, Checked, Turn
<1> QED
  BY <1>1, <1>4, <1>5 DEF Renewed

LEMMA ChangeSessions ==
  ASSUME Shape, SessionsInv, NEW q \in Requests,
         \/ BeginRevoke(q) \/ BeginChange(q) \/ WrapRecord(q) \/ ForgetShare(q)
         \/ InvalidateRecord(q)
  PROVE  SessionsInv'
<1>0. /\ harm \subseteq Harmed
      /\ \A s \in {"password", "invalidate"} : s # "save" /\ s \notin Checked
  BY DEF Harmed, Checked
<1>1. CASE BeginRevoke(q)
  <2>1. /\ logins' = logins /\ live' = live /\ verifier' = verifier /\ harm' = Harmed
        /\ proven' = proven /\ req[q].step = "sent" /\ req[q].op = "logout"
    BY <1>1 DEF BeginRevoke, fileVars
  <2>2. Becomes(q, "sessions", req[q].missing, req[q].seen)
    BY <1>1, WriteEffect
  <2> QED
    BY <1>0, <2>1, <2>2, BecomesSessions
<1>2. CASE BeginChange(q)
  <2>1. /\ logins' = logins /\ live' = live /\ verifier' = verifier
        /\ proven' = proven /\ req[q].step = "sent"
    BY <1>2 DEF BeginChange, fileVars
  <2>2. CASE Ends(q) /\ harm' = harm
    BY <2>1, <2>2, EndsSessions
  <2>3. CASE harm' = Harmed /\ Becomes(q, "password", Status # "ready", req[q].seen)
    BY <1>0, <2>1, <2>3, BecomesSessions
  <2> QED
    BY <1>2, <2>2, <2>3, BeginChangeEffect
<1>3. CASE WrapRecord(q) \/ InvalidateRecord(q)
  BY <1>3, EndEffect, EndsSessions DEF WrapRecord, InvalidateRecord, ghostVars
<1>4. CASE ForgetShare(q)
  <2>1. /\ logins' = logins /\ live' = live /\ verifier' = verifier /\ harm' = harm
        /\ proven' = proven /\ req[q].step = "forget"
    BY <1>4 DEF ForgetShare, ghostVars
  <2>2. "forget" \in Turn
    BY DEF Turn
  <2>3. CASE Ends(q)
    BY <2>1, <2>3, EndsSessions
  <2>4. CASE Becomes(q, "invalidate", req[q].missing, req[q].seen)
    BY <1>0, <2>1, <2>2, <2>4, BecomesSessions
  <2> QED
    BY <1>4, <2>3, <2>4, ForgetEffect
<1> QED
  BY <1>1, <1>2, <1>3, <1>4

LEMMA OpeningSessions ==
  ASSUME Shape, SessionsInv, NEW q \in Requests, NEW r \in RequestType, Opening(q, r),
         logins' = logins, live' = live, verifier' = verifier, proven' = proven,
         \/ r.step = "sent" /\ harm' = harm
         \/ harm' = Harmed
  PROVE  SessionsInv'
<1>1. /\ \A o \in Requests : o # q => req'[o] = req[o]
      /\ req'[q] = r /\ req[q] = Free /\ r.step \in {"sent", "password"}
  BY DEF Opening, Begins
<1>2. harm \subseteq harm'
  BY DEF Harmed
<1>3. "sent" \notin Turn /\ "sent" \notin Checked /\ "password" \notin Checked
  BY DEF Turn, Checked
<1>4. r.step # "save" /\ req[q].step # "end"
  BY <1>1, FreeType
<1> QED
  BY <1>1, <1>2, <1>3, <1>4, SessionsMove

LEMMA OtherSessions ==
  ASSUME Shape, SessionsInv, Next, ~\E q \in Requests : Handle(q)
  PROVE  SessionsInv'
<1>1. ASSUME NEW b \in Browsers, NEW q \in Requests, NEW p \in Workers,
             SendLogin(b, q, p) \/ SendLogout(b, q, p) \/ SendChange(b, q, p)
      PROVE  SessionsInv'
  <2>1. PICK r \in RequestType : Opening(q, r) /\ r.step = "sent"
    BY <1>1, OpeningEffect
  <2>2. /\ logins' = logins /\ live' = live /\ verifier' = verifier
        /\ proven' = proven /\ harm' = harm
    BY <1>1 DEF SendLogin, SendLogout, SendChange, fileVars, ghostVars
  <2> QED
    BY <2>1, <2>2, OpeningSessions
<1>2. ASSUME NEW q \in Requests, BeginReset(q)
      PROVE  SessionsInv'
  <2>1. PICK r \in RequestType : Opening(q, r) /\ r.chal = None
    BY <1>2, BeginResetEffect
  <2>2. /\ logins' = logins /\ live' = live /\ verifier' = verifier
        /\ proven' = proven /\ harm' = Harmed
    BY <1>2 DEF BeginReset, fileVars
  <2> QED
    BY <2>1, <2>2, OpeningSessions
<1>3. ASSUME NEW b \in Browsers, NEW q \in Requests, NEW o \in Requests,
             NEW p \in Workers, ResendLogin(b, q, o, p)
      PROVE  SessionsInv'
  <2>0. PICK u \in RequestType, r \in RequestType : Resends(b, q, o, u, r)
    BY <1>3, ResendEffect
  <2>1. /\ \A i \in Requests :
             req'[i] = IF i = q THEN r ELSE IF i = o THEN u ELSE req[i]
        /\ u.step = req[o].step /\ u.seen = req[o].seen
        /\ u.op = req[o].op /\ u.chal = req[o].chal
        /\ r.step = "sent" /\ req[q] = Free
    BY <2>0 DEF Resends, Same
  <2>2. /\ logins' = logins /\ live' = live /\ verifier' = verifier
        /\ proven' = proven /\ harm' = harm
    BY <1>3 DEF ResendLogin, fileVars, ghostVars
  <2>3. \A i \in Requests :
          \/ req'[i] = req[i]
          \/ /\ req'[i].step \notin Turn
             /\ req[i].step = "end" => "torn" \in harm'
          \/ /\ req'[i].step = req[i].step /\ req'[i].op = req[i].op
             /\ req'[i].chal = req[i].chal /\ req'[i].seen = req[i].seen
    BY <2>1, FreeType DEF Turn
  <2> QED
    BY <2>2, <2>3, SessionsSame
<1>4. ASSUME \/ \E b \in Browsers : Load(b)
             \/ \E b \in Browsers, p \in Workers, c \in Challenges : AskChallenge(b, c, p)
             \/ \E c \in Challenges : Expire(c)
      PROVE  SessionsInv'
  <2>1. /\ logins' = logins /\ live' = live /\ verifier' = verifier
        /\ proven' = proven /\ harm' = harm /\ req' = req
    BY <1>4 DEF Load, AskChallenge, Expire, fileVars, ghostVars
  <2> QED
    BY <2>1, SessionsSame
<1>5. ASSUME NEW p \in Processes, Crash(p)
      PROVE  SessionsInv'
  <2>1. PICK gone \in SUBSET Requests :
          /\ Dropped(gone)
          /\ harm' = IF \E q \in gone :
                          req[q].step \in {"end", "wrap", "forget", "invalidate"}
                     THEN harm \union {"torn"} ELSE harm
    BY <1>5 DEF Crash
  <2>2. /\ logins' = logins /\ live' = live /\ verifier' = verifier
        /\ proven' = proven
    BY <1>5 DEF Crash, fileVars
  <2>3. \A i \in Requests :
          \/ req'[i] = req[i]
          \/ /\ req'[i].step \notin Turn
             /\ req[i].step = "end" => "torn" \in harm'
    BY <2>1, FreeType DEF Dropped, Turn
  <2>4. harm \subseteq harm'
    BY <2>1
  <2> QED
    BY <2>2, <2>3, <2>4, SessionsSame
<1>6. CASE Restart
  <2>1. /\ logins' = logins /\ live' = live /\ verifier' = verifier
        /\ proven' = proven /\ harm' = harm /\ Quiet
    BY <1>6 DEF Restart, ghostVars
  <2>2. \A i \in Requests :
          \/ req'[i] = req[i]
          \/ /\ req'[i].step \notin Turn
             /\ req[i].step = "end" => "torn" \in harm'
    BY <1>6, <2>1, FreeType DEF Restart, Dropped, Turn, Quiet
  <2> QED
    BY <2>1, <2>2, SessionsSame
<1> QED
  BY <1>1, <1>2, <1>3, <1>4, <1>5, <1>6 DEF Next

LEMMA SessionsInvariance == Spec => []SessionsInv
<1>1. Init => SessionsInv
  BY FreeType DEF Init, SessionsInv, Lone, Renewed, Proven, Checked, Turn
<1>2. Shape /\ SessionsInv /\ [Next]_vars => SessionsInv'
  <2>1. ASSUME SessionsInv, UNCHANGED vars
        PROVE  SessionsInv'
    BY <2>1 DEF SessionsInv, Lone, Renewed, Proven, vars
  <2>2. ASSUME Shape, SessionsInv, NEW q \in Requests, Handle(q)
        PROVE  SessionsInv'
    BY <2>2, LoginSessions, SaveSessions, RevokeSessions, PasswordSessions,
       EndOfSessions, ChangeSessions DEF Handle
  <2> QED
    BY <2>1, <2>2, OtherSessions
<1> QED
  BY <1>1, <1>2, ShapeInvariance, PTL DEF Spec

(* The rewritten sessions are those begun and not ended: no login loses     *)
(* another's, as long as no two processes are at the files at once.         *)
THEOREM SessionsAreNotLost == Spec => []SessionsAreKept
<1>1. SessionsInv => SessionsAreKept
  BY DEF SessionsInv, Lone, SessionsAreKept
<1> QED
  BY <1>1, SessionsInvariance, PTL

(* No session outlives the password its login was checked with              *)
(* (setUserPassword), unless the process ended within the change.           *)
THEOREM NewPasswordEndsSessions == Spec => []PasswordEndsSessions
<1>1. SessionsInv => PasswordEndsSessions
  BY DEF SessionsInv, Renewed, PasswordEndsSessions, Quiet, Turn
<1> QED
  BY <1>1, SessionsInvariance, PTL

-----------------------------------------------------------------------------
(* Whose key there is.  The record of before there were sealed copies keeps *)
(* its key for good; any other key came with a login that was asked for     *)
(* when there was no record.                                                *)
From(K) ==
  /\ record.key \in K
  /\ \A b \in Browsers : browser[b].key \in K
  /\ \A q \in Requests :
       /\ req[q].key \in K
       /\ req[q].op = "login" /\ (req[q].missing \/ req[q].step = "record") =>
            req[q].chal \in K
  /\ \A c \in Challenges : challenges[c] = "missing" => c \in K

FirstKeys == {None} \union {c \in Challenges \ fresh : ~found[c]}

OldKeys == record.status # "none" /\ record.key = Legacy /\ From({None, Legacy})
NewKeys == From(FirstKeys)

Wrapped(r) ==
  /\ r.op = "change" /\ r.step \in {"password", "end"} /\ ~r.missing => r.key # None
  /\ r.step = "wrap" => r.key # None

KeysInv ==
  /\ OldKeys \/ NewKeys
  /\ \A q \in Requests : Wrapped(req[q])

(* An operation that moves one request brings no key of its own.            *)
LEMMA FromKept ==
  ASSUME Shape, NEW K, None \in K, From(K), NEW q \in Requests, Onward(q),
         record'.key \in K, challenges' = challenges \/ TakeChallenge(q),
         \A b \in Browsers : browser'[b].key \in K,
         req'[q] # Free /\ req[q].op = "login" /\ (req'[q].missing \/ req'[q].step = "record")
           => req[q].chal \in K
  PROVE  From(K)'
<1>1. \A o \in Requests : o # q => req'[o] = req[o]
  BY DEF Onward
<1>2. CASE req'[q] = Free
  <2>1. Free.key \in K /\ ~Free.missing /\ Free.step # "record"
    BY FreeType
  <2>2. \A c \in Challenges : challenges'[c] = "missing" => c \in K
    BY DEF From, TakeChallenge, Shape, Files
  <2> QED
    BY <1>1, <1>2, <2>1, <2>2 DEF From
<1>3. CASE req'[q] # Free
  <2>1. /\ req'[q].op = req[q].op /\ req'[q].chal = req[q].chal
        /\ req'[q].key = req[q].key
    BY <1>3 DEF Onward, Same
  <2>2. \A c \in Challenges : challenges'[c] = "missing" => c \in K
    BY DEF From, TakeChallenge, Shape, Files
  <2> QED
    BY <1>1, <1>3, <2>1, <2>2 DEF From
<1> QED
  BY <1>2, <1>3

(* The record a handler leaves.                                             *)
LEMMA HandleRecord ==
  ASSUME Shape, KeysInv, NEW K, None \in K, From(K), NEW q \in Requests, Handle(q)
  PROVE  /\ record'.key \in K
         /\ record'.key # record.key =>
              \/ WriteRecord(q) /\ record'.key = req[q].chal
              \/ WrapRecord(q) /\ record'.key = req[q].key /\ req[q].key # None
         /\ record.status # "none" => record'.status # "none"
<1>1. CASE WriteRecord(q)
  <2>1. record'.key = req[q].chal /\ record'.status = "ready"
    BY <1>1 DEF WriteRecord, Ready
  <2>2. req[q].op = "login" /\ req[q].step = "record"
    BY <1>1 DEF WriteRecord, Shape, Calls, RequestOK
  <2> QED
    BY <1>1, <2>1, <2>2 DEF From
<1>2. CASE WrapRecord(q)
  <2>1. record'.key = req[q].key /\ record'.status = "ready" /\ req[q].step = "wrap"
    BY <1>2 DEF WrapRecord, Ready
  <2> QED
    BY <1>2, <2>1 DEF From, KeysInv, Wrapped
<1>3. CASE InvalidateRecord(q)
  <2>1. record.key \in Keys \union {None}
    BY DEF Shape, Files, Records
  <2>2. record'.key = record.key /\ record'.status = "invalidated"
    BY <1>3, <2>1, InvalidatedIs DEF InvalidateRecord
  <2> QED
    BY <2>2 DEF From
<1>4. CASE ~WriteRecord(q) /\ ~WrapRecord(q) /\ ~InvalidateRecord(q)
  <2>1. record' = record
    BY <1>4 DEF Handle, TakeChallenge, Verify, WriteShare, ReadSessions, SaveSession,
       Answer, BeginRevoke, SaveRevoked, BeginChange, WritePassword, EndSessions,
       ForgetShare, fileVars
  <2> QED
    BY <2>1 DEF From
<1> QED
  BY <1>1, <1>2, <1>3, <1>4

LEMMA HandleMissing ==
  ASSUME Shape, NEW K, From(K), NEW q \in Requests, Handle(q), req'[q] # Free,
         req[q].op = "login", req'[q].missing \/ req'[q].step = "record"
  PROVE  req[q].chal \in K
<1>0. ~Ends(q)
  BY DEF Ends
<1>1. CASE TakeChallenge(q)
  <2>1. /\ challenges[req[q].chal] = "missing" /\ req[q].chal \in Challenges
    BY <1>0, <1>1, TakeEffect DEF Becomes, TakeChallenge, Shape, Calls, RequestOK
  <2> QED
    BY <2>1 DEF From
<1>2. CASE Verify(q)
  <2>1. req[q].missing
    BY <1>0, <1>2, VerifyEffect DEF Becomes
  <2> QED
    BY <2>1 DEF From
<1>3. CASE WriteRecord(q) \/ WriteShare(q)
  BY <1>3, WriteEffect DEF Becomes, From
<1>4. CASE ReadSessions(q) \/ SaveSession(q)
  BY <1>4, ReadEffect, SaveEffect DEF Becomes, From
<1>5. CASE Answer(q) \/ SaveRevoked(q) \/ WrapRecord(q) \/ InvalidateRecord(q)
  BY <1>0, <1>5, EndEffect
<1>6. CASE BeginRevoke(q) \/ BeginChange(q)
  BY <1>6 DEF BeginRevoke, BeginChange
<1>7. CASE WritePassword(q) \/ EndSessions(q) \/ ForgetShare(q)
  BY <1>7 DEF WritePassword, EndSessions, ForgetShare, Shape, Calls, RequestOK
<1> QED
  BY <1>1, <1>2, <1>3, <1>4, <1>5, <1>6, <1>7 DEF Handle

LEMMA HandleFrom ==
  ASSUME Shape, KeysInv, NEW K, None \in K, From(K), NEW q \in Requests, Handle(q)
  PROVE  From(K)'
<1>1. Onward(q) /\ record'.key \in K
  BY HandleOnward, HandleRecord
<1>2. challenges' = challenges \/ TakeChallenge(q)
  BY DEF Handle, Verify, WriteRecord, WriteShare, ReadSessions,
     SaveSession, Answer, BeginRevoke, SaveRevoked, BeginChange, WritePassword,
     EndSessions, WrapRecord, ForgetShare, InvalidateRecord
<1>3. ASSUME NEW b \in Browsers
      PROVE  browser'[b].key \in K
  <2>1. browser[b].key \in K /\ record.key \in K /\ Out.key = None
    BY OutIs DEF From
  <2>2. \A c, k, s : In(c, k, s).key = k
    BY DEF In
  <2> QED
    BY <2>1, <2>2, HandleBrowser
<1>4. req'[q] # Free /\ req[q].op = "login"
        /\ (req'[q].missing \/ req'[q].step = "record") => req[q].chal \in K
  BY HandleMissing
<1> QED
  BY <1>1, <1>2, <1>3, <1>4, FromKept

LEMMA KeysKept ==
  ASSUME Shape, KeysInv, fresh' = fresh, found' = found,
         record.status # "none" => record'.status # "none",
         record.key = Legacy /\ From({None, Legacy}) => record'.key = Legacy,
         \A K : None \in K /\ From(K) => From(K)',
         \A q \in Requests : Wrapped(req'[q])
  PROVE  KeysInv'
<1>1. CASE OldKeys
  <2>1. From({None, Legacy})'
    BY <1>1 DEF OldKeys
  <2> QED
    BY <1>1, <2>1 DEF KeysInv, OldKeys, Wrapped
<1>2. CASE NewKeys
  <2>1. PICK K : K = FirstKeys
    OBVIOUS
  <2>2. From(K)'
    BY <1>2, <2>1 DEF NewKeys, FirstKeys
  <2>3. FirstKeys' = K
    BY <2>1 DEF FirstKeys
  <2>4. NewKeys'
    BY <2>2, <2>3 DEF NewKeys, From
  <2> QED
    BY <2>4 DEF KeysInv, Wrapped
<1> QED
  BY <1>1, <1>2 DEF KeysInv

LEMMA FreeWrapped ==
  Wrapped(Free)
BY FreeType DEF Wrapped

LEMMA HandleWrapped ==
  ASSUME Shape, KeysInv, NEW q \in Requests, Handle(q)
  PROVE  \A o \in Requests : Wrapped(req'[o])
<1>0. Wrapped(req[q]) /\ RequestOK(req[q])
  BY DEF KeysInv, Shape, Calls
<1>1. ASSUME NEW o \in Requests, o # q
      PROVE  Wrapped(req'[o])
  BY <1>1, HandleOnward DEF Onward, KeysInv
<1>2. CASE Ends(q)
  BY <1>2, FreeWrapped, <1>1 DEF Ends
<1>3. ASSUME NEW s, NEW m, NEW l, Becomes(q, s, m, l),
             s \notin {"password", "end", "wrap"}
      PROVE  Wrapped(req'[q])
  BY <1>3 DEF Becomes, Wrapped
<1>4. CASE TakeChallenge(q) \/ Verify(q) \/ ReadSessions(q) \/ SaveSession(q)
  <2>1. CASE TakeChallenge(q)
    BY <1>2, <1>3, <2>1, <1>1, TakeEffect
  <2>2. CASE Verify(q)
    <3> DEFINE s == IF req[q].missing THEN "record" ELSE "sessions"
    <3>1. Ends(q) \/ Becomes(q, s, FALSE, req[q].seen)
      BY <2>2, VerifyEffect
    <3>2. s \notin {"password", "end", "wrap"}
      OBVIOUS
    <3> HIDE DEF s
    <3> QED
      BY <1>1, <1>2, <1>3, <3>1, <3>2
  <2>3. CASE ReadSessions(q) \/ SaveSession(q)
    BY <1>3, <2>3, <1>1, ReadEffect, SaveEffect
  <2> QED
    BY <1>4, <2>1, <2>2, <2>3
<1>5. CASE WriteRecord(q) \/ WriteShare(q) \/ BeginRevoke(q)
  BY <1>3, <1>5, <1>1, WriteEffect
<1>6. CASE Answer(q) \/ SaveRevoked(q) \/ WrapRecord(q) \/ InvalidateRecord(q)
  BY <1>2, <1>6, EndEffect
<1>7. CASE ForgetShare(q)
  BY <1>2, <1>3, <1>7, <1>1, ForgetEffect
<1>8. CASE WritePassword(q)
  <2>1. Becomes(q, "end", req[q].missing, req[q].seen) /\ req[q].step = "password"
    BY <1>8, WriteEffect DEF WritePassword
  <2>2. Wrapped(req'[q])
    BY <1>0, <2>1 DEF Becomes, Same, Wrapped
  <2> QED
    BY <1>1, <2>2
<1>9. CASE EndSessions(q)
  <2>1. CASE AfterSessions(q) # "free"
    <3>1. Becomes(q, AfterSessions(q), req[q].missing, req[q].seen)
      BY <1>9, <2>1, EndSessionsEffect
    <3>2. req[q].step = "end" /\ (AfterSessions(q) = "wrap" => req[q].key # None)
      BY <1>0, <1>9 DEF EndSessions, AfterSessions, RequestOK, Wrapped
    <3>3. AfterSessions(q) \in {"forget", "wrap"}
      BY <2>1 DEF AfterSessions
    <3>4. Wrapped(req'[q])
      BY <3>1, <3>2, <3>3 DEF Becomes, Same, Wrapped
    <3> QED
      BY <1>1, <3>4
  <2> QED
    BY <1>2, <1>9, <2>1, EndSessionsEffect
<1>10. CASE BeginChange(q)
  <2>1. CASE /\ Becomes(q, "password", Status # "ready", req[q].seen)
             /\ Status = "ready" => req[q].key # None
    <3>1. Wrapped(req'[q])
      BY <2>1 DEF Becomes, Same, Wrapped
    <3> QED
      BY <1>1, <3>1
  <2> QED
    BY <1>2, <1>10, <2>1, BeginChangeEffect
<1> QED
  BY <1>4, <1>5, <1>6, <1>7, <1>8, <1>9, <1>10 DEF Handle

LEMMA HandleKeys ==
  ASSUME Shape, KeysInv, NEW q \in Requests, Handle(q)
  PROVE  KeysInv'
<1>1. /\ fresh' = fresh /\ found' = found
  BY DEF Handle, TakeChallenge, Verify, WriteRecord,
     WriteShare, ReadSessions, SaveSession, Answer, BeginRevoke, SaveRevoked,
     BeginChange, WritePassword, EndSessions, WrapRecord, ForgetShare, InvalidateRecord,
     ghostVars
<1>2. \A K : None \in K /\ From(K) => From(K)'
  BY HandleFrom
<1>3. \A K : None \in K /\ From(K) =>
        /\ record'.key \in K
        /\ record'.key # record.key =>
             \/ WriteRecord(q) /\ record'.key = req[q].chal
             \/ WrapRecord(q) /\ record'.key = req[q].key /\ req[q].key # None
        /\ record.status # "none" => record'.status # "none"
  BY HandleRecord
<1>4. record.status # "none" => record'.status # "none"
  <2>1. CASE OldKeys
    BY <1>3, <2>1 DEF OldKeys
  <2>2. CASE NewKeys
    BY <1>3, <2>2 DEF NewKeys, FirstKeys
  <2> QED
    BY <2>1, <2>2 DEF KeysInv
<1>5. ASSUME record.key = Legacy, From({None, Legacy})
      PROVE  record'.key = Legacy
  <2>1. /\ record'.key \in {None, Legacy}
        /\ record'.key # record.key =>
             \/ WriteRecord(q) /\ record'.key = req[q].chal
             \/ record'.key # None
    BY <1>3, <1>5
  <2>2. WriteRecord(q) => req[q].chal \in Challenges
    BY DEF WriteRecord, Shape, Calls, RequestOK
  <2> QED
    BY <1>5, <2>1, <2>2, LoginsAssumption
<1>6. \A o \in Requests : Wrapped(req'[o])
  BY HandleWrapped
<1> QED
  BY <1>1, <1>2, <1>4, <1>5, <1>6, KeysKept

(* What is no handler leaves the record alone.                              *)
LEMMA OtherKeys ==
  ASSUME Shape, KeysInv, record' = record, fresh' = fresh, found' = found,
         \A c \in Challenges : challenges'[c] \in {challenges[c], "none"},
         \A b \in Browsers : browser'[b].key \in {None, browser[b].key},
         \A q \in Requests :
           \/ req'[q] = req[q] \/ req'[q] = Free
           \/ /\ req'[q].step # "record" /\ ~req'[q].missing
              /\ \/ req'[q].key = None /\ req'[q].step = "sent"
                 \/ req'[q].key = None /\ req'[q].op # "change" /\ req'[q].step # "wrap"
                 \/ \E b \in Browsers : req'[q].key = browser[b].key /\ req'[q].step = "sent"
           \/ /\ Same(req'[q], req[q]) /\ req'[q].step = req[q].step
              /\ req'[q].missing = req[q].missing
  PROVE  KeysInv'
<1>1. ASSUME NEW K, None \in K, From(K)
      PROVE  From(K)'
  <2>1. ASSUME NEW q \in Requests
        PROVE  /\ req'[q].key \in K
               /\ req'[q].op = "login" /\ (req'[q].missing \/ req'[q].step = "record") =>
                    req'[q].chal \in K
    BY <1>1, FreeType DEF From, Same
  <2> QED
    BY <1>1, <2>1 DEF From
<1>2. ASSUME NEW q \in Requests
      PROVE  Wrapped(req'[q])
  BY FreeWrapped DEF KeysInv, Wrapped, Same
<1> QED
  BY <1>1, <1>2, KeysKept

LEMMA AskKeys ==
  ASSUME Shape, ChallengesInv, KeysInv, NEW b \in Browsers, NEW c \in Challenges,
         NEW p \in Workers, AskChallenge(b, c, p)
  PROVE  KeysInv'
<1>1. /\ c \in fresh /\ fresh' = fresh \ {c} /\ req' = req /\ record' = record
      /\ \A d \in Challenges : d # c => challenges'[d] = challenges[d]
      /\ challenges'[c] = "missing" => record.status = "none"
      /\ \A d \in Challenges : found'[d] = IF d = c THEN record.status # "none" ELSE found[d]
  BY DEF AskChallenge, Shape, Files, fileVars, Status
<1>2. PICK x \in BrowserType :
        /\ x.key = None
        /\ \A a \in Browsers : browser'[a] = IF a = b THEN x ELSE browser[a]
  BY AskBrowser
<1>3. \A q \in Requests : Wrapped(req'[q])
  BY <1>1 DEF KeysInv
<1>4. CASE OldKeys
  <2>1. From({None, Legacy})'
    BY <1>1, <1>2, <1>4 DEF OldKeys, From
  <2>2. OldKeys'
    BY <1>1, <1>4, <2>1 DEF OldKeys
  <2> QED
    BY <1>3, <2>2 DEF KeysInv, Wrapped
<1>5. CASE NewKeys
  <2>1. FirstKeys \subseteq FirstKeys'
    BY <1>1 DEF FirstKeys
  <2>2. challenges'[c] = "missing" => c \in FirstKeys'
    BY <1>1 DEF FirstKeys
  <2>3. NewKeys'
    BY <1>1, <1>2, <1>5, <2>1, <2>2, LoginsAssumption DEF NewKeys, From, FirstKeys
  <2> QED
    BY <1>3, <2>3 DEF KeysInv, Wrapped
<1> QED
  BY <1>4, <1>5 DEF KeysInv

LEMMA SendKeys ==
  ASSUME Shape, KeysInv, NEW b \in Browsers, NEW q \in Requests, NEW p \in Workers,
         SendLogin(b, q, p) \/ SendLogout(b, q, p) \/ SendChange(b, q, p)
  PROVE  KeysInv'
<1>1. PICK r \in RequestType :
        /\ Opening(q, r) /\ r.step = "sent" /\ r.chal = browser[b].chal
        /\ r.key \in {None, browser[b].key}
  BY OpeningEffect
<1>2. /\ record' = record /\ fresh' = fresh /\ found' = found
      /\ challenges' = challenges /\ browser' = browser
  BY DEF SendLogin, SendLogout, SendChange, fileVars, ghostVars
<1>3. /\ \A o \in Requests : o # q => req'[o] = req[o]
      /\ req'[q] = r /\ r.missing = FALSE
  BY <1>1 DEF Opening, Begins
<1> QED
  BY <1>1, <1>2, <1>3, OtherKeys

LEMMA ResetKeys ==
  ASSUME Shape, KeysInv, NEW q \in Requests, BeginReset(q)
  PROVE  KeysInv'
<1>1. PICK r \in RequestType : Opening(q, r) /\ r.chal = None /\ r.key = None
  BY BeginResetEffect
<1>2. /\ record' = record /\ fresh' = fresh /\ found' = found
      /\ challenges' = challenges /\ browser' = browser
  BY DEF BeginReset, fileVars
<1>3. /\ \A o \in Requests : o # q => req'[o] = req[o]
      /\ req'[q] = r /\ r.missing = FALSE
      /\ r.step = "sent" \/ (r.step = "password" /\ r.op = "reset")
  BY <1>1 DEF Opening, Begins
<1> QED
  BY <1>1, <1>2, <1>3, OtherKeys

LEMMA ResendKeys ==
  ASSUME Shape, KeysInv, NEW b \in Browsers, NEW q \in Requests,
         NEW o \in Requests, NEW p \in Workers, ResendLogin(b, q, o, p)
  PROVE  KeysInv'
<1>0. PICK u \in RequestType, r \in RequestType : Resends(b, q, o, u, r)
  BY ResendEffect
<1>1. /\ \A i \in Requests :
           req'[i] = IF i = q THEN r ELSE IF i = o THEN u ELSE req[i]
      /\ Same(u, req[o]) /\ u.step = req[o].step /\ u.missing = req[o].missing
      /\ r.step = "sent" /\ r.key = None /\ r.missing = FALSE
  BY <1>0 DEF Resends
<1>2. /\ record' = record /\ fresh' = fresh /\ found' = found
      /\ challenges' = challenges /\ browser' = browser
  BY DEF ResendLogin, fileVars, ghostVars
<1> QED
  BY <1>1, <1>2, OtherKeys

LEMMA DroppedKeys ==
  ASSUME Shape, KeysInv, (\E p \in Processes : Crash(p)) \/ Restart
  PROVE  KeysInv'
<1>1. PICK gone \in SUBSET Requests : Dropped(gone)
  BY DEF Crash, Restart
<1>2. /\ record' = record /\ fresh' = fresh /\ found' = found
      /\ \A c \in Challenges : challenges'[c] \in {challenges[c], "none"}
  BY DEF Crash, Restart, fileVars, ghostVars
<1>3. /\ \A q \in Requests : req'[q] = req[q] \/ req'[q] = Free
      /\ \A b \in Browsers : browser'[b].key \in {None, browser[b].key}
  BY <1>1, OutIs DEF Dropped
<1> QED
  BY <1>2, <1>3, OtherKeys

LEMMA LoadKeys ==
  ASSUME Shape, KeysInv,
         (\E b \in Browsers : Load(b)) \/ (\E c \in Challenges : Expire(c))
  PROVE  KeysInv'
<1>1. \A c, k, s : In(c, k, s).key = k
  BY DEF In
<1>2. \A b \in Browsers : browser'[b].key \in {None, browser[b].key}
  BY <1>1, LoadBrowser, OutIs DEF Expire
<1>3. /\ record' = record /\ fresh' = fresh /\ found' = found /\ req' = req
      /\ \A c \in Challenges : challenges'[c] \in {challenges[c], "none"}
  BY DEF Load, Expire, fileVars, ghostVars, Shape, Files
<1> QED
  BY <1>2, <1>3, OtherKeys

LEMMA KeysInvariance == Spec => []KeysInv
<1>1. Init => KeysInv
  <2> SUFFICES ASSUME Init
               PROVE  KeysInv
    OBVIOUS
  <2>1. \A q \in Requests : Wrapped(req[q])
    BY FreeWrapped DEF Init
  <2>2. CASE record = NoRecord
    <3>1. record.key = None
      BY <2>2 DEF NoRecord
    <3>2. NewKeys
      BY <3>1, OutIs, FreeType DEF Init, NewKeys, From, FirstKeys
    <3> QED
      BY <2>1, <3>2 DEF KeysInv
  <2>3. CASE record = Ready(Legacy, 0, Legacy, None)
    <3>1. record.key = Legacy /\ record.status = "ready"
      BY <2>3 DEF Ready
    <3>2. OldKeys
      BY <3>1, OutIs, FreeType DEF Init, OldKeys, From
    <3> QED
      BY <2>1, <3>2 DEF KeysInv
  <2> QED
    BY <2>2, <2>3 DEF Init
<1>2. Shape /\ ChallengesInv /\ KeysInv /\ [Next]_vars => KeysInv'
  <2>1. ASSUME KeysInv, UNCHANGED vars
        PROVE  KeysInv'
    BY <2>1 DEF KeysInv, OldKeys, NewKeys, From, FirstKeys, Wrapped, vars
  <2>2. ASSUME Shape, ChallengesInv, KeysInv, Next
        PROVE  KeysInv'
    BY <2>2, HandleKeys, AskKeys, SendKeys, ResetKeys, ResendKeys, DroppedKeys, LoadKeys
    DEF Next
  <2> QED
    BY <2>1, <2>2
<1> QED
  BY <1>1, <1>2, ShapeInvariance, ChallengesInvariance, PTL DEF Spec

LEMMA RecordAlone ==
  ASSUME Next, ~\E q \in Requests : Handle(q)
  PROVE  record' = record
<1>1. ASSUME NEW b \in Browsers, NEW c \in Challenges, NEW p \in Workers,
             AskChallenge(b, c, p)
      PROVE  record' = record
  BY <1>1, Zenon DEF AskChallenge, fileVars
<1>2. ASSUME NEW b \in Browsers, Load(b)
      PROVE  record' = record
  BY <1>2 DEF Load, fileVars
<1>3. ASSUME NEW b \in Browsers, NEW q \in Requests, NEW p \in Workers,
             SendLogin(b, q, p) \/ SendLogout(b, q, p) \/ SendChange(b, q, p)
      PROVE  record' = record
  BY <1>3, Zenon DEF SendLogin, SendLogout, SendChange, fileVars
<1>4. ASSUME NEW b \in Browsers, NEW q \in Requests, NEW o \in Requests,
             NEW p \in Workers, ResendLogin(b, q, o, p)
      PROVE  record' = record
  BY <1>4, Zenon DEF ResendLogin, fileVars
<1>5. ASSUME NEW c \in Challenges, Expire(c)
      PROVE  record' = record
  BY <1>5 DEF Expire, fileVars
<1>6. ASSUME NEW q \in Requests, BeginReset(q)
      PROVE  record' = record
  BY <1>6, Zenon DEF BeginReset, fileVars
<1>7. ASSUME NEW p \in Processes, Crash(p)
      PROVE  record' = record
  BY <1>7 DEF Crash, fileVars
<1>8. CASE Restart
  BY <1>8 DEF Restart
<1> QED
  BY <1>1, <1>2, <1>3, <1>4, <1>5, <1>6, <1>7, <1>8 DEF Next

(* A record that is ready gets another key only from a first login that was *)
(* asked for before there was a record (provisionUserCrypto).               *)
THEOREM KeysAreKept == Spec => KeyIsKept
<1> DEFINE Kept ==
      record.status = "ready" /\ record'.status = "ready" /\ record'.key # record.key
        => \/ "replaced" \in harm
           \/ record'.key \in Challenges /\ ~found[record'.key]
<1>1. Shape /\ KeysInv /\ [Next]_vars => [Kept]_vars
  <2> SUFFICES ASSUME Shape, KeysInv, Next, record'.key # record.key
               PROVE  record'.key \in Challenges /\ ~found[record'.key]
    BY DEF vars
  <2>1. PICK q \in Requests : Handle(q)
    <3>1. CASE \E q \in Requests : Handle(q)
      BY <3>1
    <3>2. CASE ~\E q \in Requests : Handle(q)
      <4>1. record' = record
        BY <3>2, RecordAlone
      <4> QED
        BY <4>1
    <3> QED
      BY <3>1, <3>2
  <2>2. \A K : None \in K /\ From(K) =>
          /\ record'.key \in K
          /\ record'.key # record.key =>
               \/ WriteRecord(q) /\ record'.key = req[q].chal
               \/ WrapRecord(q) /\ record'.key = req[q].key /\ req[q].key # None
    BY <2>1, HandleRecord
  <2>3. WriteRecord(q) => req[q].chal \in Challenges
    BY DEF WriteRecord, Shape, Calls, RequestOK
  <2>4. CASE OldKeys
    <3>1. record'.key \in {None, Legacy} /\ record.key = Legacy
      BY <2>2, <2>4 DEF OldKeys
    <3> QED
      BY <2>2, <2>3, <2>4, <3>1, LoginsAssumption DEF OldKeys
  <2>5. CASE NewKeys
    <3>1. record'.key \in FirstKeys /\ record'.key # None
      BY <2>2, <2>3, <2>5, LoginsAssumption DEF NewKeys, FirstKeys
    <3> QED
      BY <3>1 DEF FirstKeys
  <2> QED
    BY <2>4, <2>5 DEF KeysInv
<1> QED
  BY <1>1, ShapeInvariance, KeysInvariance, PTL DEF Spec, KeyIsKept
-----------------------------------------------------------------------------
(* The wrapped key.  How a request begins.                                  *)
Fields(r, c, w, n, k, s) ==
  /\ r.chal = c /\ r.pw = w /\ r.new = n /\ r.key = k /\ r.share = s
  /\ r.missing = FALSE

LEMMA FreeFields ==
  Fields(Free, None, 0, 0, None, None) /\ Free.step = "free" /\ Free.op = "login"
BY DEF Free, Fields

BegunLogin(r, b) ==
  /\ r.step = "sent" /\ r.op = "login" /\ browser[b].at = "asked"
  /\ Fields(r, browser[b].chal, browser[b].pw, 0, None, None)

BegunLogout(r, b) ==
  r.step = "sent" /\ r.op = "logout" /\ Fields(r, browser[b].chal, 0, 0, None, None)

BegunChange(r, b) ==
  /\ r.step = "sent" /\ r.op = "change" /\ issued' = issued + 1
  /\ Fields(r, browser[b].chal, verifier, issued + 1, browser[b].key, browser[b].share)

BegunReset(r) ==
  /\ r.step = "password" /\ r.op = "reset" /\ issued' = issued + 1
  /\ Fields(r, None, 0, issued + 1, None, None)

Begun(r) ==
  \/ \E b \in Browsers : BegunLogin(r, b) \/ BegunLogout(r, b) \/ BegunChange(r, b)
  \/ BegunReset(r)

LoginOf(b, p, c, w) ==
  [Free EXCEPT !.step = "sent", !.op = "login", !.by = b, !.at = p, !.chal = c,
               !.pw = w, !.heard = TRUE]

LEMMA LoginFieldsOf ==
  ASSUME NEW b, NEW p, NEW c, NEW w
  PROVE  LET r == LoginOf(b, p, c, w)
         IN  r.step = "sent" /\ r.op = "login" /\ Fields(r, c, w, 0, None, None)
<1>1. Free \in RequestType
  BY FreeType
<1>2. \A x \in RequestType :
         LET r == [x EXCEPT !.step = "sent", !.op = "login", !.by = b, !.at = p,
                            !.chal = c, !.pw = w, !.heard = TRUE]
         IN  /\ r.step = "sent" /\ r.op = "login" /\ r.chal = c /\ r.pw = w
             /\ r.new = x.new /\ r.key = x.key /\ r.share = x.share
             /\ r.missing = x.missing
  BY Zenon DEF RequestType
<1> QED
  BY <1>1, <1>2, FreeFields, Zenon DEF LoginOf, Fields

LEMMA LoginFields ==
  ASSUME NEW b \in Browsers, NEW p \in Workers
  PROVE  LET r == LoginRequest(b, p)
         IN  /\ r.step = "sent" /\ r.op = "login"
             /\ Fields(r, browser[b].chal, browser[b].pw, 0, None, None)
<1>1. LoginRequest(b, p) = LoginOf(b, p, browser[b].chal, browser[b].pw)
  BY Zenon DEF LoginRequest, LoginOf
<1> QED
  BY <1>1, LoginFieldsOf

LEMMA LogoutFields ==
  ASSUME NEW b \in Browsers, NEW p \in Workers, NEW c
  PROVE  LET r == LogoutRequest(b, p, c)
         IN  r.step = "sent" /\ r.op = "logout" /\ Fields(r, c, 0, 0, None, None)
<1>1. Free \in RequestType
  BY FreeType
<1>2. \A x \in RequestType :
         LET r == [x EXCEPT !.step = "sent", !.op = "logout", !.by = b, !.at = p,
                            !.chal = c, !.heard = TRUE]
         IN  /\ r.step = "sent" /\ r.op = "logout" /\ r.chal = c /\ r.pw = x.pw
             /\ r.new = x.new /\ r.key = x.key /\ r.share = x.share
             /\ r.missing = x.missing
  BY Zenon DEF RequestType
<1> QED
  BY <1>1, <1>2, FreeFields, Zenon DEF LogoutRequest, Fields

LEMMA ChangeFields ==
  ASSUME NEW b, NEW p, NEW c, NEW w, NEW n, NEW k, NEW s
  PROVE  LET r == ChangeRequest(b, p, c, w, n, k, s)
         IN  r.step = "sent" /\ r.op = "change" /\ Fields(r, c, w, n, k, s)
<1>1. Free \in RequestType
  BY FreeType
<1>2. \A x \in RequestType :
         LET r == [x EXCEPT !.step = "sent", !.op = "change", !.by = b, !.at = p,
                            !.chal = c, !.pw = w, !.new = n, !.key = k, !.share = s,
                            !.heard = TRUE]
         IN  /\ r.step = "sent" /\ r.op = "change" /\ r.chal = c /\ r.pw = w
             /\ r.new = n /\ r.key = k /\ r.share = s /\ r.missing = x.missing
  BY Zenon DEF RequestType
<1> QED
  BY <1>1, <1>2, FreeFields, Zenon DEF ChangeRequest, Fields

LEMMA ResetFields ==
  ASSUME NEW n
  PROVE  LET r == ResetRequest(n)
         IN  r.step = "password" /\ r.op = "reset" /\ Fields(r, None, 0, n, None, None)
<1>1. Free \in RequestType
  BY FreeType
<1>2. \A x \in RequestType :
         LET r == [x EXCEPT !.step = "password", !.op = "reset", !.at = "command",
                            !.new = n]
         IN  /\ r.step = "password" /\ r.op = "reset" /\ r.chal = x.chal /\ r.pw = x.pw
             /\ r.new = n /\ r.key = x.key /\ r.share = x.share /\ r.missing = x.missing
  BY Zenon DEF RequestType
<1> QED
  BY <1>1, <1>2, FreeFields, Zenon DEF ResetRequest, Fields

(* What becomes of requests when no handler runs.                           *)
Stands(i) ==
  \/ req'[i] = req[i]
  \/ /\ Same(req'[i], req[i]) /\ req'[i].step = req[i].step
     /\ req'[i].missing = req[i].missing

Stays(i) == Stands(i) \/ req'[i] = Free

LEMMA SentIs ==
  ASSUME Shape, NEW q \in Requests, NEW r, Sent(q, r)
  PROVE  req[q] = Free /\ req'[q] = r /\ \A i \in Requests : i # q => req'[i] = req[i]
BY DEF Sent, Shape, Calls

LEMMA SendEffect ==
  ASSUME Shape, NEW b \in Browsers, NEW q \in Requests, NEW p \in Workers,
         SendLogin(b, q, p) \/ SendLogout(b, q, p) \/ SendChange(b, q, p)
  PROVE  /\ Begun(req'[q]) /\ req[q] = Free
         /\ \A i \in Requests : i # q => req'[i] = req[i]
<1>1. CASE SendLogin(b, q, p)
  <2>1. Sent(q, LoginRequest(b, p)) /\ browser[b].at = "asked"
    BY <1>1 DEF SendLogin
  <2> QED
    BY <2>1, SentIs, LoginFields DEF Begun, BegunLogin
<1>2. CASE SendLogout(b, q, p)
  <2>1. Sent(q, LogoutRequest(b, p, browser[b].chal))
    BY <1>2, Zenon DEF SendLogout, LogoutRequest
  <2> QED
    BY <2>1, SentIs, LogoutFields DEF Begun, BegunLogout
<1>3. CASE SendChange(b, q, p)
  <2>1. /\ Sent(q, ChangeRequest(b, p, browser[b].chal, verifier, issued + 1,
                                 browser[b].key, browser[b].share))
        /\ issued' = issued + 1
    BY <1>3, Zenon DEF SendChange, ChangeRequest, NewPassword
  <2> QED
    BY <2>1, SentIs, ChangeFields DEF Begun, BegunChange
<1> QED
  BY <1>1, <1>2, <1>3

LEMMA ResetBegins ==
  ASSUME Shape, NEW q \in Requests, BeginReset(q)
  PROVE  /\ BegunReset(req'[q]) /\ req[q] = Free
         /\ \A i \in Requests : i # q => req'[i] = req[i]
<1>1. Sent(q, ResetRequest(issued + 1)) /\ issued' = issued + 1
  BY Zenon DEF BeginReset, ResetRequest, NewPassword
<1> QED
  BY <1>1, SentIs, ResetFields DEF BegunReset

LEMMA ResendBegins ==
  ASSUME Shape, NEW b \in Browsers, NEW q \in Requests, NEW o \in Requests,
         NEW p \in Workers, ResendLogin(b, q, o, p)
  PROVE  /\ Begun(req'[q]) /\ req[q] = Free
         /\ \A i \in Requests : i # q => Stands(i)
<1>1. PICK u \in RequestType, r \in RequestType : Resends(b, q, o, u, r)
  BY ResendEffect
<1>2. /\ req'[o] = u /\ o # q /\ req[q] = Free
      /\ \A i \in Requests : i # q /\ i # o => req'[i] = req[i]
      /\ Same(u, req[o]) /\ u.step = req[o].step /\ u.missing = req[o].missing
  BY <1>1 DEF Resends
<1>3. req' = [[req EXCEPT ![o] = [req[o] EXCEPT !.heard = FALSE]]
                  EXCEPT ![q] = LoginRequest(b, p)]
  BY Zenon DEF ResendLogin, Shape, Calls
<1>4. req'[q] = LoginRequest(b, p)
  BY <1>3 DEF Shape, Calls
<1>5. browser[b].at = "asked"
  <2>1. req[o].by = b /\ req[o].op = "login" /\ req[o].heard /\ b # None
    BY LoginsAssumption DEF ResendLogin
  <2> QED
    BY <2>1 DEF Shape, Calls, Awaited
<1>6. BegunLogin(req'[q], b)
  BY <1>4, <1>5, LoginFields DEF BegunLogin
<1> QED
  BY <1>2, <1>6 DEF Begun, Stands

LEMMA OthersBegin ==
  ASSUME Shape, Next, ~\E q \in Requests : Handle(q)
  PROVE  \/ \A i \in Requests : Stays(i)
         \/ \E q \in Requests :
              /\ Begun(req'[q]) /\ \A i \in Requests : i # q => Stays(i)
<1>1. CASE \E b \in Browsers : Load(b)
  BY <1>1 DEF Load, Stays, Stands
<1>2. CASE \E b \in Browsers, c \in Challenges, p \in Workers : AskChallenge(b, c, p)
  BY <1>2 DEF AskChallenge, Stays, Stands
<1>3. CASE \E b \in Browsers, q \in Requests, p \in Workers :
             SendLogin(b, q, p) \/ SendLogout(b, q, p) \/ SendChange(b, q, p)
  BY <1>3, SendEffect DEF Stays, Stands
<1>4. CASE \E b \in Browsers, q \in Requests, o \in Requests, p \in Workers :
             ResendLogin(b, q, o, p)
  BY <1>4, ResendBegins DEF Stays
<1>5. CASE \E c \in Challenges : Expire(c)
  BY <1>5 DEF Expire, Stays, Stands
<1>6. CASE \E q \in Requests : BeginReset(q)
  BY <1>6, ResetBegins DEF Stays, Stands, Begun
<1>7. CASE (\E p \in Processes : Crash(p)) \/ Restart
  BY <1>7 DEF Crash, Restart, Dropped, Stays, Stands
<1> QED
  BY <1>1, <1>2, <1>3, <1>4, <1>5, <1>6, <1>7 DEF Next

(* Where a handler takes a request from, and to.                            *)
Paths ==
  {<<"sent", "taken">>, <<"taken", "record">>, <<"taken", "sessions">>,
   <<"record", "share">>, <<"share", "sessions">>, <<"sessions", "save">>,
   <<"save", "answer">>, <<"sent", "sessions">>, <<"sent", "password">>,
   <<"password", "end">>, <<"end", "wrap">>, <<"end", "forget">>,
   <<"forget", "invalidate">>}

LEMMA HandleMoves ==
  ASSUME Shape, NEW q \in Requests, Handle(q)
  PROVE  \/ Ends(q)
         \/ /\ \A o \in Requests : o # q => req'[o] = req[o]
            /\ Same(req'[q], req[q]) /\ <<req[q].step, req'[q].step>> \in Paths
<1> SUFFICES ASSUME ~Ends(q)
             PROVE  <<req[q].step, req'[q].step>> \in Paths /\ \E s, m, l : Becomes(q, s, m, l)
  BY DEF Becomes
<1>1. CASE TakeChallenge(q) \/ Verify(q) \/ ReadSessions(q) \/ SaveSession(q)
  <2>1. req[q].step \in {"sent", "taken", "sessions", "save"}
    BY <1>1 DEF TakeChallenge, Verify, ReadSessions, SaveSession
  <2>2. CASE TakeChallenge(q)
    BY <2>2, TakeEffect DEF TakeChallenge, Becomes, Paths
  <2>3. CASE Verify(q)
    BY <2>3, VerifyEffect DEF Verify, Becomes, Paths
  <2>4. CASE ReadSessions(q)
    BY <2>4, ReadEffect DEF ReadSessions, Becomes, Paths
  <2>5. CASE SaveSession(q)
    BY <2>5, SaveEffect DEF SaveSession, Becomes, Paths
  <2> QED
    BY <1>1, <2>2, <2>3, <2>4, <2>5
<1>2. CASE WriteRecord(q) \/ WriteShare(q)
  BY <1>2, WriteEffect DEF WriteRecord, WriteShare, Becomes, Paths
<1>3. CASE BeginRevoke(q) \/ WritePassword(q)
  BY <1>3, WriteEffect DEF BeginRevoke, WritePassword, Becomes, Paths
<1>4. CASE BeginChange(q)
  BY <1>4, BeginChangeEffect DEF BeginChange, Becomes, Paths
<1>5. CASE EndSessions(q)
  BY <1>5, EndSessionsEffect DEF EndSessions, AfterSessions, Becomes, Paths
<1>6. CASE ForgetShare(q)
  BY <1>6, ForgetEffect DEF ForgetShare, Becomes, Paths
<1>7. CASE Answer(q) \/ SaveRevoked(q) \/ WrapRecord(q) \/ InvalidateRecord(q)
  BY <1>7, EndEffect
<1> QED
  BY <1>1, <1>2, <1>3, <1>4, <1>5, <1>6, <1>7 DEF Handle

-----------------------------------------------------------------------------
(* A password that is to come is not yet the one of now, nor typed anywhere *)
(* as the one to log in or to change with.                                  *)
ToCome(r) == r.op \in {"change", "reset"} /\ r.step \in {"sent", "password"}

NewOK(n, v, bs, rs) ==
  /\ n # v /\ n # 0
  /\ \A b \in Browsers : bs[b].pw # n
  /\ \A o \in Requests : rs[o].pw # n

PasswordsInv ==
  /\ verifier <= issued
  /\ \A b \in Browsers : browser[b].pw <= issued
  /\ \A q \in Requests : req[q].pw <= issued /\ req[q].new <= issued
  /\ \A q \in Requests :
       ToCome(req[q]) =>
         /\ NewOK(req[q].new, verifier, browser, req)
         /\ \A o \in Requests : o # q /\ ToCome(req[o]) => req[o].new # req[q].new

LEMMA HandlePw ==
  ASSUME Shape, NEW q \in Requests, Handle(q)
  PROVE  /\ issued' = issued
         /\ \A b \in Browsers : browser'[b].pw \in {browser[b].pw, 0}
         /\ \/ verifier' = verifier
            \/ /\ verifier' = req[q].new /\ ToCome(req[q]) /\ req'[q].step = "end"
<1>1. \A c, k, s : In(c, k, s).pw = 0
  BY DEF In
<1>2. Out.pw = 0
  BY DEF Out
<1>3. \A b \in Browsers : browser'[b].pw \in {browser[b].pw, 0}
  BY <1>1, <1>2, HandleBrowser
<1>4. CASE WritePassword(q)
  <2>1. RequestOK(req[q]) /\ req[q].step = "password" /\ req'[q].step = "end"
    BY <1>4, WriteEffect DEF Shape, Calls, Becomes, WritePassword
  <2> QED
    BY <1>3, <1>4, <2>1 DEF WritePassword, ToCome, RequestOK
<1>5. CASE TakeChallenge(q) \/ Verify(q) \/ ReadSessions(q) \/ SaveSession(q)
  BY <1>3, <1>5 DEF TakeChallenge, Verify, ReadSessions, SaveSession, fileVars
<1>6. CASE WriteRecord(q) \/ WriteShare(q) \/ Answer(q) \/ BeginRevoke(q)
  BY <1>3, <1>6 DEF WriteRecord, WriteShare, Answer, BeginRevoke, fileVars
<1>7. CASE SaveRevoked(q) \/ BeginChange(q) \/ EndSessions(q)
  BY <1>3, <1>7 DEF SaveRevoked, BeginChange, EndSessions, fileVars
<1>8. CASE WrapRecord(q) \/ ForgetShare(q) \/ InvalidateRecord(q)
  BY <1>3, <1>8 DEF WrapRecord, ForgetShare, InvalidateRecord
<1> QED
  BY <1>4, <1>5, <1>6, <1>7, <1>8 DEF Handle

LEMMA HandlePasswords ==
  ASSUME Shape, PasswordsInv, NEW q \in Requests, Handle(q)
  PROVE  PasswordsInv'
<1>0. /\ issued \in Nat /\ verifier \in Nat
      /\ \A b \in Browsers : browser[b].pw \in Nat
      /\ \A o \in Requests : req[o].pw \in Nat /\ req[o].new \in Nat
  BY LoginsAssumption DEF Shape, Files, Calls, BrowserType, RequestType, Passwords
<1>1. /\ issued' = issued
      /\ \A b \in Browsers : browser'[b].pw \in {browser[b].pw, 0}
  BY HandlePw
<1>2. Free.pw = 0 /\ Free.new = 0 /\ ~ToCome(Free)
  BY FreeFields DEF Fields, ToCome
<1>3. \A o \in Requests :
        \/ req'[o] = Free
        \/ req'[o].pw = req[o].pw /\ req'[o].new = req[o].new
  BY HandleOnward DEF Onward, Same
<1>4. \A o \in Requests :
        ToCome(req'[o]) => ToCome(req[o]) /\ req'[o].new = req[o].new
  <2>1. CASE Ends(q)
    BY <1>2, <2>1 DEF Ends
  <2>2. CASE /\ \A o \in Requests : o # q => req'[o] = req[o]
             /\ Same(req'[q], req[q]) /\ <<req[q].step, req'[q].step>> \in Paths
    BY <2>2 DEF Same, Paths, ToCome
  <2> QED
    BY <2>1, <2>2, HandleMoves
<1>5. \A o \in Requests : ToCome(req'[o]) => req'[o].new # verifier'
  <2>1. CASE verifier' = verifier
    BY <1>4, <2>1 DEF PasswordsInv, NewOK
  <2>2. CASE verifier' = req[q].new /\ ToCome(req[q]) /\ req'[q].step = "end"
    <3>1. ~ToCome(req'[q])
      BY <2>2 DEF ToCome
    <3> QED
      BY <1>4, <2>2, <3>1 DEF PasswordsInv
  <2> QED
    BY <2>1, <2>2, HandlePw
<1>6. verifier' <= issued
  BY HandlePw DEF PasswordsInv
<1> HIDE DEF ToCome
<1>7. ASSUME NEW o \in Requests, ToCome(req'[o])
      PROVE  NewOK(req'[o].new, verifier', browser', req')
  <2>1. ToCome(req[o]) /\ req'[o].new = req[o].new
    BY <1>4, <1>7
  <2>2. NewOK(req[o].new, verifier, browser, req)
    BY <2>1 DEF PasswordsInv
  <2> QED
    BY <1>1, <1>2, <1>3, <1>5, <1>7, <2>1, <2>2 DEF NewOK
<1>8. \A o, i \in Requests :
        o # i /\ ToCome(req'[o]) /\ ToCome(req'[i]) => req'[i].new # req'[o].new
  BY <1>4 DEF PasswordsInv
<1>9. \A o \in Requests : req'[o].pw <= issued' /\ req'[o].new <= issued'
  BY <1>0, <1>1, <1>2, <1>3 DEF PasswordsInv
<1>10. \A b \in Browsers : browser'[b].pw <= issued'
  BY <1>0, <1>1 DEF PasswordsInv
<1>11. verifier' <= issued'
  BY <1>1, <1>6
<1> QED
  BY <1>7, <1>8, <1>9, <1>10, <1>11 DEF PasswordsInv, ToCome

LEMMA OtherBrowsers ==
  ASSUME Shape, Next, ~\E q \in Requests : Handle(q)
  PROVE  /\ issued' \in {issued, issued + 1} /\ verifier' = verifier
         /\ \A b \in Browsers : browser'[b].pw \in {browser[b].pw, 0, verifier}
<1>0. Out.pw = 0 /\ \A c, k, s : In(c, k, s).pw = 0
  BY DEF In, Out
<1>1. CASE \E b \in Browsers : Load(b)
  BY <1>0, <1>1, LoadBrowser DEF Load, fileVars
<1>2. CASE \E b \in Browsers, c \in Challenges, p \in Workers : AskChallenge(b, c, p)
  <2>1. PICK b \in Browsers, c \in Challenges, p \in Workers : AskChallenge(b, c, p)
    BY <1>2
  <2>2. /\ browser' = [browser EXCEPT ![b] = AskedWith(c, verifier, Status = "missing")]
        /\ issued' = issued /\ verifier' = verifier
    BY <2>1, Zenon DEF AskChallenge, AskedWith, fileVars
  <2>3. \A m : AskedWith(c, verifier, m).pw = verifier
    <3>1. Out \in BrowserType
      BY OutIs
    <3>2. \A x \in BrowserType : \A m :
            [x EXCEPT !.at = "asked", !.chal = c, !.pw = verifier, !.missing = m].pw
              = verifier
      BY Zenon DEF BrowserType
    <3> QED
      BY <3>1, <3>2 DEF AskedWith
  <2> QED
    BY <2>2, <2>3 DEF Shape, Calls
<1>3. CASE \E b \in Browsers, q \in Requests, p \in Workers :
             SendLogin(b, q, p) \/ SendLogout(b, q, p) \/ SendChange(b, q, p)
  BY <1>3 DEF SendLogin, SendLogout, SendChange, NewPassword, fileVars
<1>4. CASE \E b \in Browsers, q \in Requests, o \in Requests, p \in Workers :
             ResendLogin(b, q, o, p)
  BY <1>4, Zenon DEF ResendLogin, fileVars
<1>5. CASE \E c \in Challenges : Expire(c)
  BY <1>5 DEF Expire, fileVars
<1>6. CASE \E q \in Requests : BeginReset(q)
  BY <1>6 DEF BeginReset, NewPassword, fileVars
<1>7. CASE (\E p \in Processes : Crash(p)) \/ Restart
  BY <1>0, <1>7 DEF Crash, Restart, Dropped, fileVars
<1> QED
  BY <1>1, <1>2, <1>3, <1>4, <1>5, <1>6, <1>7 DEF Next

LEMMA OtherPasswords ==
  ASSUME Shape, PasswordsInv, Next, ~\E q \in Requests : Handle(q)
  PROVE  PasswordsInv'
<1>0. /\ issued \in Nat /\ verifier \in Nat
      /\ \A b \in Browsers : browser[b].pw \in Nat
      /\ \A o \in Requests : req[o].pw \in Nat /\ req[o].new \in Nat
  BY LoginsAssumption DEF Shape, Files, Calls, BrowserType, RequestType, Passwords
<1>1. /\ issued' \in {issued, issued + 1} /\ verifier' = verifier
      /\ \A b \in Browsers : browser'[b].pw \in {browser[b].pw, 0, verifier}
  BY OtherBrowsers
<1>2. Free.pw = 0 /\ Free.new = 0 /\ ~ToCome(Free)
  BY FreeFields DEF Fields, ToCome
<1> DEFINE Old(o) ==
      /\ \/ req'[o].pw = req[o].pw /\ req'[o].new = req[o].new
         \/ req'[o].pw = 0 /\ req'[o].new = 0
      /\ ToCome(req'[o]) => ToCome(req[o]) /\ req'[o].new = req[o].new
    Fresh(o) ==
      /\ req'[o].pw \in {0, verifier} \union {browser[b].pw : b \in Browsers}
      /\ \/ req'[o].new = 0 /\ ~ToCome(req'[o])
         \/ req'[o].new = issued + 1 /\ issued' = issued + 1
<1>3. \A o \in Requests : Stays(o) => Old(o)
  BY <1>2 DEF Stays, Stands, Same, ToCome
<1>4. \A o \in Requests : Begun(req'[o]) => Fresh(o)
  BY DEF Begun, BegunLogin, BegunLogout, BegunChange, BegunReset, Fields, ToCome
<1> HIDE DEF Old, Fresh, ToCome
<1>5. \/ \A o \in Requests : Old(o)
      \/ \E q \in Requests : Fresh(q) /\ \A o \in Requests : o # q => Old(o)
  BY <1>3, <1>4, OthersBegin
<1>6. \A o \in Requests : Old(o) \/ Fresh(o)
  BY <1>5
<1>7. \A o \in Requests : req'[o].pw <= issued' /\ req'[o].new <= issued'
  BY <1>0, <1>1, <1>6 DEF PasswordsInv, Old, Fresh
<1>8. (\A b \in Browsers : browser'[b].pw <= issued') /\ verifier' <= issued'
  BY <1>0, <1>1 DEF PasswordsInv
<1>9. ASSUME NEW o \in Requests, ToCome(req'[o])
      PROVE  NewOK(req'[o].new, verifier', browser', req')
  <2> DEFINE n == req'[o].new
  <2>1. \/ ToCome(req[o]) /\ n = req[o].new
        \/ n = issued + 1
    BY <1>6, <1>9 DEF Old, Fresh
  <2>2. /\ n # verifier /\ n # 0
        /\ \A b \in Browsers : browser[b].pw # n
        /\ \A i \in Requests : req[i].pw # n
    BY <1>0, <2>1 DEF PasswordsInv, NewOK
  <2> HIDE DEF n
  <2>3. \A i \in Requests : req'[i].pw # n
    BY <1>6, <2>2 DEF Old, Fresh
  <2>4. \A b \in Browsers : browser'[b].pw # n
    BY <1>1, <2>2
  <2> QED
    BY <1>1, <2>2, <2>3, <2>4 DEF NewOK, n
<1>10. ASSUME NEW o \in Requests, NEW i \in Requests, o # i, ToCome(req'[o]), ToCome(req'[i])
       PROVE  req'[i].new # req'[o].new
  <2>1. CASE Old(o) /\ Old(i)
    BY <1>10, <2>1 DEF Old, PasswordsInv
  <2>2. CASE Fresh(o) /\ Old(i)
    BY <1>0, <1>10, <2>2 DEF Old, Fresh, PasswordsInv
  <2>3. CASE Fresh(i) /\ Old(o)
    BY <1>0, <1>10, <2>3 DEF Old, Fresh, PasswordsInv
  <2> QED
    BY <1>5, <1>10, <2>1, <2>2, <2>3
<1> QED
  BY <1>7, <1>8, <1>9, <1>10 DEF PasswordsInv, ToCome

LEMMA PasswordsInvariance == Spec => []PasswordsInv
<1>1. Init => PasswordsInv
  BY FreeFields DEF Init, PasswordsInv, ToCome, Fields, Out
<1>2. Shape /\ PasswordsInv /\ [Next]_vars => PasswordsInv'
  <2>1. ASSUME PasswordsInv, UNCHANGED vars
        PROVE  PasswordsInv'
    BY <2>1 DEF PasswordsInv, NewOK, ToCome, vars
  <2> QED
    BY <2>1, HandlePasswords, OtherPasswords
<1> QED
  BY <1>1, <1>2, ShapeInvariance, PTL DEF Spec

-----------------------------------------------------------------------------
(* Who is logged in, or is about to be answered so, has used its challenge. *)
CompletedInv ==
  /\ \A b \in Browsers : browser[b].at = "in" => used[browser[b].chal] # 0
  /\ \A q \in Requests : req[q].step = "answer" => used[req[q].chal] # 0

LEMMA HandleCompleted ==
  ASSUME Shape, CompletedInv, NEW q \in Requests, Handle(q)
  PROVE  CompletedInv'
<1>0. /\ used \in [Challenges -> Nat] /\ RequestOK(req[q])
      /\ \A b \in Browsers : browser[b].at = "in" => browser[b].chal \in Challenges
      /\ \A o \in Requests : req[o].step = "answer" => req[o].chal \in Challenges
  BY DEF Shape, Files, Calls, BrowserOK, RequestOK
<1>1. CASE SaveSession(q)
  <2>1. /\ req[q].op = "login" /\ req[q].chal \in Challenges /\ browser' = browser
        /\ used' = [used EXCEPT ![req[q].chal] = @ + 1]
    BY <1>0, <1>1 DEF SaveSession, RequestOK
  <2>2. \A c \in Challenges : used[c] # 0 \/ c = req[q].chal => used'[c] # 0
    BY <1>0, <2>1
  <2>3. /\ \A o \in Requests : o # q => req'[o] = req[o]
        /\ req'[q].chal = req[q].chal
    BY <1>1, SaveEffect DEF Becomes, Same
  <2> QED
    BY <1>0, <2>1, <2>2, <2>3 DEF CompletedInv
<1>2. CASE ~SaveSession(q)
  <2>1. used' = used
    BY <1>2 DEF Handle, TakeChallenge, Verify, WriteRecord, WriteShare, ReadSessions,
       Answer, BeginRevoke, SaveRevoked, BeginChange, WritePassword, EndSessions,
       WrapRecord, ForgetShare, InvalidateRecord, ghostVars
  <2>2. ASSUME NEW b \in Browsers, browser'[b].at = "in"
        PROVE  used[browser'[b].chal] # 0
    <3>1. \A k, s : In(req[q].chal, k, s).chal = req[q].chal
      BY DEF In
    <3>2. Answer(q) => req[q].step = "answer"
      BY DEF Answer
    <3> QED
      BY <2>2, <3>1, <3>2, HandleBrowser, OutIs DEF CompletedInv
  <2>3. ASSUME NEW o \in Requests, req'[o].step = "answer"
        PROVE  used[req'[o].chal] # 0
    <3>1. CASE Ends(q)
      BY <2>3, <3>1, FreeFields DEF Ends, CompletedInv
    <3>2. CASE /\ \A i \in Requests : i # q => req'[i] = req[i]
               /\ Same(req'[q], req[q]) /\ <<req[q].step, req'[q].step>> \in Paths
      <4>1. CASE o # q
        BY <2>3, <3>2, <4>1 DEF CompletedInv
      <4>2. CASE o = q
        <5>1. req[q].step = "save"
          BY <2>3, <3>2, <4>2 DEF Paths
        <5>2. SaveSession(q) \/ SaveRevoked(q)
          BY <5>1 DEF Handle, TakeChallenge, Verify, WriteRecord, WriteShare, ReadSessions,
             Answer, BeginRevoke, BeginChange, WritePassword, EndSessions,
             WrapRecord, ForgetShare, InvalidateRecord
        <5>3. Ends(q)
          BY <1>2, <5>2, EndEffect
        <5> QED
          BY <2>3, <4>2, <5>3, FreeFields DEF Ends
      <4> QED
        BY <4>1, <4>2
    <3> QED
      BY <3>1, <3>2, HandleMoves
  <2> QED
    BY <2>1, <2>2, <2>3 DEF CompletedInv
<1> QED
  BY <1>1, <1>2

LEMMA OtherCompleted ==
  ASSUME Shape, CompletedInv, Next, ~\E q \in Requests : Handle(q)
  PROVE  CompletedInv'
<1>1. ASSUME NEW i \in Requests, req'[i].step = "answer"
      PROVE  req[i].step = "answer" /\ req'[i].chal = req[i].chal
  <2>1. Stays(i) \/ Begun(req'[i])
    BY OthersBegin
  <2> QED
    BY <1>1, <2>1, FreeFields DEF Stays, Stands, Begun, BegunLogin, BegunLogout, BegunChange,
       BegunReset, Same
<1>2. used' = used
      /\ \A b \in Browsers : browser'[b].at = "in" =>
           browser[b].at = "in" /\ browser'[b].chal = browser[b].chal
  <2>0. Out.at = "out" /\ \A c, k, s : In(c, k, s).chal = c
    BY DEF Out, In
  <2>1. CASE \E b \in Browsers : Load(b)
    BY <2>0, <2>1 DEF Load, ghostVars, Shape, Calls
  <2>2. CASE \E b \in Browsers, c \in Challenges, p \in Workers : AskChallenge(b, c, p)
    <3>1. PICK b \in Browsers, c \in Challenges, p \in Workers : AskChallenge(b, c, p)
      BY <2>2
    <3>2. /\ browser' = [browser EXCEPT ![b] = AskedWith(c, verifier, Status = "missing")]
          /\ used' = used
      BY <3>1, Zenon DEF AskChallenge, AskedWith
    <3>3. AskedWith(c, verifier, Status = "missing").at = "asked"
      BY AskedIs DEF Shape, Files
    <3> QED
      BY <3>2, <3>3 DEF Shape, Calls
  <2>3. CASE \E b \in Browsers, q \in Requests, p \in Workers :
               SendLogin(b, q, p) \/ SendLogout(b, q, p) \/ SendChange(b, q, p)
    BY <2>3 DEF SendLogin, SendLogout, SendChange, ghostVars
  <2>4. CASE \E b \in Browsers, q \in Requests, o \in Requests, p \in Workers :
               ResendLogin(b, q, o, p)
    BY <2>4, Zenon DEF ResendLogin, ghostVars
  <2>5. CASE \E c \in Challenges : Expire(c)
    BY <2>5 DEF Expire, ghostVars
  <2>6. CASE \E q \in Requests : BeginReset(q)
    BY <2>6, Zenon DEF BeginReset
  <2>7. CASE (\E p \in Processes : Crash(p)) \/ Restart
    BY <2>0, <2>7 DEF Crash, Restart, Dropped, ghostVars
  <2> QED
    BY <2>1, <2>2, <2>3, <2>4, <2>5, <2>6, <2>7 DEF Next
<1> QED
  BY <1>1, <1>2 DEF CompletedInv

LEMMA CompletedInvariance == Spec => []CompletedInv
<1>1. Init => CompletedInv
  BY FreeFields DEF Init, CompletedInv, Out
<1>2. Shape /\ CompletedInv /\ [Next]_vars => CompletedInv'
  <2>1. ASSUME CompletedInv, UNCHANGED vars
        PROVE  CompletedInv'
    BY <2>1 DEF CompletedInv, vars
  <2> QED
    BY <2>1, HandleCompleted, OtherCompleted
<1> QED
  BY <1>1, <1>2, ShapeInvariance, PTL DEF Spec

-----------------------------------------------------------------------------
(* What holds of the key as long as nothing was harmed.  The logins that may*)
(* be without it.                                                           *)
Excused == IF relocated THEN Challenges ELSE keyless

Last == {"end", "wrap", "forget", "invalidate"}

CanOpen(rec, sh) == rec.status = "ready" /\ (sh # None \/ rec.sealed # None)

(* The share of the record is sealed in it, but in the record of before     *)
(* there were sealed copies, and the share's file holds no other.           *)
RecordOK(rec, sh) ==
  /\ rec.status # "ready" => sh = None
  /\ rec.status = "none" => rec.key = None
  /\ rec.status = "ready" =>
       /\ rec.key # None /\ rec.share # None /\ sh \in {None, rec.share}
       /\ \/ rec.sealed = rec.share
          \/ rec.sealed = None /\ rec.key = Legacy

WrappedWith(rec, sh, v) == CanOpen(rec, sh) => rec.pw = v

(* What a request may rely on while it is the only one at the files.        *)
LoginSeen(r, rec, v) ==
  /\ r.op = "login" /\ r.step \in Turn => r.pw = v
  /\ r.step = "record" /\ rec.status = "invalidated" => rec.key = None
  /\ r.step = "share" =>
       /\ rec.status = "ready" /\ rec.key = r.chal /\ rec.share = r.chal
       /\ rec.sealed = r.chal
  /\ r.op = "login" /\ r.step \in {"share", "sessions", "save", "answer"} =>
       rec.status # "none"

ChangeSeen(r, rec, sh, v, ls) ==
  /\ r.step \in {"end", "wrap"} => r.new = v
  /\ r.op = "change" /\ r.step \in {"password", "end"} =>
       (r.missing => ~CanOpen(rec, sh)) /\ (~r.missing => CanOpen(rec, sh))
  /\ r.step = "wrap" => CanOpen(rec, sh)
  /\ r.step \in {"forget", "invalidate"} => ls = {}
  /\ r.step = "invalidate" => sh = None

(* A key is the one of the record; a ready record keeps its share, too.     *)
OfRecord(x, rec) ==
  x.key # None =>
    /\ rec.status # "none" /\ x.key = rec.key
    /\ rec.status = "ready" => x.share = rec.share

(* Who is logged in has the key, if it can be opened.                       *)
HoldsKey(x, rec, sh, ls, ex) ==
  x.at = "in" /\ x.chal \in ls =>
    \/ x.key # None /\ rec.status = "ready"
    \/ x.key = None /\ (~CanOpen(rec, sh) \/ x.chal \in ex)

(* Before the first record no one is logged in, and no login begins without *)
(* bringing one.                                                            *)
Unprovided ==
  record.status = "none" =>
    /\ logins = {} /\ \A c \in Challenges : challenges[c] # "kept"
    /\ \A q \in Requests : req[q].op = "login" /\ req[q].step = "taken" => req[q].missing

(* A login that was asked for before there was a record is not believed     *)
(* once a reset gave up its key; the record a reset writes of an account    *)
(* that had none has no key.                                                *)
Resets(r) == r.op = "reset" /\ r.step \in Last
Gone ==
  record.key # None /\ (record.status = "invalidated" \/ \E q \in Requests : Resets(req[q]))

FirstAsked(x, ch) == x.at = "asked" /\ ch[x.chal] = "missing"
FirstLogin(r, ch) ==
  /\ r.op = "login"
  /\ \/ r.step = "taken" /\ r.missing
     \/ r.step = "sent" /\ ch[r.chal] = "missing"

TooLate ==
  Gone =>
    /\ \A b \in Browsers : FirstAsked(browser[b], challenges) => browser[b].pw # verifier
    /\ \A q \in Requests : FirstLogin(req[q], challenges) => req[q].pw # verifier

RecordKept ==
  /\ RecordOK(record, share)
  /\ (\A q \in Requests : req[q].step \notin Last) => WrappedWith(record, share, verifier)

RequestsSeen ==
  \A q \in Requests :
    /\ LoginSeen(req[q], record, verifier)
    /\ ChangeSeen(req[q], record, share, verifier, logins)
    /\ OfRecord(req[q], record)

BrowsersHold ==
  \A b \in Browsers :
    /\ OfRecord(browser[b], record)
    /\ HoldsKey(browser[b], record, share, logins, Excused)

KeyParts == RecordKept /\ RequestsSeen /\ BrowsersHold /\ Unprovided /\ TooLate

KeyInv == harm = {} => KeyParts

Ground ==
  Shape /\ ChallengesInv /\ SessionsInv /\ KeysInv /\ PasswordsInv /\ CompletedInv

LEMMA StatusIs ==
  ASSUME Files
  PROVE  /\ Status = "ready" <=> CanOpen(record, share)
         /\ Status = "missing" <=> record.status = "none"
         /\ record.status \in {"none", "ready", "invalidated"}
<1>1. record.status \in {"none", "ready", "invalidated"}
  BY DEF Files, Records
<1> QED
  BY <1>1 DEF Status, ServerShare, CanOpen

(* A request that is not at the files relies on nothing of them.            *)
LEMMA OutsideSeen ==
  ASSUME NEW r, r.step \notin Turn
  PROVE  \A rec, sh, v, ls : LoginSeen(r, rec, v) /\ ChangeSeen(r, rec, sh, v, ls)
BY DEF LoginSeen, ChangeSeen, Turn

LEMMA FreeSeen ==
  /\ Free.step \notin Turn /\ \A rec : OfRecord(Free, rec)
  /\ \A ch : ~FirstLogin(Free, ch)
  /\ ~Resets(Free) /\ Free.step \notin Last
BY FreeFields DEF Fields, OfRecord, FirstLogin, Resets, Last, Turn

(* What was harmed stays so.                                                *)
LEMMA HarmGrows ==
  ASSUME Next
  PROVE  harm \subseteq harm'
<1>1. ASSUME NEW q \in Requests, Handle(q)
      PROVE  harm \subseteq harm'
  BY <1>1 DEF Handle, TakeChallenge, Verify, WriteRecord, WriteShare, ReadSessions,
     SaveSession, Answer, BeginRevoke, SaveRevoked, BeginChange, WritePassword,
     EndSessions, WrapRecord, ForgetShare, InvalidateRecord, Harmed, ghostVars
<1>2. ASSUME NEW b \in Browsers, NEW q \in Requests, NEW p \in Workers,
             \/ SendLogin(b, q, p) \/ SendLogout(b, q, p) \/ SendChange(b, q, p)
             \/ \E o \in Requests : ResendLogin(b, q, o, p)
      PROVE  harm \subseteq harm'
  <2>1. UNCHANGED ghostVars
    BY <1>2, Zenon DEF SendLogin, SendLogout, SendChange, ResendLogin
  <2> QED
    BY <2>1 DEF ghostVars
<1>3. CASE \E b \in Browsers, c \in Challenges, p \in Workers : AskChallenge(b, c, p)
  BY <1>3, Zenon DEF AskChallenge
<1>4. CASE (\E b \in Browsers : Load(b)) \/ (\E c \in Challenges : Expire(c))
  BY <1>4 DEF Load, Expire, ghostVars
<1>5. CASE \E q \in Requests : BeginReset(q)
  BY <1>5 DEF BeginReset, Harmed
<1>6. CASE (\E p \in Processes : Crash(p)) \/ Restart
  BY <1>6 DEF Crash, Restart, ghostVars
<1> QED
  BY <1>1, <1>2, <1>3, <1>4, <1>5, <1>6 DEF Next

(* Who may be without the key stays so.                                     *)
LEMMA KeylessGrows ==
  ASSUME Next
  PROVE  keyless \subseteq keyless'
<1>1. ASSUME NEW q \in Requests, Handle(q)
      PROVE  keyless \subseteq keyless'
  BY <1>1 DEF Handle, TakeChallenge, Verify, WriteRecord, WriteShare, ReadSessions,
     SaveSession, Answer, BeginRevoke, SaveRevoked, BeginChange, WritePassword,
     EndSessions, WrapRecord, ForgetShare, InvalidateRecord, ghostVars
<1>2. ASSUME NEW b \in Browsers, NEW q \in Requests, NEW p \in Workers,
             \/ SendLogin(b, q, p) \/ SendLogout(b, q, p) \/ SendChange(b, q, p)
             \/ \E o \in Requests : ResendLogin(b, q, o, p)
      PROVE  keyless \subseteq keyless'
  <2>1. UNCHANGED ghostVars
    BY <1>2, Zenon DEF SendLogin, SendLogout, SendChange, ResendLogin
  <2> QED
    BY <2>1 DEF ghostVars
<1>3. CASE \E b \in Browsers, c \in Challenges, p \in Workers : AskChallenge(b, c, p)
  BY <1>3, Zenon DEF AskChallenge
<1>4. CASE (\E b \in Browsers : Load(b)) \/ (\E c \in Challenges : Expire(c))
  BY <1>4 DEF Load, Expire, ghostVars
<1>5. CASE \E q \in Requests : BeginReset(q)
  BY <1>5 DEF BeginReset
<1>6. CASE (\E p \in Processes : Crash(p)) \/ Restart
  BY <1>6 DEF Crash, Restart, ghostVars
<1> QED
  BY <1>1, <1>2, <1>3, <1>4, <1>5, <1>6 DEF Next

LEMMA HandleAlone ==
  ASSUME Shape, SessionsInv, harm = {}, harm' = {}, NEW q \in Requests, Handle(q)
  PROVE  \/ \A o \in Requests : o # q => req[o].step \notin Turn
         \/ /\ req[q].step \notin Turn /\ req'[q].step \notin Turn
            /\ UNCHANGED <<record, share, verifier, logins>>
<1>1. CASE req[q].step \in Turn
  BY <1>1 DEF SessionsInv, Lone
<1>2. CASE harm' = Harmed
  BY <1>2 DEF Harmed, Quiet
<1>3. CASE req[q].step \notin Turn /\ harm' # Harmed
  <2>1. TakeChallenge(q) \/ Verify(q) \/ BeginRevoke(q) \/ BeginChange(q)
    BY <1>3 DEF Handle, WriteRecord, WriteShare, ReadSessions, SaveSession, Answer,
       SaveRevoked, WritePassword, EndSessions, WrapRecord, ForgetShare,
       InvalidateRecord, Turn
  <2>2. UNCHANGED <<record, share, verifier, logins>>
    BY <2>1 DEF TakeChallenge, Verify, BeginRevoke, BeginChange, fileVars
  <2>3. req'[q].step \notin Turn
    <3>1. Ends(q) \/ req'[q].step = "taken"
      BY <1>3, <2>1, TakeEffect, VerifyEffect, BeginChangeEffect
      DEF Becomes, BeginRevoke
    <3> QED
      BY <3>1, FreeSeen DEF Ends, Turn
  <2> QED
    BY <1>3, <2>2, <2>3
<1> QED
  BY <1>1, <1>2, <1>3

-----------------------------------------------------------------------------
(* The record and the share's file.                                         *)
LEMMA ReadyIs ==
  ASSUME NEW k, NEW w, NEW s, NEW d
  PROVE  LET x == Ready(k, w, s, d)
         IN  /\ x.status = "ready" /\ x.key = k /\ x.pw = w /\ x.share = s
             /\ x.sealed = d
BY DEF Ready

FilesKept ==
  /\ RecordOK(record', share')
  /\ (\A o \in Requests : req'[o].step \notin Last) =>
       WrappedWith(record', share', verifier')
  /\ \A x : OfRecord(x, record) => OfRecord(x, record')

LEMMA WriteRecordKept ==
  ASSUME Ground, KeyParts, harm = {}, harm' = {}, NEW q \in Requests, WriteRecord(q)
  PROVE  /\ FilesKept
         /\ \/ record.status = "none"
            \/ record.status = "invalidated" /\ logins \subseteq keyless'
<1> DEFINE c == req[q].chal
<1>1. /\ req[q].step = "record" /\ req[q].op = "login" /\ c \in Challenges
  BY DEF WriteRecord, Ground, Shape, Calls, RequestOK
<1>2. LoginSeen(req[q], record, verifier)
  BY DEF KeyParts, RequestsSeen
<1>3. req[q].pw = verifier /\ (record.status = "invalidated" => record.key = None)
  BY <1>1, <1>2 DEF LoginSeen, Turn
<1>4. /\ record.status # "ready"
      /\ record.status = "invalidated" => logins \subseteq keyless'
  BY DEF WriteRecord
<1>5. /\ record.status \in {"none", "invalidated"}
      /\ record.key = None /\ share = None
  BY <1>3, <1>4, StatusIs DEF Ground, Shape, KeyParts, RecordKept, RecordOK
<1>6. /\ record' = Ready(c, verifier, c, c) /\ share' = share /\ verifier' = verifier
  BY <1>3 DEF WriteRecord
<1>7. c # None
  BY <1>1, LoginsAssumption
<1> HIDE DEF c
<1>8. /\ record'.status = "ready" /\ record'.key = c /\ record'.pw = verifier
      /\ record'.share = c /\ record'.sealed = c
  BY <1>6, ReadyIs
<1> QED
  BY <1>4, <1>5, <1>6, <1>7, <1>8 DEF FilesKept, RecordOK, WrappedWith, OfRecord

LEMMA WrapRecordKept ==
  ASSUME Ground, KeyParts, harm = {}, harm' = {}, NEW q \in Requests, WrapRecord(q)
  PROVE  /\ FilesKept /\ record.status = "ready" /\ record'.status = "ready"
         /\ CanOpen(record, share)
<1>1. req[q].step = "wrap" /\ Wrapped(req[q])
  BY DEF WrapRecord, Ground, KeysInv
<1>2. /\ ChangeSeen(req[q], record, share, verifier, logins)
      /\ OfRecord(req[q], record)
  BY DEF KeyParts, RequestsSeen
<1>3. /\ CanOpen(record, share) /\ req[q].new = verifier /\ req[q].key # None
  BY <1>1, <1>2 DEF ChangeSeen, Wrapped
<1>4. /\ record.status = "ready" /\ req[q].key = record.key
      /\ req[q].share = record.share
  BY <1>2, <1>3 DEF OfRecord, CanOpen
<1>5. RecordOK(record, share)
  BY DEF KeyParts, RecordKept
<1>6. ServerShare(record) = record.share
  BY <1>3, <1>4, <1>5 DEF ServerShare, CanOpen, RecordOK
<1>7. /\ record' = Ready(record.key, verifier, record.share, record.share)
      /\ share' = share /\ verifier' = verifier
  BY <1>3, <1>4, <1>6 DEF WrapRecord
<1>8. /\ record'.status = "ready" /\ record'.key = record.key /\ record'.pw = verifier
      /\ record'.share = record.share /\ record'.sealed = record.share
  BY <1>7, ReadyIs
<1> QED
  BY <1>3, <1>4, <1>5, <1>7, <1>8 DEF FilesKept, RecordOK, WrappedWith, OfRecord

LEMMA InvalidateKept ==
  ASSUME Ground, KeyParts, NEW q \in Requests, InvalidateRecord(q)
  PROVE  FilesKept /\ record'.status = "invalidated"
<1>1. req[q].step = "invalidate" /\ share' = share /\ verifier' = verifier
  BY DEF InvalidateRecord
<1>2. ChangeSeen(req[q], record, share, verifier, logins)
  BY DEF KeyParts, RequestsSeen
<1>3. share = None
  BY <1>1, <1>2 DEF ChangeSeen
<1>4. record.key \in Keys \union {None}
  BY DEF Ground, Shape, Files, Records
<1>5. record'.status = "invalidated" /\ record'.key = record.key
  BY <1>4, InvalidatedIs DEF InvalidateRecord
<1> QED
  BY <1>1, <1>3, <1>5 DEF FilesKept, RecordOK, WrappedWith, CanOpen, OfRecord

LEMMA WriteShareKept ==
  ASSUME Ground, KeyParts, harm = {}, harm' = {}, NEW q \in Requests, WriteShare(q)
  PROVE  /\ FilesKept /\ record' = record /\ CanOpen(record, share)
<1>1. /\ req[q].step = "share" /\ share' = req[q].chal /\ record' = record
      /\ verifier' = verifier /\ req[q].chal \in Challenges
  BY DEF WriteShare, Ground, Shape, Calls, RequestOK
<1>2. /\ LoginSeen(req[q], record, verifier) /\ RecordOK(record, share)
  BY DEF KeyParts, RequestsSeen, RecordKept
<1>3. /\ record.status = "ready" /\ record.share = req[q].chal
      /\ record.sealed = req[q].chal /\ req[q].chal # None
  BY <1>1, <1>2, LoginsAssumption DEF LoginSeen
<1>4. CanOpen(record, share)
  BY <1>3 DEF CanOpen
<1>5. \A o \in Requests : req[o].step \notin Last
  BY <1>1 DEF Ground, SessionsInv, Lone, Last, Turn
<1>6. WrappedWith(record, share, verifier)
  BY <1>5 DEF KeyParts, RecordKept
<1> QED
  BY <1>1, <1>2, <1>3, <1>4, <1>6 DEF FilesKept, RecordOK, WrappedWith

LEMMA ForgetKept ==
  ASSUME Ground, KeyParts, NEW q \in Requests, ForgetShare(q)
  PROVE  FilesKept /\ record' = record /\ share' = None
<1>1. share' = None /\ record' = record /\ verifier' = verifier
  BY DEF ForgetShare
<1>2. RecordOK(record, share)
  BY DEF KeyParts, RecordKept
<1>3. req'[q].step = "invalidate"
  BY ForgetEffect DEF Becomes, Ground
<1> QED
  BY <1>1, <1>2, <1>3 DEF FilesKept, RecordOK, Last

LEMMA EndKept ==
  ASSUME Ground, KeyParts, NEW q \in Requests, EndSessions(q)
  PROVE  FilesKept
<1>1. /\ record' = record /\ share' = share /\ verifier' = verifier
      /\ req[q].step = "end"
  BY DEF EndSessions
<1>2. RecordOK(record, share) /\ ChangeSeen(req[q], record, share, verifier, logins)
  BY DEF KeyParts, RecordKept, RequestsSeen
<1>3. CASE Ends(q) /\ AfterSessions(q) = "free"
  <2>1. req[q].op = "change" /\ req[q].missing
    BY <1>1, <1>3 DEF AfterSessions, Ground, Shape, Calls, RequestOK
  <2>2. ~CanOpen(record, share)
    BY <1>1, <1>2, <2>1 DEF ChangeSeen
  <2> QED
    BY <1>1, <1>2, <2>2 DEF FilesKept, WrappedWith
<1>4. CASE /\ AfterSessions(q) # "free"
           /\ Becomes(q, AfterSessions(q), req[q].missing, req[q].seen)
  <2>1. req'[q].step \in Last
    BY <1>4 DEF Becomes, AfterSessions, Last
  <2> QED
    BY <1>1, <1>2, <2>1 DEF FilesKept
<1> QED
  BY <1>3, <1>4, EndSessionsEffect DEF Ground

(* Who writes neither file.                                                 *)
Reader(q) ==
  \/ TakeChallenge(q) \/ Verify(q) \/ ReadSessions(q) \/ SaveSession(q) \/ Answer(q)
  \/ BeginRevoke(q) \/ SaveRevoked(q) \/ BeginChange(q)

LEMMA ReaderIs ==
  ASSUME NEW q \in Requests, Reader(q)
  PROVE  record' = record /\ share' = share /\ verifier' = verifier
         /\ req[q].step \notin Last
BY DEF Reader, TakeChallenge, Verify, ReadSessions, SaveSession, Answer, BeginRevoke,
   SaveRevoked, BeginChange, fileVars, Last

LEMMA HandleKept ==
  ASSUME Ground, KeyParts, harm = {}, harm' = {}, NEW q \in Requests, Handle(q)
  PROVE  FilesKept
<1>1. CASE Reader(q)
  <2>1. /\ record' = record /\ share' = share /\ verifier' = verifier
        /\ req[q].step \notin Last
    BY <1>1, ReaderIs
  <2>2. (\A o \in Requests : req'[o].step \notin Last)
          => \A o \in Requests : req[o].step \notin Last
    BY <2>1, HandleOnward DEF Onward, Ground
  <2> QED
    BY <2>1, <2>2 DEF FilesKept, KeyParts, RecordKept
<1>2. CASE WritePassword(q)
  <2>1. record' = record /\ share' = share /\ req'[q].step = "end"
    BY <1>2, WriteEffect DEF WritePassword, Becomes, Ground
  <2> QED
    BY <2>1 DEF FilesKept, KeyParts, RecordKept, Last
<1>3. CASE WriteRecord(q) \/ WrapRecord(q) \/ InvalidateRecord(q) \/ WriteShare(q)
  BY <1>3, WriteRecordKept, WrapRecordKept, InvalidateKept, WriteShareKept
<1>4. CASE ForgetShare(q) \/ EndSessions(q)
  BY <1>4, ForgetKept, EndKept
<1> QED
  BY <1>1, <1>2, <1>3, <1>4 DEF Handle, Reader

-----------------------------------------------------------------------------
(* What the request of a handler relies on after it.                        *)
SeenAfter(q) ==
  /\ LoginSeen(req'[q], record', verifier')
  /\ ChangeSeen(req'[q], record', share', verifier', logins')

LEMMA OutsideAfter ==
  ASSUME NEW q \in Requests, req'[q].step \notin Turn
  PROVE  SeenAfter(q)
BY OutsideSeen DEF SeenAfter

LEMMA LoginSteps ==
  ASSUME Ground, KeyParts, harm = {}, harm' = {}, NEW q \in Requests,
         \/ TakeChallenge(q) \/ Verify(q) \/ WriteRecord(q) \/ WriteShare(q)
         \/ ReadSessions(q) \/ SaveSession(q)
  PROVE  SeenAfter(q)
<1>0. /\ LoginSeen(req[q], record, verifier)
      /\ Shape /\ RequestOK(req[q])
  BY DEF KeyParts, RequestsSeen, Ground, Shape, Calls
<1>1. CASE Ends(q)
  BY <1>1, FreeSeen, OutsideAfter DEF Ends
<1>2. CASE TakeChallenge(q)
  BY <1>0, <1>1, <1>2, TakeEffect, OutsideAfter DEF Becomes, Turn
<1>3. CASE Verify(q) /\ ~Ends(q)
  <2>1. /\ record' = record /\ verifier' = verifier
        /\ req[q].step = "taken" /\ req[q].op = "login"
    BY <1>0, <1>3 DEF Verify, fileVars, RequestOK
  <2>2. /\ req[q].pw = verifier /\ req'[q].pw = req[q].pw /\ req'[q].op = "login"
        /\ req'[q].step = IF req[q].missing THEN "record" ELSE "sessions"
    BY <1>0, <1>3, <2>1, VerifyEffect DEF Becomes, Same
  <2>3. req[q].missing /\ record.status = "invalidated" => record.key = None
    BY <2>1, <2>2 DEF KeyParts, TooLate, Gone, FirstLogin
  <2>4. ~req[q].missing => record.status # "none"
    BY <2>1 DEF KeyParts, Unprovided
  <2> QED
    BY <2>1, <2>2, <2>3, <2>4 DEF SeenAfter, LoginSeen, ChangeSeen
<1>4. CASE WriteRecord(q)
  <2>1. /\ req'[q].step = "share" /\ Same(req'[q], req[q])
        /\ req[q].step = "record" /\ req[q].op = "login"
    BY <1>0, <1>4, WriteEffect DEF Becomes, WriteRecord, RequestOK
  <2>2. req[q].pw = verifier /\ verifier' = verifier
    BY <1>0, <1>4, <2>1 DEF LoginSeen, WriteRecord, Turn
  <2>3. /\ record'.status = "ready" /\ record'.key = req[q].chal
        /\ record'.share = req[q].chal /\ record'.sealed = req[q].chal
    BY <1>4, ReadyIs DEF WriteRecord
  <2> QED
    BY <2>1, <2>2, <2>3 DEF SeenAfter, LoginSeen, ChangeSeen, Same
<1>5. CASE WriteShare(q) \/ ReadSessions(q) \/ SaveSession(q)
  <2>1. /\ record' = record /\ verifier' = verifier
        /\ req[q].step \in {"share", "sessions", "save"}
    BY <1>5 DEF WriteShare, ReadSessions, SaveSession, fileVars
  <2>2. Same(req'[q], req[q]) /\ req'[q].step \in {"sessions", "save", "answer"}
    BY <1>0, <1>5, WriteEffect, ReadEffect, SaveEffect DEF Becomes
  <2>3. req[q].op = "login" => req[q].pw = verifier /\ record.status # "none"
    BY <1>0, <2>1 DEF LoginSeen, Turn
  <2> QED
    BY <2>1, <2>2, <2>3 DEF SeenAfter, LoginSeen, ChangeSeen, Same
<1> QED
  BY <1>1, <1>2, <1>3, <1>4, <1>5

LEMMA ChangeSteps ==
  ASSUME Ground, KeyParts, harm = {}, harm' = {}, NEW q \in Requests,
         \/ BeginRevoke(q) \/ BeginChange(q) \/ WritePassword(q) \/ EndSessions(q)
         \/ ForgetShare(q)
  PROVE  SeenAfter(q)
<1>0. /\ ChangeSeen(req[q], record, share, verifier, logins)
      /\ Shape /\ RequestOK(req[q]) /\ Files
  BY DEF KeyParts, RequestsSeen, Ground, Shape, Calls
<1>1. CASE Ends(q)
  BY <1>1, FreeSeen, OutsideAfter DEF Ends
<1>2. CASE BeginRevoke(q)
  <2>1. /\ req[q].op = "logout" /\ Same(req'[q], req[q]) /\ req'[q].step = "sessions"
    BY <1>0, <1>2, WriteEffect DEF BeginRevoke, Becomes
  <2> QED
    BY <2>1 DEF SeenAfter, LoginSeen, ChangeSeen, Same
<1>3. CASE BeginChange(q) /\ ~Ends(q)
  <2>1. /\ req[q].op = "change" /\ Same(req'[q], req[q]) /\ req'[q].step = "password"
        /\ req'[q].missing = (Status # "ready") /\ record' = record /\ share' = share
    BY <1>0, <1>3, BeginChangeEffect DEF BeginChange, Becomes, fileVars
  <2>2. Status = "ready" <=> CanOpen(record, share)
    BY <1>0, StatusIs
  <2> QED
    BY <2>1, <2>2 DEF SeenAfter, LoginSeen, ChangeSeen, Same
<1>4. CASE WritePassword(q)
  <2>1. /\ req[q].step = "password" /\ Same(req'[q], req[q]) /\ req'[q].step = "end"
        /\ req'[q].missing = req[q].missing /\ record' = record /\ share' = share
        /\ verifier' = req[q].new /\ req[q].op \in {"change", "reset"}
    BY <1>0, <1>4, WriteEffect DEF WritePassword, Becomes, RequestOK
  <2> QED
    BY <1>0, <2>1 DEF SeenAfter, LoginSeen, ChangeSeen, Same
<1>5. CASE EndSessions(q) /\ ~Ends(q)
  <2>1. /\ req[q].step = "end" /\ Same(req'[q], req[q])
        /\ req'[q].step = AfterSessions(q) /\ AfterSessions(q) # "free"
        /\ record' = record /\ share' = share /\ verifier' = verifier /\ logins' = {}
        /\ req[q].op \in {"change", "reset"}
    BY <1>0, <1>5, EndSessionsEffect DEF EndSessions, Becomes, RequestOK
  <2>2. CASE req[q].op = "reset"
    BY <2>1, <2>2 DEF AfterSessions, SeenAfter, LoginSeen, ChangeSeen, Same
  <2>3. CASE req[q].op = "change"
    <3>1. req'[q].step = "wrap" /\ ~req[q].missing
      BY <2>1, <2>3 DEF AfterSessions
    <3>2. CanOpen(record, share) /\ req[q].new = verifier
      BY <1>0, <2>1, <2>3, <3>1 DEF ChangeSeen
    <3> QED
      BY <2>1, <2>3, <3>1, <3>2 DEF SeenAfter, LoginSeen, ChangeSeen, Same
  <2> QED
    BY <2>1, <2>2, <2>3
<1>6. CASE ForgetShare(q) /\ ~Ends(q)
  <2>1. /\ req[q].step = "forget" /\ Same(req'[q], req[q]) /\ req[q].op = "reset"
        /\ req'[q].step = "invalidate" /\ share' = None /\ logins' = logins
        /\ record' = record
    BY <1>0, <1>6, ForgetEffect DEF ForgetShare, Becomes, RequestOK
  <2>2. logins = {}
    BY <1>0, <2>1 DEF ChangeSeen
  <2> QED
    BY <2>1, <2>2 DEF SeenAfter, LoginSeen, ChangeSeen, Same
<1> QED
  BY <1>1, <1>2, <1>3, <1>4, <1>5, <1>6

LEMMA HandleSeen ==
  ASSUME Ground, KeyParts, harm = {}, harm' = {}, NEW q \in Requests, Handle(q)
  PROVE  RequestsSeen'
<1>1. SeenAfter(q)
  <2>1. CASE Answer(q) \/ SaveRevoked(q) \/ WrapRecord(q) \/ InvalidateRecord(q)
    BY <2>1, EndEffect, FreeSeen, OutsideAfter DEF Ends, Ground
  <2> QED
    BY <2>1, LoginSteps, ChangeSteps DEF Handle
<1>2. ASSUME NEW o \in Requests
      PROVE  OfRecord(req'[o], record')
  <2>1. OfRecord(req[o], record)
    BY DEF KeyParts, RequestsSeen
  <2>2. OfRecord(req[o], record')
    BY <2>1, HandleKept DEF FilesKept
  <2>3. \/ req'[o] = Free
        \/ req'[o].key = req[o].key /\ req'[o].share = req[o].share
    BY HandleOnward DEF Onward, Same, Ground
  <2> QED
    BY <2>2, <2>3, FreeSeen DEF OfRecord
<1>3. ASSUME NEW o \in Requests, o # q
      PROVE  SeenAfter(o)
  <2>1. req'[o] = req[o]
    BY <1>3, HandleOnward DEF Onward, Ground
  <2>2. CASE req[o].step \notin Turn
    BY <2>1, <2>2, OutsideAfter
  <2>3. CASE UNCHANGED <<record, share, verifier, logins>>
    BY <2>1, <2>3 DEF KeyParts, RequestsSeen, SeenAfter
  <2> QED
    BY <1>3, <2>2, <2>3, HandleAlone DEF Ground
<1> QED
  BY <1>1, <1>2, <1>3 DEF RequestsSeen, SeenAfter

-----------------------------------------------------------------------------
(* What browsers hold after a handler.                                      *)
Holding(x) ==
  OfRecord(x, record') /\ HoldsKey(x, record', share', logins', Excused')

LEMMA OutHolds ==
  \A rec, sh, ls, ex : OfRecord(Out, rec) /\ HoldsKey(Out, rec, sh, ls, ex)
BY OutIs DEF OfRecord, HoldsKey

(* A browser that stays as it is.                                           *)
LEMMA StillHolds ==
  ASSUME Ground, KeyParts, harm = {}, harm' = {}, NEW q \in Requests, Handle(q),
         NEW b \in Browsers
  PROVE  Holding(browser[b])
<1>0. /\ OfRecord(browser[b], record)
      /\ HoldsKey(browser[b], record, share, logins, Excused)
  BY DEF KeyParts, BrowsersHold
<1>1. OfRecord(browser[b], record')
  BY <1>0, HandleKept DEF FilesKept
<1> SUFFICES HoldsKey(browser[b], record', share', logins', Excused')
  BY <1>1 DEF Holding
<1>12. Excused \subseteq Excused'
  <2>1. relocated' = relocated
    BY DEF Handle, TakeChallenge, Verify, WriteRecord, WriteShare, ReadSessions,
       SaveSession, Answer, BeginRevoke, SaveRevoked, BeginChange, WritePassword,
       EndSessions, WrapRecord, ForgetShare, InvalidateRecord, setting
  <2> QED
    BY <2>1, KeylessGrows DEF Excused, Next, Ground, Shape, Files
<1> HIDE DEF Excused
<1>2. CASE TakeChallenge(q) \/ Verify(q) \/ ReadSessions(q) \/ Answer(q)
  <2>1. record' = record /\ share' = share /\ logins' = logins
    BY <1>2 DEF TakeChallenge, Verify, ReadSessions, Answer, fileVars
  <2> QED
    BY <1>0, <1>12, <2>1 DEF HoldsKey
<1>3. CASE BeginRevoke(q) \/ BeginChange(q) \/ WritePassword(q)
  <2>1. record' = record /\ share' = share /\ logins' = logins
    BY <1>3 DEF BeginRevoke, BeginChange, WritePassword, fileVars
  <2> QED
    BY <1>0, <1>12, <2>1 DEF HoldsKey
<1>4. CASE SaveSession(q)
  <2>1. /\ req[q].step = "save" /\ req[q].op = "login" /\ record' = record
        /\ share' = share /\ logins' = req[q].seen \union {req[q].chal}
        /\ req[q].chal \in Challenges
    BY <1>4 DEF SaveSession, Ground, Shape, Calls, RequestOK
  <2>2. req[q].seen = logins
    BY <2>1 DEF Ground, SessionsInv, Lone
  <2>3. used[req[q].chal] = 0
    BY <2>1 DEF Ground, ChallengesInv, Held, Holds, Carries
  <2>4. browser[b].at = "in" => browser[b].chal # req[q].chal
    BY <2>3 DEF Ground, CompletedInv
  <2> QED
    BY <1>0, <1>12, <2>1, <2>2, <2>4 DEF HoldsKey
<1>5. CASE SaveRevoked(q)
  <2>1. /\ req[q].step = "save" /\ record' = record /\ share' = share
        /\ logins' \subseteq req[q].seen \union logins
    BY <1>5 DEF SaveRevoked
  <2>2. req[q].seen = logins
    BY <2>1 DEF Ground, SessionsInv, Lone
  <2> QED
    BY <1>0, <1>12, <2>1, <2>2 DEF HoldsKey
<1>6. CASE EndSessions(q)
  BY <1>6 DEF EndSessions, HoldsKey
<1>7. CASE WriteRecord(q)
  <2>1. logins' = logins
    BY <1>7 DEF WriteRecord
  <2>2. CASE record.status = "none"
    <3>1. logins = {}
      BY <2>2 DEF KeyParts, Unprovided
    <3> QED
      BY <2>1, <3>1 DEF HoldsKey
  <2>3. CASE record.status = "invalidated" /\ logins \subseteq keyless'
    <3>1. logins \subseteq Excused'
      BY <2>1, <2>3 DEF Excused, Ground, Shape, Files
    <3>2. browser[b].at = "in" /\ browser[b].chal \in logins => browser[b].key = None
      BY <1>0, <2>3 DEF HoldsKey
    <3> QED
      BY <2>1, <3>1, <3>2 DEF HoldsKey
  <2> QED
    BY <1>7, <2>2, <2>3, WriteRecordKept
<1>8. CASE WriteShare(q)
  <2>1. logins' = logins /\ record' = record /\ CanOpen(record, share)
    BY <1>8, WriteShareKept DEF WriteShare
  <2> QED
    BY <1>0, <1>12, <2>1 DEF HoldsKey
<1>9. CASE WrapRecord(q)
  <2>1. logins' = logins /\ record'.status = "ready" /\ CanOpen(record, share)
    BY <1>9, WrapRecordKept DEF WrapRecord
  <2> QED
    BY <1>0, <1>12, <2>1 DEF HoldsKey
<1>10. CASE ForgetShare(q)
  <2>1. logins' = logins /\ record' = record /\ share' = None
    BY <1>10 DEF ForgetShare
  <2> QED
    BY <1>0, <1>12, <2>1 DEF HoldsKey, CanOpen
<1>11. CASE InvalidateRecord(q)
  <2>1. req[q].step = "invalidate" /\ logins' = logins
    BY <1>11 DEF InvalidateRecord
  <2>2. logins = {}
    BY <2>1 DEF KeyParts, RequestsSeen, ChangeSeen
  <2> QED
    BY <2>1, <2>2 DEF HoldsKey
<1> QED
  BY <1>2, <1>3, <1>4, <1>5, <1>6, <1>7, <1>8, <1>9, <1>10, <1>11 DEF Handle

(* The browser that is answered gets the key if it can be opened.           *)
LEMMA AnsweredHolds ==
  ASSUME Ground, KeyParts, harm = {}, NEW q \in Requests, Answer(q), NEW b \in Browsers
  PROVE  browser'[b] = browser[b] \/ Holding(browser'[b])
<1>1. /\ req[q].step = "answer" /\ record' = record /\ share' = share
      /\ logins' = logins /\ relocated' = relocated
  BY DEF Answer, fileVars, setting
<1>2. RequestOK(req[q]) /\ Files /\ browser \in [Browsers -> BrowserType]
  BY DEF Ground, Shape, Calls
<1>3. req[q].op = "login" /\ LoginSeen(req[q], record, verifier)
  BY <1>1, <1>2 DEF RequestOK, KeyParts, RequestsSeen
<1>4. req[q].pw = verifier
  BY <1>1, <1>3 DEF LoginSeen, Turn
<1>5. \A o \in Requests : req[o].step \notin Last
  BY <1>1 DEF Ground, SessionsInv, Lone, Last, Turn
<1>6. RecordOK(record, share) /\ WrappedWith(record, share, verifier)
  BY <1>5 DEF KeyParts, RecordKept
<1>7. Status = "ready" <=> CanOpen(record, share)
  BY <1>2, StatusIs
<1>8. \A c, k, s : /\ In(c, k, s).at = "in" /\ In(c, k, s).chal = c
                   /\ In(c, k, s).key = k /\ In(c, k, s).share = s
  BY DEF In
<1>9. CASE browser'[b] = In(req[q].chal, record.key, SharePayload)
           /\ Status = "ready" /\ Opens(req[q].pw, SharePayload)
  <2>1. record.status = "ready" /\ record.share = SharePayload /\ record.key # None
    BY <1>6, <1>9 DEF Opens, RecordOK
  <2> QED
    BY <1>1, <1>8, <1>9, <2>1 DEF Holding, OfRecord, HoldsKey
<1>10. CASE /\ browser'[b] = In(req[q].chal, None, None)
            /\ ~(Status = "ready" /\ Opens(req[q].pw, SharePayload))
  <2>1. CanOpen(record, share) => relocated
    <3> SUFFICES ASSUME CanOpen(record, share), ~relocated
                 PROVE  Status = "ready" /\ Opens(req[q].pw, SharePayload)
      BY <1>10
    <3>1. SharePayload = record.share
      BY <1>6 DEF SharePayload, ServerShare, RecordOK, CanOpen
    <3> QED
      BY <1>4, <1>6, <1>7, <3>1 DEF Opens, WrappedWith, CanOpen
  <2>2. req[q].chal \in Challenges
    BY <1>1, <1>2 DEF RequestOK
  <2>3. CanOpen(record, share) => req[q].chal \in Excused'
    BY <1>1, <2>1, <2>2 DEF Excused
  <2> QED
    BY <1>1, <1>8, <1>10, <2>3 DEF Holding, OfRecord, HoldsKey
<1>11. \/ browser'[b] = browser[b]
       \/ /\ browser'[b] = In(req[q].chal, record.key, SharePayload)
          /\ Status = "ready" /\ Opens(req[q].pw, SharePayload)
       \/ /\ browser'[b] = In(req[q].chal, None, None)
          /\ ~(Status = "ready" /\ Opens(req[q].pw, SharePayload))
  BY <1>2 DEF Answer
<1> QED
  BY <1>9, <1>10, <1>11

LEMMA HandleHolding ==
  ASSUME Ground, KeyParts, harm = {}, harm' = {}, NEW q \in Requests, Handle(q)
  PROVE  BrowsersHold'
<1>1. ASSUME NEW b \in Browsers
      PROVE  Holding(browser'[b])
  <2>1. Holding(browser[b])
    BY StillHolds
  <2>2. Holding(Out)
    BY OutHolds DEF Holding
  <2>3. browser'[b] = browser[b] \/ browser'[b] = Out \/ Answer(q)
    BY HandleBrowser DEF Ground
  <2>4. CASE Answer(q)
    BY <2>1, <2>4, AnsweredHolds
  <2> QED
    BY <2>1, <2>2, <2>3, <2>4
<1> QED
  BY <1>1 DEF BrowsersHold, Holding

-----------------------------------------------------------------------------
(* Before the first record, and after a reset.                              *)
LEMMA HandleUnprovided ==
  ASSUME Ground, KeyParts, harm = {}, harm' = {}, NEW q \in Requests, Handle(q)
  PROVE  Unprovided'
<1> SUFFICES ASSUME record'.status = "none"
             PROVE  /\ logins' = {} /\ \A c \in Challenges : challenges'[c] # "kept"
                    /\ \A o \in Requests :
                         req'[o].op = "login" /\ req'[o].step = "taken" => req'[o].missing
  BY DEF Unprovided
<1>0. Shape /\ LoginSeen(req[q], record, verifier) /\ RequestOK(req[q])
  BY DEF Ground, KeyParts, RequestsSeen, Shape, Calls
<1>1. record.status = "none"
  <2>1. ~WriteRecord(q) /\ ~WrapRecord(q) /\ ~InvalidateRecord(q)
    BY ReadyIs, InvalidateKept DEF WriteRecord, WrapRecord
  <2>2. record' = record
    BY <2>1 DEF Handle, TakeChallenge, Verify, WriteShare, ReadSessions, SaveSession,
       Answer, BeginRevoke, SaveRevoked, BeginChange, WritePassword, EndSessions,
       ForgetShare, fileVars
  <2> QED
    BY <2>2
<1>2. /\ logins = {} /\ \A c \in Challenges : challenges[c] # "kept"
      /\ \A o \in Requests : req[o].op = "login" /\ req[o].step = "taken" => req[o].missing
  BY <1>1 DEF KeyParts, Unprovided
<1>3. logins' = {}
  <2>1. CASE SaveSession(q)
    BY <1>0, <1>1, <2>1 DEF LoginSeen, SaveSession
  <2>2. CASE SaveRevoked(q)
    <3>1. req[q].step = "save"
      BY <2>2 DEF SaveRevoked
    <3>2. req[q].seen = logins
      BY <3>1 DEF Ground, SessionsInv, Lone
    <3> QED
      BY <1>2, <2>2, <3>2 DEF SaveRevoked
  <2>3. CASE EndSessions(q)
    BY <2>3 DEF EndSessions
  <2>4. CASE ~SaveSession(q) /\ ~SaveRevoked(q) /\ ~EndSessions(q)
    BY <1>2, <2>4 DEF Handle, TakeChallenge, Verify, WriteRecord, WriteShare,
       ReadSessions, Answer, BeginRevoke, BeginChange, WritePassword, WrapRecord,
       ForgetShare, InvalidateRecord, fileVars
  <2> QED
    BY <2>1, <2>2, <2>3, <2>4
<1>4. \A c \in Challenges : challenges'[c] # "kept"
  <2>1. CASE TakeChallenge(q)
    BY <1>0, <1>2, <2>1 DEF TakeChallenge, Shape, Files
  <2>2. CASE ~TakeChallenge(q)
    BY <1>2, <2>2 DEF Handle, Verify, WriteRecord, WriteShare, ReadSessions, SaveSession,
       Answer, BeginRevoke, SaveRevoked, BeginChange, WritePassword, EndSessions,
       WrapRecord, ForgetShare, InvalidateRecord
  <2> QED
    BY <2>1, <2>2
<1>5. ASSUME NEW o \in Requests, req'[o].op = "login", req'[o].step = "taken"
      PROVE  req'[o].missing
  <2>1. CASE Ends(q)
    BY <1>2, <1>5, <2>1, FreeFields DEF Ends
  <2>2. CASE ~Ends(q) /\ o # q
    BY <1>0, <1>2, <1>5, <2>2, HandleOnward DEF Onward
  <2>3. CASE ~Ends(q) /\ o = q
    <3>1. req[q].step = "sent" /\ Same(req'[q], req[q])
      BY <1>0, <1>5, <2>3, HandleMoves DEF Paths
    <3>2. TakeChallenge(q)
      <4>1. ~BeginRevoke(q) /\ ~BeginChange(q)
        BY <1>5, <2>3, <3>1 DEF BeginRevoke, BeginChange, Same
      <4> QED
        BY <3>1, <4>1 DEF Handle, Verify, WriteRecord, WriteShare, ReadSessions,
           SaveSession, Answer, SaveRevoked, WritePassword, EndSessions, WrapRecord,
           ForgetShare, InvalidateRecord
    <3>3. /\ req'[q].missing = (challenges[req[q].chal] = "missing")
          /\ challenges[req[q].chal] # "none"
      BY <1>0, <1>5, <2>3, <3>2, TakeEffect, DoneEnds
      DEF Becomes, TakeChallenge, Refuse, Shape
    <3>4. req[q].chal \in Challenges
      BY <1>0, <3>1, <3>2 DEF TakeChallenge, RequestOK
    <3>5. challenges[req[q].chal] \in {"none", "missing", "kept"}
      BY <1>0, <3>4 DEF Shape, Files
    <3> QED
      BY <1>2, <2>3, <3>3, <3>4, <3>5
  <2> QED
    BY <2>1, <2>2, <2>3
<1> QED
  BY <1>3, <1>4, <1>5

(* A handler makes no login one that was asked for before the record.       *)
LEMMA HandleFirst ==
  ASSUME Ground, NEW q \in Requests, Handle(q)
  PROVE  /\ \A o \in Requests : FirstLogin(req'[o], challenges') =>
              FirstLogin(req[o], challenges) /\ req'[o].pw = req[o].pw
         /\ \A b \in Browsers : FirstAsked(browser'[b], challenges') =>
              FirstAsked(browser[b], challenges) /\ browser'[b] = browser[b]
<1>0. /\ Shape /\ RequestOK(req[q]) /\ challenges \in [Challenges -> {"none", "missing", "kept"}]
      /\ \A o \in Requests : RequestOK(req[o])
      /\ \A b \in Browsers : BrowserOK(browser[b])
  BY DEF Ground, Shape, Calls, Files
<1>1. \A c \in Challenges : challenges'[c] \in {challenges[c], "none"}
  <2>1. CASE TakeChallenge(q)
    BY <1>0, <2>1 DEF TakeChallenge
  <2>2. CASE ~TakeChallenge(q)
    BY <2>2 DEF Handle, Verify, WriteRecord, WriteShare, ReadSessions, SaveSession,
       Answer, BeginRevoke, SaveRevoked, BeginChange, WritePassword, EndSessions,
       WrapRecord, ForgetShare, InvalidateRecord
  <2> QED
    BY <2>1, <2>2
<1>2. ASSUME NEW o \in Requests, FirstLogin(req'[o], challenges')
      PROVE  FirstLogin(req[o], challenges) /\ req'[o].pw = req[o].pw
  <2>1. CASE req'[o] = Free
    BY <1>2, <2>1, FreeSeen
  <2>2. CASE req'[o] = req[o]
    BY <1>0, <1>1, <1>2, <2>2 DEF FirstLogin, RequestOK
  <2>3. CASE o = q /\ ~Ends(q)
    <3>1. /\ req[q].step = "sent" /\ req'[q].step = "taken" /\ Same(req'[q], req[q])
      BY <1>0, <1>2, <2>3, HandleMoves DEF Paths, FirstLogin
    <3>2. TakeChallenge(q)
      <4>1. ~BeginRevoke(q) /\ ~BeginChange(q)
        BY <1>2, <2>3, <3>1 DEF BeginRevoke, BeginChange, Same, FirstLogin
      <4> QED
        BY <3>1, <4>1 DEF Handle, Verify, WriteRecord, WriteShare, ReadSessions,
           SaveSession, Answer, SaveRevoked, WritePassword, EndSessions, WrapRecord,
           ForgetShare, InvalidateRecord
    <3>3. req'[q].missing = (challenges[req[q].chal] = "missing")
      BY <1>0, <2>3, <3>2, TakeEffect DEF Becomes
    <3> QED
      BY <1>2, <2>3, <3>1, <3>3 DEF FirstLogin, Same
  <2> QED
    BY <1>0, <2>1, <2>2, <2>3, HandleOnward DEF Onward, Ends
<1>3. ASSUME NEW b \in Browsers, FirstAsked(browser'[b], challenges')
      PROVE  FirstAsked(browser[b], challenges) /\ browser'[b] = browser[b]
  <2>1. \A c, k, s : In(c, k, s).at = "in"
    BY DEF In
  <2>2. browser'[b] = browser[b]
    BY <1>0, <1>3, <2>1, HandleBrowser, OutIs DEF FirstAsked
  <2>3. browser[b].chal \in Challenges
    BY <1>0, <1>3, <2>2 DEF FirstAsked, BrowserOK
  <2> QED
    BY <1>1, <1>3, <2>2, <2>3 DEF FirstAsked
<1> QED
  BY <1>2, <1>3

LEMMA HandleGone ==
  ASSUME Ground, KeyParts, harm = {}, harm' = {}, NEW q \in Requests, Handle(q), Gone'
  PROVE  Gone \/ WritePassword(q)
<1> SUFFICES ASSUME ~WritePassword(q)
             PROVE  Gone
  OBVIOUS
<1>0. Shape /\ ChangeSeen(req[q], record, share, verifier, logins) /\ RequestOK(req[q])
  BY DEF Ground, KeyParts, RequestsSeen, Shape, Calls
<1>1. CASE WriteRecord(q) \/ WrapRecord(q)
  <2>1. record'.status = "ready" /\ req[q].step \in Turn
    BY <1>1, ReadyIs DEF WriteRecord, WrapRecord, Turn
  <2>2. \A o \in Requests : o # q => req[o].step \notin Turn
    BY <2>1 DEF Ground, SessionsInv, Lone
  <2>3. \A o \in Requests : o # q => ~Resets(req'[o])
    BY <1>0, <2>2, HandleOnward DEF Onward, Resets, Last, Turn
  <2>4. ~Resets(req'[q])
    BY <1>0, <1>1, WriteEffect, EndEffect, FreeSeen
    DEF Becomes, Ends, Resets, Last
  <2> QED
    BY <2>1, <2>3, <2>4 DEF Gone, Resets
<1>2. CASE InvalidateRecord(q)
  <2>1. req[q].step = "invalidate" /\ req[q].op = "reset"
    BY <1>0, <1>2 DEF InvalidateRecord, RequestOK
  <2>2. record'.key = record.key
    BY <1>2, InvalidatedIs DEF InvalidateRecord, Ground, Shape, Files, Records
  <2> QED
    BY <2>1, <2>2 DEF Gone, Resets, Last
<1>3. CASE ~WriteRecord(q) /\ ~WrapRecord(q) /\ ~InvalidateRecord(q)
  <2>1. record' = record
    BY <1>3 DEF Handle, TakeChallenge, Verify, WriteShare, ReadSessions, SaveSession,
       Answer, BeginRevoke, SaveRevoked, BeginChange, WritePassword, EndSessions,
       ForgetShare, fileVars
  <2>2. ASSUME NEW o \in Requests, Resets(req'[o])
        PROVE  Resets(req[o])
    <3>1. CASE Ends(q)
      BY <2>2, <3>1, FreeSeen DEF Ends
    <3>2. CASE o # q
      BY <1>0, <2>2, <3>2, HandleOnward, FreeSeen DEF Onward
    <3>3. CASE ~Ends(q) /\ o = q
      <4>1. Same(req'[q], req[q]) /\ <<req[q].step, req'[q].step>> \in Paths
        BY <1>0, <3>3, HandleMoves
      <4>2. req[q].step # "password"
        BY DEF Handle, TakeChallenge, Verify, WriteRecord, WriteShare, ReadSessions,
           SaveSession, Answer, BeginRevoke, SaveRevoked, BeginChange, EndSessions,
           WrapRecord, ForgetShare, InvalidateRecord
      <4> QED
        BY <2>2, <3>3, <4>1, <4>2 DEF Same, Paths, Resets, Last
    <3> QED
      BY <3>1, <3>2, <3>3
  <2> QED
    BY <2>1, <2>2 DEF Gone, Resets
<1> QED
  BY <1>1, <1>2, <1>3

LEMMA HandleTooLate ==
  ASSUME Ground, KeyParts, harm = {}, harm' = {}, NEW q \in Requests, Handle(q)
  PROVE  TooLate'
<1> SUFFICES ASSUME Gone'
             PROVE  /\ \A b \in Browsers :
                         FirstAsked(browser'[b], challenges') => browser'[b].pw # verifier'
                    /\ \A o \in Requests :
                         FirstLogin(req'[o], challenges') => req'[o].pw # verifier'
  BY DEF TooLate
<1>0. Shape
  BY DEF Ground
<1>1. CASE verifier' = verifier /\ Gone
  BY <1>1, HandleFirst DEF KeyParts, TooLate
<1>2. CASE verifier' = req[q].new /\ ToCome(req[q])
  <2>1. NewOK(req[q].new, verifier, browser, req)
    BY <1>2 DEF Ground, PasswordsInv
  <2> QED
    BY <1>2, <2>1, HandleFirst DEF NewOK
<1>3. CASE verifier' = verifier /\ WritePassword(q)
  <2>1. RequestOK(req[q])
    BY <1>0 DEF Shape, Calls
  <2>2. verifier' = req[q].new /\ ToCome(req[q])
    BY <1>3, <2>1 DEF WritePassword, ToCome, RequestOK
  <2> QED
    BY <1>2, <2>2
<1> QED
  BY <1>0, <1>1, <1>2, <1>3, HandlePw, HandleGone

-----------------------------------------------------------------------------
(* When no handler runs.                                                    *)
LEMMA RequestsStand ==
  ASSUME Ground, KeyParts, record' = record, share' = share, verifier' = verifier,
         logins' = logins,
         \A i \in Requests : Stays(i) \/ Begun(req'[i])
  PROVE  RequestsSeen'
<1> SUFFICES ASSUME NEW i \in Requests
             PROVE  SeenAfter(i) /\ OfRecord(req'[i], record)
  BY DEF RequestsSeen, SeenAfter
<1>0. /\ LoginSeen(req[i], record, verifier) /\ OfRecord(req[i], record)
      /\ ChangeSeen(req[i], record, share, verifier, logins)
      /\ \A b \in Browsers : OfRecord(browser[b], record)
  BY DEF KeyParts, RequestsSeen, BrowsersHold
<1>1. CASE req'[i] = req[i]
  BY <1>0, <1>1 DEF SeenAfter
<1>2. CASE req'[i] = Free
  BY <1>2, FreeSeen, OutsideAfter
<1>3. CASE /\ Same(req'[i], req[i]) /\ req'[i].step = req[i].step
           /\ req'[i].missing = req[i].missing
  BY <1>0, <1>3 DEF SeenAfter, LoginSeen, ChangeSeen, OfRecord, Same
<1>4. CASE BegunReset(req'[i])
  BY <1>4 DEF BegunReset, Fields, SeenAfter, LoginSeen, ChangeSeen, OfRecord
<1>5. CASE \E b \in Browsers : BegunLogin(req'[i], b) \/ BegunLogout(req'[i], b)
                                \/ BegunChange(req'[i], b)
  <2>1. req'[i].step = "sent"
    BY <1>5 DEF BegunLogin, BegunLogout, BegunChange
  <2>2. OfRecord(req'[i], record)
    BY <1>0, <1>5 DEF BegunLogin, BegunLogout, BegunChange, Fields, OfRecord
  <2> QED
    BY <2>1, <2>2, OutsideAfter DEF Turn
<1> QED
  BY <1>1, <1>2, <1>3, <1>4, <1>5 DEF Stays, Stands, Begun

(* No request but those that end leaves the last steps of a change.         *)
LEMMA KeptAnyway ==
  ASSUME KeyParts, record' = record, verifier' = verifier, share' \in {share, None},
         \A i \in Requests : req[i].step \in Last => req'[i].step \in Last
  PROVE  RecordKept'
BY DEF KeyParts, RecordKept, RecordOK, WrappedWith, CanOpen

LEMMA HoldAnyway ==
  ASSUME KeyParts, record' = record, logins' = logins, relocated' = relocated,
         keyless \subseteq keyless', share' \in {share, None},
         \A b \in Browsers :
           \/ browser'[b] = browser[b]
           \/ browser'[b].at # "in" /\ browser'[b].key = None
           \/ browser'[b].key = None /\ ~CanOpen(record, share)
  PROVE  BrowsersHold'
BY DEF KeyParts, BrowsersHold, OfRecord, HoldsKey, CanOpen, Excused

(* No login is asked for before the record but those that were.             *)
LEMMA LateAnyway ==
  ASSUME KeyParts, record' = record, verifier' = verifier,
         \A i \in Requests : Stays(i) \/ Begun(req'[i]),
         Gone => \A b \in Browsers :
           FirstAsked(browser'[b], challenges') =>
             FirstAsked(browser[b], challenges) /\ browser'[b] = browser[b],
         Gone => \A i \in Requests :
           FirstLogin(req'[i], challenges') =>
             \/ FirstLogin(req[i], challenges) /\ req'[i].pw = req[i].pw
             \/ \E b \in Browsers :
                  FirstAsked(browser[b], challenges) /\ req'[i].pw = browser[b].pw
  PROVE  TooLate'
<1>1. \A i \in Requests : Resets(req'[i]) => Resets(req[i])
  BY FreeSeen DEF Stays, Stands, Begun, BegunLogin, BegunLogout, BegunChange,
     BegunReset, Resets, Same, Last
<1>2. Gone' => Gone
  BY <1>1 DEF Gone, Resets
<1> QED
  BY <1>2 DEF KeyParts, TooLate

LEMMA UnprovidedAnyway ==
  ASSUME KeyParts, record' = record, logins' = logins,
         \A i \in Requests : Stays(i) \/ Begun(req'[i]),
         record.status = "none" => \A c \in Challenges :
           challenges'[c] \in {challenges[c], "none", "missing"}
  PROVE  Unprovided'
<1>1. ASSUME record.status = "none", NEW i \in Requests,
             req'[i].op = "login", req'[i].step = "taken"
      PROVE  req'[i].missing
  <2>1. Stays(i)
    BY <1>1 DEF Begun, BegunLogin, BegunLogout, BegunChange, BegunReset
  <2> QED
    BY <1>1, <2>1, FreeFields DEF Stays, Stands, Same, KeyParts, Unprovided
<1> QED
  BY <1>1 DEF KeyParts, Unprovided

LEMMA BeginKey ==
  ASSUME Ground, KeyParts, NEW q \in Requests, Begun(req'[q]), req[q] = Free,
         \A i \in Requests : i # q => Stands(i), challenges' = challenges,
         browser' = browser, UNCHANGED fileVars, UNCHANGED relocated,
         keyless \subseteq keyless'
  PROVE  KeyParts'
<1>0. /\ record' = record /\ share' = share /\ verifier' = verifier
      /\ logins' = logins /\ relocated' = relocated
  BY DEF fileVars
<1>1. \A i \in Requests : Stays(i) \/ Begun(req'[i])
  BY DEF Stays
<1>2. RequestsSeen'
  BY <1>0, <1>1, RequestsStand
<1>3. \A i \in Requests : req[i].step \in Last => req'[i].step \in Last
  BY FreeSeen DEF Stands
<1>4. RecordKept' /\ BrowsersHold'
  BY <1>0, <1>3, KeptAnyway, HoldAnyway
<1>5. Unprovided'
  BY <1>0, <1>1, UnprovidedAnyway
<1>6. ASSUME NEW i \in Requests, FirstLogin(req'[i], challenges)
      PROVE  \/ FirstLogin(req[i], challenges) /\ req'[i].pw = req[i].pw
             \/ \E b \in Browsers :
                  FirstAsked(browser[b], challenges) /\ req'[i].pw = browser[b].pw
  <2>1. CASE i = q
    BY <1>6, <2>1 DEF Begun, BegunLogin, BegunLogout, BegunChange, BegunReset, Fields,
       FirstLogin, FirstAsked
  <2>2. CASE i # q
    BY <1>6, <2>2 DEF Stands, Same, FirstLogin
  <2> QED
    BY <2>1, <2>2
<1>7. TooLate'
  BY <1>0, <1>1, <1>6, LateAnyway
<1> QED
  BY <1>2, <1>4, <1>5, <1>7 DEF KeyParts

LEMMA BeginsKey ==
  ASSUME Ground, KeyParts, keyless \subseteq keyless',
         \/ \E b \in Browsers, q \in Requests, p \in Workers :
              \/ SendLogin(b, q, p) \/ SendLogout(b, q, p) \/ SendChange(b, q, p)
              \/ \E o \in Requests : ResendLogin(b, q, o, p)
         \/ \E q \in Requests : BeginReset(q)
  PROVE  KeyParts'
<1>0. Shape
  BY DEF Ground
<1>1. ASSUME NEW b \in Browsers, NEW q \in Requests, NEW p \in Workers,
             SendLogin(b, q, p) \/ SendLogout(b, q, p) \/ SendChange(b, q, p)
      PROVE  KeyParts'
  <2>1. /\ Begun(req'[q]) /\ req[q] = Free
        /\ \A i \in Requests : i # q => Stands(i)
    BY <1>0, <1>1, SendEffect DEF Stands
  <2>2. /\ challenges' = challenges /\ browser' = browser /\ UNCHANGED fileVars
        /\ relocated' = relocated
    BY <1>1, Zenon DEF SendLogin, SendLogout, SendChange, setting
  <2> QED
    BY <2>1, <2>2, BeginKey
<1>2. ASSUME NEW b \in Browsers, NEW q \in Requests, NEW p \in Workers,
             NEW o \in Requests, ResendLogin(b, q, o, p)
      PROVE  KeyParts'
  <2>1. /\ Begun(req'[q]) /\ req[q] = Free
        /\ \A i \in Requests : i # q => Stands(i)
    BY <1>0, <1>2, ResendBegins
  <2>2. /\ challenges' = challenges /\ browser' = browser /\ UNCHANGED fileVars
        /\ relocated' = relocated
    BY <1>2, Zenon DEF ResendLogin, setting
  <2> QED
    BY <2>1, <2>2, BeginKey
<1>3. ASSUME NEW q \in Requests, BeginReset(q)
      PROVE  KeyParts'
  <2>1. /\ Begun(req'[q]) /\ req[q] = Free
        /\ \A i \in Requests : i # q => Stands(i)
    BY <1>0, <1>3, ResetBegins DEF Stands, Begun
  <2>2. /\ challenges' = challenges /\ browser' = browser /\ UNCHANGED fileVars
        /\ relocated' = relocated
    BY <1>3, Zenon DEF BeginReset, setting
  <2> QED
    BY <2>1, <2>2, BeginKey
<1> QED
  BY <1>1, <1>2, <1>3

(* A page loads, a challenge expires.                                       *)
LEMMA LoadKey ==
  ASSUME Ground, KeyParts, keyless \subseteq keyless',
         (\E b \in Browsers : Load(b)) \/ (\E c \in Challenges : Expire(c))
  PROVE  KeyParts'
<1>0. /\ Shape /\ Files
      /\ \A b \in Browsers : BrowserOK(browser[b])
      /\ \A i \in Requests : RequestOK(req[i])
  BY DEF Ground, Shape, Calls
<1>1. /\ record' = record /\ share' = share /\ verifier' = verifier
      /\ logins' = logins /\ relocated' = relocated /\ req' = req
      /\ \A c \in Challenges : challenges'[c] \in {challenges[c], "none"}
  BY <1>0 DEF Load, Expire, fileVars, setting, Files
<1>2. \A i \in Requests : Stays(i)
  BY <1>1 DEF Stays, Stands
<1>3. \A b \in Browsers :
        \/ browser'[b] = browser[b] \/ browser'[b] = Out
        \/ /\ browser'[b] = In(browser[b].chal, None, None)
           /\ Status = "invalidated"
  BY <1>0 DEF Load, Expire, Shape, Calls
<1>4. \A c, k, s : In(c, k, s).at = "in" /\ In(c, k, s).key = k
  BY DEF In
<1>5. Status = "invalidated" => ~CanOpen(record, share)
  BY <1>0, StatusIs
<1>6. BrowsersHold'
  BY <1>1, <1>3, <1>4, <1>5, OutIs, HoldAnyway
<1>7. RequestsSeen' /\ RecordKept' /\ Unprovided'
  BY <1>1, <1>2, RequestsStand, KeptAnyway, UnprovidedAnyway
<1>8. ASSUME NEW b \in Browsers, FirstAsked(browser'[b], challenges')
      PROVE  FirstAsked(browser[b], challenges) /\ browser'[b] = browser[b]
  <2>1. browser'[b] = browser[b]
    BY <1>3, <1>4, <1>8, OutIs DEF FirstAsked
  <2> QED
    BY <1>0, <1>1, <1>8, <2>1 DEF FirstAsked, BrowserOK
<1>9. ASSUME NEW i \in Requests, FirstLogin(req'[i], challenges')
      PROVE  FirstLogin(req[i], challenges)
  BY <1>0, <1>1, <1>9 DEF FirstLogin, RequestOK
<1>10. TooLate'
  BY <1>1, <1>2, <1>8, <1>9, LateAnyway
<1> QED
  BY <1>6, <1>7, <1>10 DEF KeyParts

LEMMA AskKey ==
  ASSUME Ground, KeyParts, keyless \subseteq keyless', NEW b \in Browsers,
         NEW c \in Challenges, NEW p \in Workers, AskChallenge(b, c, p)
  PROVE  KeyParts'
<1> DEFINE x == AskedWith(c, verifier, Status = "missing")
<1>0. /\ Shape /\ Files /\ c \in fresh
  BY DEF Ground, Shape, AskChallenge
<1>1. /\ record' = record /\ share' = share /\ verifier' = verifier
      /\ logins' = logins /\ relocated' = relocated /\ req' = req
      /\ \A d \in Challenges : d # c => challenges'[d] = challenges[d]
      /\ challenges'[c] = IF Status = "missing" THEN "missing" ELSE "kept"
  BY <1>0 DEF AskChallenge, fileVars, setting, Files
<1>2. browser' = [browser EXCEPT ![b] = x]
  BY Zenon DEF AskChallenge, AskedWith
<1>3. x.at = "asked" /\ x.chal = c /\ x.key = None
  BY <1>0, AskedIs, ZenonT(40) DEF Files
<1> HIDE DEF x
<1>4. browser'[b] = x /\ \A a \in Browsers : a # b => browser'[a] = browser[a]
  BY <1>0, <1>2 DEF Shape, Calls
<1>5. \A i \in Requests : Stays(i)
  BY <1>1 DEF Stays, Stands
<1>6. /\ record.status = "none" <=> Status = "missing"
      /\ record.status = "none" => record.key = None
  BY <1>0, StatusIs DEF KeyParts, RecordKept, RecordOK
<1>7. \A d \in Challenges :
        record.status = "none" => challenges'[d] \in {challenges[d], "none", "missing"}
  BY <1>1, <1>6
<1>8. RequestsSeen' /\ RecordKept' /\ Unprovided' /\ BrowsersHold'
  BY <1>1, <1>3, <1>4, <1>5, <1>7, RequestsStand, KeptAnyway, UnprovidedAnyway, HoldAnyway
<1>9. /\ \A a \in Browsers : browser[a].chal # c
      /\ \A i \in Requests : ~Carries(req[i], c)
  BY <1>0 DEF Ground, ChallengesInv, Untouched
<1>10. ASSUME Gone, NEW a \in Browsers, FirstAsked(browser'[a], challenges')
       PROVE  FirstAsked(browser[a], challenges) /\ browser'[a] = browser[a]
  <2>1. challenges'[c] = "kept"
    BY <1>1, <1>6, <1>10 DEF Gone
  <2>2. a # b
    BY <1>3, <1>4, <1>10, <2>1 DEF FirstAsked
  <2>3. browser[a].at = "asked" => browser[a].chal \in Challenges
    BY <1>0 DEF Shape, Calls, BrowserOK
  <2> QED
    BY <1>1, <1>4, <1>9, <1>10, <2>2, <2>3 DEF FirstAsked
<1>11. ASSUME NEW i \in Requests, FirstLogin(req'[i], challenges')
       PROVE  FirstLogin(req[i], challenges)
  <2>1. req[i].op = "login" /\ req[i].step # "free" => req[i].chal \in Challenges
    BY <1>0 DEF Shape, Calls, RequestOK
  <2> QED
    BY <1>1, <1>9, <1>11, <2>1 DEF FirstLogin, Carries
<1>12. TooLate'
  BY <1>1, <1>5, <1>10, <1>11, LateAnyway
<1> QED
  BY <1>8, <1>12 DEF KeyParts

(* A process ends, outside a change; the server starts again.               *)
LEMMA DropKey ==
  ASSUME Ground, KeyParts, harm' = {}, keyless \subseteq keyless',
         (\E p \in Processes : Crash(p)) \/ Restart
  PROVE  KeyParts'
<1>0. /\ Shape /\ Files
      /\ \A b \in Browsers : BrowserOK(browser[b])
      /\ \A i \in Requests : RequestOK(req[i])
  BY DEF Ground, Shape, Calls
<1>1. /\ record' = record /\ verifier' = verifier
      /\ logins' = logins /\ relocated' = relocated /\ share' \in {share, None}
      /\ \A c \in Challenges : challenges'[c] \in {challenges[c], "none"}
  BY DEF Crash, Restart, fileVars, setting
<1>2. PICK gone \in SUBSET Requests :
        /\ Dropped(gone) /\ \A i \in gone : req[i].step \notin Last
        /\ gone = Requests \/ share' = share
  <2>1. CASE Restart
    BY <2>1 DEF Restart, Quiet, Last, Turn
  <2>2. ASSUME NEW p \in Processes, Crash(p)
        PROVE  \E gone \in SUBSET Requests :
                 /\ Dropped(gone) /\ \A i \in gone : req[i].step \notin Last
                 /\ gone = Requests \/ share' = share
    <3> DEFINE gone == {q \in Requests : req[q] # Free /\ req[q].at = p}
    <3>1. /\ Dropped(gone) /\ share' = share
          /\ harm' = IF \E i \in gone :
                          req[i].step \in {"end", "wrap", "forget", "invalidate"}
                     THEN harm \union {"torn"} ELSE harm
      BY <2>2 DEF Crash, fileVars
    <3>2. gone \in SUBSET Requests
      OBVIOUS
    <3> HIDE DEF gone
    <3>3. \A i \in gone : req[i].step \notin Last
      BY <3>1 DEF Last
    <3> QED
      BY <3>1, <3>2, <3>3
  <2> QED
    BY <2>1, <2>2
<1>3. \A i \in Requests : req'[i] = IF i \in gone THEN Free ELSE req[i]
  BY <1>2 DEF Dropped
<1>4. \A i \in Requests : Stays(i)
  BY <1>3 DEF Stays, Stands
<1>5. \A b \in Browsers : browser'[b] = browser[b] \/ browser'[b] = Out
  BY <1>2 DEF Dropped
<1>6. RequestsSeen'
  <2>1. CASE gone = Requests
    <3>1. \A i \in Requests : req'[i] = Free
      BY <1>3, <2>1
    <3> QED
      BY <3>1, FreeSeen, OutsideSeen DEF RequestsSeen
  <2>2. CASE share' = share
    BY <1>1, <1>4, <2>2, RequestsStand
  <2> QED
    BY <1>2, <2>1, <2>2
<1>7. RecordKept'
  BY <1>1, <1>2, <1>3, KeptAnyway
<1>8. Unprovided' /\ BrowsersHold'
  BY <1>1, <1>4, <1>5, OutIs, UnprovidedAnyway, HoldAnyway
<1>9. ASSUME NEW b \in Browsers, FirstAsked(browser'[b], challenges')
      PROVE  FirstAsked(browser[b], challenges) /\ browser'[b] = browser[b]
  BY <1>0, <1>1, <1>5, <1>9, OutIs DEF FirstAsked, BrowserOK
<1>10. ASSUME NEW i \in Requests, FirstLogin(req'[i], challenges')
       PROVE  FirstLogin(req[i], challenges) /\ req'[i].pw = req[i].pw
  BY <1>0, <1>1, <1>3, <1>10, FreeSeen DEF FirstLogin, RequestOK
<1>11. TooLate'
  BY <1>1, <1>4, <1>9, <1>10, LateAnyway
<1> QED
  BY <1>6, <1>7, <1>8, <1>11 DEF KeyParts

LEMMA NextKey ==
  ASSUME Ground, KeyParts, harm = {}, harm' = {}, Next
  PROVE  KeyParts'
<1>1. ASSUME NEW q \in Requests, Handle(q)
      PROVE  KeyParts'
  <2>1. RecordKept'
    BY <1>1, HandleKept DEF FilesKept, RecordKept
  <2> QED
    BY <1>1, <2>1, HandleSeen, HandleHolding, HandleUnprovided, HandleTooLate
    DEF KeyParts
<1> QED
  BY <1>1, KeylessGrows, BeginsKey, LoadKey, AskKey, DropKey DEF Next

LEMMA KeyInvariance == Spec => []KeyInv
<1>1. Init => KeyInv
  <2> SUFFICES ASSUME Init
               PROVE  KeyParts
    BY DEF KeyInv
  <2>1. \/ record.status = "none" /\ record.key = None /\ share = None
        \/ /\ record.status = "ready" /\ record.key = Legacy /\ record.pw = 0
           /\ record.share = Legacy /\ record.sealed = None /\ share = Legacy
    BY ReadyIs DEF Init, NoRecord
  <2>2. RecordKept
    BY <2>1, LoginsAssumption DEF Init, RecordKept, RecordOK, WrappedWith, CanOpen
  <2>3. RequestsSeen
    BY FreeSeen, OutsideSeen DEF Init, RequestsSeen
  <2>4. BrowsersHold
    BY OutHolds DEF Init, BrowsersHold
  <2>5. Unprovided
    BY FreeFields DEF Init, Unprovided
  <2>6. TooLate
    <3>1. \A b \in Browsers : ~FirstAsked(browser[b], challenges)
      BY OutIs DEF Init, FirstAsked
    <3>2. \A q \in Requests : ~FirstLogin(req[q], challenges)
      BY FreeSeen DEF Init
    <3> QED
      BY <3>1, <3>2 DEF TooLate
  <2> QED
    BY <2>2, <2>3, <2>4, <2>5, <2>6 DEF KeyParts
<1>2. Ground /\ KeyInv /\ [Next]_vars => KeyInv'
  <2>1. ASSUME KeyInv, UNCHANGED vars
        PROVE  KeyInv'
    BY <2>1 DEF KeyInv, KeyParts, RecordKept, RequestsSeen, BrowsersHold, Unprovided,
       TooLate, Gone, Excused, vars
  <2>2. ASSUME Ground, KeyInv, Next, harm' = {}
        PROVE  KeyParts'
    BY <2>2, HarmGrows, NextKey DEF KeyInv
  <2> QED
    BY <2>1, <2>2 DEF KeyInv
<1> QED
  BY <1>1, <1>2, ShapeInvariance, ChallengesInvariance, SessionsInvariance,
     KeysInvariance, PasswordsInvariance, CompletedInvariance, PTL DEF Spec, Ground

(* The wrapped key opens with the password of now and the server's share,   *)
(* after any logins, changes, resets, crashes and lost shares               *)
(* (writeReadyUserCryptoRecord seals the share): no user is locked out.     *)
THEOREM TheKeyOpens == Spec => []KeyOpens
<1>1. KeyInv => KeyOpens
  <2> SUFFICES ASSUME KeyParts, Quiet, record.status = "ready"
               PROVE  \/ Opens(verifier, ServerShare(record))
                      \/ record.sealed = None /\ record.key = Legacy /\ share = None
    BY DEF KeyInv, KeyOpens
  <2>1. RecordOK(record, share) /\ WrappedWith(record, share, verifier)
    BY DEF Quiet, Turn, Last, KeyParts, RecordKept
  <2>2. CASE CanOpen(record, share)
    BY <2>1, <2>2 DEF CanOpen, RecordOK, WrappedWith, Opens, ServerShare
  <2>3. CASE ~CanOpen(record, share)
    BY <2>1, <2>3 DEF CanOpen, RecordOK
  <2> QED
    BY <2>2, <2>3
<1> QED
  BY <1>1, KeyInvariance, PTL

(* Whoever is logged in holds the record's key, unless it cannot be opened, *)
(* was looked for where CUSTOMWARE_PATH of the environment says             *)
(* (buildLoginUserCryptoPayload), or was written over what a reset          *)
(* invalidated by a login asked for before (completeLogin); another key     *)
(* than the record's no one holds.                                          *)
THEOREM BrowsersHoldTheKey == Spec => []BrowsersShareKey
<1>1. KeyInv /\ Shape => BrowsersShareKey
  <2>1. Shape => (Status = "ready" <=> CanOpen(record, share))
    BY StatusIs DEF Shape
  <2> QED
    BY <2>1 DEF KeyInv, KeyParts, BrowsersHold, OfRecord, HoldsKey, BrowsersShareKey,
       Excused
<1> QED
  BY <1>1, KeyInvariance, ShapeInvariance, PTL
=============================================================================
