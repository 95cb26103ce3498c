------------------------------- MODULE UserQuota -------------------------------
(***************************************************************************)
(* The size limit of a user's folder L2/<user>/: the cached size by which  *)
(* a server process judges a request, the file operations it then runs,    *)
(* and the path index that the sizes come from, which learns of a change   *)
(* only after the request that made it.                                    *)
(*                                                                         *)
(*   server/lib/customware/user_quota.js     cached sizes, plans           *)
(*   server/lib/customware/file_access.js    writes, copies, moves, deletes*)
(*   server/lib/customware/module_manage.js  the install of a module       *)
(*   server/runtime/request_mutations.js     when the index is told        *)
(*   server/runtime/cluster.js               what the workers are told     *)
(*                                                                         *)
(* One user folder is followed, with files in it and some outside it (a    *)
(* group's, which no limit concerns); a size is a small number, 0 for no   *)
(* file.  A handler runs without an await from its first check to the last *)
(* file operation, so a request is one step, and telling the index is      *)
(* another.  Who may write where was decided before.                       *)
(*                                                                         *)
(* The primary has the whole folder in its index from the start.  A worker *)
(* has no copy, or only the sign-in files, until the owner comes to it.    *)
(*                                                                         *)
(* Bounds: MaxChanges requests of one server, MaxClusterChanges of the     *)
(* workers together, MaxFaults operations that fail with the disk full or  *)
(* deltas that leave a gap, MaxBatch files in a request, sizes to MaxSize. *)
(***************************************************************************)
EXTENDS Integers, Sequences, FiniteSetsExt

CONSTANTS
  Processes,    \* the processes that serve requests
  Files, Folder, \* the files, and those in the user's folder
  Auth,         \* its sign-in files, which the backend writes on its own
  Limit,        \* USER_FOLDER_SIZE_LIMIT_BYTES, positive
  MaxSize, MaxBatch, MaxChanges, MaxClusterChanges, MaxFaults

ASSUME QuotaAssumption ==
  /\ IsFiniteSet(Processes) /\ IsFiniteSet(Files)
  /\ Auth \subseteq Folder /\ Folder \subseteq Files
  /\ {Limit, MaxSize, MaxBatch} \subseteq Nat \ {0}
  /\ {MaxChanges, MaxClusterChanges, MaxFaults} \subseteq Nat

VARIABLES
  live,     \* the processes there are: the server, or the workers of a cluster
  disk,     \* file -> its size
  unseen,   \* files changed on disk since the primary last looked at them
  log,      \* the primary's index, one version after another
  copy,     \* process -> what it has of the folder: "none", "part", "full"
  have,     \* process -> the version its copy of the folder is of
  known,    \* process -> the last version it was told of
  cache,    \* userFolderSizeCache: process -> the folder's size, or NoSize
  reports,  \* paths whose requests have ended and not yet told the index
  mail,     \* process -> messages of the primary under way
  filling,  \* processes that ask the primary for the deltas they miss
  install,  \* the install of a module under way, or NoInstall
  torn,     \* ghost: files a request that failed had changed, not told since
  taint,    \* ghost: process -> what its cached size was computed in spite of
  excuse,   \* ghost: what the last change of the disk was made in spite of
  lost,     \* ghost: "no", "excused" or "yes": a move replaced a file
  changes, faults  \* counters of the bounds

diskVars == <<live, disk, unseen>>
indexVars == <<log, copy, have, known>>
vars == <<live, disk, unseen, log, copy, have, known, cache, reports, mail, filling,
          install, torn, taint, excuse, lost, changes, faults>>
-----------------------------------------------------------------------------
Sizes     == 0 .. MaxSize
NoSize    == -1
NoInstall == [by |-> "nobody", at |-> "", size |-> 0, spite |-> {}]
Clustered == Cardinality(live) > 1
Newest    == Len(log)
Excuses   == {"overlap", "behind", "torn", "blind", "gap",
              "backend", "failed", "raced"}

Sum(g, S) == MapThenSumSet(LAMBDA x : g[x], S)
Total(d)  == Sum(d, Folder)

(* What process p finds of file f in its index: the folder's shard is       *)
(* loaded on demand, the rest comes with every delta.                       *)
Knows(p, f)   == \/ f \notin Folder \/ copy[p] = "full"
                 \/ copy[p] = "part" /\ f \in Auth
Entry(p, f)   == IF ~Knows(p, f) THEN 0
                 ELSE log[IF f \in Folder THEN have[p] ELSE known[p]][f]
Indexed(p, f) == Entry(p, f) > 0

(* getIndexedOrAbsolutePathSize: a path the index lacks is read from disk.  *)
SizeOf(p, f) == IF Indexed(p, f) THEN Entry(p, f) ELSE disk[f]

(* getCachedUserFolderSize *)
FolderSize(p) ==
  IF cache[p] # NoSize THEN cache[p]
  ELSE IF copy[p] = "none" THEN Total(disk)
  ELSE Sum([f \in Folder |-> Entry(p, f)], Folder)

(* What a plan of process p about the given paths is made in spite of:      *)
(* changes the index has not been told, or p has not, or never will be, and *)
(* a copy of the folder that is partial or marked as outdated.              *)
Spite(p, paths) ==
  LET needed == paths \union (IF cache[p] = NoSize THEN Folder ELSE {})
  IN (IF cache[p] = NoSize THEN {} ELSE taint[p])
       \union (IF \E r \in reports : r.by # p \/ r.paths \intersect needed # {}
               THEN {"overlap"} ELSE {})
       \union (IF mail[p] # << >> THEN {"behind"} ELSE {})
       \union (IF torn # {} THEN {"torn"} ELSE {})
       \union (IF p \in filling THEN {"gap"} ELSE {})
       \union (IF copy[p] = "part" \/ have[p] < known[p] THEN {"blind"} ELSE {})

Init ==
  /\ live \in (SUBSET Processes) \ {{}}
  /\ disk \in [Files -> Sizes]
  /\ Total(disk) <= Limit + 1 /\ \A f \in Auth : disk[f] = 1
  /\ unseen = {} /\ log = <<disk>>
  /\ copy \in [live -> IF Clustered THEN {"none", "part"} ELSE {"full"}]
  /\ have = [p \in live |-> 1] /\ known = [p \in live |-> 1]
  /\ cache = [p \in live |-> NoSize]
  /\ reports = {} /\ mail = [p \in live |-> << >>] /\ filling = {}
  /\ install = NoInstall /\ torn = {}
  /\ taint = [p \in live |-> {}] /\ excuse = {} /\ lost = "no"
  /\ changes = 0 /\ faults = 0
-----------------------------------------------------------------------------
(* The requests: a batch is of one operation, each item with a source, a    *)
(* destination or a new size as the operation has them.  Those that leave   *)
(* the folder alone are left out.                                           *)
Item(from, to, size) == [from |-> from, to |-> to, size |-> size]
Moved == {i \in {Item(f, g, 0) : f \in Files, g \in Files} : i.from # i.to}
Items(op) ==
  CASE op = "write"  -> {Item(f, f, n) : f \in Folder, n \in 1 .. MaxSize}
    [] op = "delete" -> {Item(f, f, 0) : f \in Folder}
    [] op = "copy"   -> {i \in Moved : i.to \in Folder}
    [] op = "move"   -> {i \in Moved : {i.from, i.to} \intersect Folder # {}}

Batches(op) ==
  {b \in UNION {[1 .. n -> Items(op)] : n \in 1 .. MaxBatch} :
     \A i, j \in DOMAIN b :
       i # j => b[i].to # b[j].to /\ b[i].from # b[j].from}

(* Mutant: a transfer does not look at its destination.                     *)
AllowedOnto(p, op, i) ==
  CASE op = "write"  -> TRUE
    [] op = "delete" -> Indexed(p, i.from)
    [] OTHER -> /\ Indexed(p, i.from)
                /\ i.to \in Folder => copy[p] # "none"

(* normalizeTransferRequests and normalizeDeleteRequests ask the index for  *)
(* the source, the destination and the destination's parent.              *)
Allowed(p, op, i) ==
  CASE op = "write"  -> TRUE
    [] op = "delete" -> Indexed(p, i.from)
    [] OTHER -> /\ Indexed(p, i.from) /\ ~Indexed(p, i.to)
                /\ i.to \in Folder => copy[p] # "none"

In(f, n) == IF f \in Folder THEN n ELSE 0

(* Mutant: a write that replaces a file counts the file twice.              *)
DeltaOfNewFile(p, op, i) ==
  CASE op = "write"  -> In(i.to, i.size)
    [] op = "copy"   -> In(i.to, SizeOf(p, i.from))
    [] op = "move"   -> In(i.to, SizeOf(p, i.from)) - In(i.from, SizeOf(p, i.from))
    [] op = "delete" -> -In(i.from, SizeOf(p, i.from))

(* getWriteQuotaDeltas and its like for copies, moves and deletes           *)
Delta(p, op, i) ==
  CASE op = "write"  -> In(i.to, i.size - SizeOf(p, i.to))
    [] op = "copy"   -> In(i.to, SizeOf(p, i.from))
    [] op = "move"   -> In(i.to, SizeOf(p, i.from)) - In(i.from, SizeOf(p, i.from))
    [] op = "delete" -> -In(i.from, SizeOf(p, i.from))

BatchDelta(p, op, b) == Sum([k \in DOMAIN b |-> Delta(p, op, b[k])], DOMAIN b)

(* Mutant: what a plan takes away from a size that is behind is not clamped.*)
ProjectedBelowZero(p, delta) == FolderSize(p) + delta

(* createUserFolderQuotaPlan: a folder past the limit may only shrink.      *)
Projected(p, delta) == Max({0, FolderSize(p) + delta})

(* Mutant: only a folder that is full already is refused.                   *)
AcceptsBelow(p, delta) ==
  IF FolderSize(p) > Limit THEN Projected(p, delta) < FolderSize(p) ELSE TRUE

Accepts(p, delta) ==
  IF FolderSize(p) > Limit THEN Projected(p, delta) < FolderSize(p)
  ELSE Projected(p, delta) <= Limit

(* One file operation.  fs.cpSync is told not to replace a file;            *)
(* fs.renameSync replaces it.                                               *)
Perform(d, op, i) ==
  CASE op = "write"  -> [d EXCEPT ![i.to] = i.size]
    [] op = "copy"   -> [d EXCEPT ![i.to] = d[i.from]]
    [] op = "move"   -> [d EXCEPT ![i.from] = 0, ![i.to] = d[i.from]]
    [] op = "delete" -> [d EXCEPT ![i.from] = 0]

Breaks(d, op, i) ==
  \/ op # "write" /\ d[i.from] = 0
  \/ op = "copy" /\ d[i.to] # 0

(* The disk after the first k operations of a batch.                        *)
After(op, b) ==
  LET d[k \in 0 .. Len(b)] == IF k = 0 THEN disk ELSE Perform(d[k - 1], op, b[k])
  IN d
BreaksAt(op, b, k) == Breaks(After(op, b)[k - 1], op, b[k])

Replaced(op, b, n) ==
  op = "move" /\ \E k \in 1 .. n : After(op, b)[k - 1][b[k].to] # 0

Named(b) == UNION {{b[k].from, b[k].to} : k \in DOMAIN b}
Paths(op, b) ==
  {b[k].to : k \in DOMAIN b}
    \union (IF op = "move" THEN {b[k].from : k \in DOMAIN b} ELSE {})
Raced == IF install = NoInstall THEN install
         ELSE [install EXCEPT !.spite = @ \union {"raced"}]
-----------------------------------------------------------------------------
(* ensureUserFileIndex: the handlers wait for the copy of the one who asks  *)
(* to be full and current; it comes from the primary.                       *)
Load(p) ==
  /\ copy' = [copy EXCEPT ![p] = "full"]
  /\ have' = [have EXCEPT ![p] = Newest]
  /\ UNCHANGED <<diskVars, log, known, cache, reports, mail, filling, install, torn,
                 taint, excuse, lost, changes, faults>>

EnsureUserFileIndex(p) ==
  (copy[p] # "full" \/ have[p] < known[p]) /\ Load(p)

Drop(p) == /\ cache' = [cache EXCEPT ![p] = NoSize]
           /\ taint' = [taint EXCEPT ![p] = {}]
Keep(p, n, why) == /\ cache' = [cache EXCEPT ![p] = n]
                   /\ taint' = [taint EXCEPT ![p] = why]

(* The plan is refused: the size it was judged by stays in the cache.       *)
Refuse(p, op, b) ==
  /\ ~Accepts(p, BatchDelta(p, op, b))
  /\ cache[p] = NoSize
  /\ Keep(p, FolderSize(p), Spite(p, {}))
  /\ UNCHANGED <<diskVars, indexVars, reports, mail, filling, install, torn, excuse, lost,
                 faults>>

(* The plan is accepted and every operation succeeds.                       *)
Finish(p, op, b) ==
  LET spite == Spite(p, Named(b))
  IN /\ Accepts(p, BatchDelta(p, op, b))
     /\ \A k \in DOMAIN b : ~BreaksAt(op, b, k)
     /\ disk' = After(op, b)[Len(b)] /\ unseen' = unseen \union Paths(op, b)
     /\ Keep(p, Projected(p, BatchDelta(p, op, b)), spite)
     /\ reports' = reports \union {[by |-> p, paths |-> Paths(op, b)]}
     /\ excuse' = spite
     /\ lost' = IF ~Replaced(op, b, Len(b)) THEN lost
                ELSE IF spite = {} THEN "yes" ELSE "excused"
     /\ install' = Raced
     /\ UNCHANGED <<live, indexVars, mail, filling, torn, faults>>

(* The plan is accepted, and operation k fails: the disk is not as the      *)
(* index has it, or is full.  What was done before stays; nobody is told.   *)
Stop(p, op, b, k) ==
  /\ Accepts(p, BatchDelta(p, op, b))
  /\ \A j \in 1 .. k - 1 : ~BreaksAt(op, b, j)
  /\ \/ BreaksAt(op, b, k) /\ UNCHANGED faults
     \/ /\ ~BreaksAt(op, b, k) /\ op \in {"write", "copy"}
        /\ faults < MaxFaults /\ faults' = faults + 1
  /\ disk' = After(op, b)[k - 1]
  /\ Drop(p)
  /\ excuse' = Spite(p, Named(b)) \union {"failed"}
  /\ lost' = IF ~Replaced(op, b, k - 1) THEN lost
             ELSE IF Spite(p, Named(b)) = {} THEN "yes" ELSE "excused"
  /\ install' = IF k > 1 THEN Raced ELSE install
  /\ LET done == Paths(op, SubSeq(b, 1, k - 1))
     IN unseen' = unseen \union done /\ torn' = torn \union done
  /\ UNCHANGED <<live, indexVars, reports, mail, filling>>

Change == /\ changes < (IF Clustered THEN MaxClusterChanges ELSE MaxChanges)
          /\ changes' = changes + 1

(* writeAppFiles, copyAppPaths, moveAppPaths and deleteAppPaths             *)
Request(p) ==
  /\ Change
  /\ \E op \in {"write", "copy", "move", "delete"} : \E b \in Batches(op) :
       /\ \A k \in DOMAIN b : Allowed(p, op, b[k])
       /\ \/ Refuse(p, op, b)
          \/ Finish(p, op, b)
          \/ \E k \in DOMAIN b : Stop(p, op, b, k)

(* The backend writes a sign-in file: no limit is asked, and                *)
(* recordAppPathMutations forgets the size.                                 *)
BackendWrite(p) ==
  /\ Change
  /\ \E f \in Auth, n \in 1 .. MaxSize :
       /\ disk' = [disk EXCEPT ![f] = n]
       /\ unseen' = unseen \union {f}
       /\ reports' = reports \union {[by |-> p, paths |-> {f}]}
  /\ Drop(p)
  /\ excuse' = {"backend"} /\ install' = Raced
  /\ UNCHANGED <<live, indexVars, mail, filling, torn, lost, faults>>

(* installModule: the plan is made, and judged, when the module has been    *)
(* fetched; it is moved to its place after an await.                        *)
PlanInstall(p) ==
  /\ Change /\ install = NoInstall
  /\ \E f \in Folder \ Auth, n \in 1 .. MaxSize :
       /\ ~Indexed(p, f) /\ Accepts(p, n)
       /\ install' = [by |-> p, at |-> f, size |-> n, spite |-> Spite(p, {f})]
  /\ IF cache[p] = NoSize THEN Keep(p, FolderSize(p), Spite(p, {}))
     ELSE UNCHANGED <<cache, taint>>
  /\ UNCHANGED <<diskVars, indexVars, reports, mail, filling, torn, excuse, lost, faults>>

(* moveDirectoryIntoPlace refuses a directory that is there; either way the *)
(* size is forgotten.                                                       *)
MoveInstall ==
  LET i == install
  IN /\ i # NoInstall /\ install' = NoInstall
     /\ Drop(i.by)
     /\ IF disk[i.at] # 0 THEN UNCHANGED <<diskVars, reports, excuse>>
        ELSE /\ disk' = [disk EXCEPT ![i.at] = i.size]
             /\ unseen' = unseen \union {i.at}
             /\ reports' = reports \union {[by |-> i.by, paths |-> {i.at}]}
             /\ excuse' = i.spite
     /\ UNCHANGED <<live, indexVars, mail, filling, torn, lost, changes,
                    faults>>

(* commitLayerHistoryTarget: .git has grown, whatever the index says.       *)
Commit(p) ==
  /\ ~Clustered /\ cache[p] # NoSize /\ Drop(p)
  /\ UNCHANGED <<diskVars, indexVars, reports, mail, filling, install, torn, excuse, lost,
                 changes, faults>>
-----------------------------------------------------------------------------
Message(kind, v) == [kind |-> kind, version |-> v]

(* applyProjectPathChanges: the index takes the reported paths as they are  *)
(* on disk now, and tells a change by the size and the time of the file.    *)
(* With one process that is all; a worker's report is told to every worker, *)
(* and answered with the folder as it is now.                               *)
Report(r) ==
  LET now  == [f \in Files |-> IF f \in r.paths THEN disk[f] ELSE log[Newest][f]]
      seen == {f \in r.paths \intersect unseen : disk[f] + log[Newest][f] > 0}
      told == IF seen = {} THEN << >> ELSE <<Message("delta", Newest + 1)>>
      answer == <<Message("answer", IF told = << >> THEN 0 ELSE Newest + 1)>>
  IN /\ r \in reports /\ reports' = reports \ {r}
     /\ unseen' = unseen \ r.paths /\ torn' = torn \ r.paths
     /\ log' = IF told = << >> THEN log ELSE Append(log, now)
     /\ IF Clustered
        THEN /\ mail' = [p \in live |->
                           mail[p] \o (IF p = r.by THEN answer ELSE told)]
             /\ UNCHANGED <<have, known>>
        ELSE /\ have' = [have EXCEPT ![r.by] = Len(log')]
             /\ known' = [known EXCEPT ![r.by] = Len(log')]
             /\ UNCHANGED mail
     /\ UNCHANGED <<live, disk, copy, cache, filling, install, taint, excuse, lost,
                    changes, faults>>

(* Mutant: a worker is told of a change and keeps its size.                 *)
HearKeeping(p) ==
  LET m == Head(mail[p])
  IN /\ mail' = [mail EXCEPT ![p] = Tail(@)]
     /\ known' = [known EXCEPT ![p] = Max({@, m.version})]
     /\ IF m.kind = "answer" /\ m.version >= have[p]
        THEN /\ have' = [have EXCEPT ![p] = m.version]
             /\ copy' = [copy EXCEPT ![p] = "full"]
        ELSE UNCHANGED <<have, copy>>
     /\ UNCHANGED <<cache, taint>>

(* applyPrimarySyncPayload: the size is forgotten, then the message is      *)
(* applied.  A delta marks the copy of the folder as outdated, an answer    *)
(* brings the folder; one that changed nothing (version 0) brings nothing.  *)
Hear(p) ==
  LET m == Head(mail[p])
  IN /\ mail' = [mail EXCEPT ![p] = Tail(@)]
     /\ known' = [known EXCEPT ![p] = Max({@, m.version})]
     /\ IF m.kind = "answer" /\ m.version >= have[p]
        THEN /\ have' = [have EXCEPT ![p] = m.version]
             /\ copy' = [copy EXCEPT ![p] = "full"]
        ELSE UNCHANGED <<have, copy>>
     /\ Drop(p)

Deliver(p) ==
  /\ mail[p] # << >> /\ Hear(p)
  /\ UNCHANGED <<diskVars, log, reports, filling, install, torn, excuse, lost,
                 changes, faults>>

(* The delta does not follow the last one applied: the size is forgotten,   *)
(* the primary is asked for what is missing, and requests go on meanwhile.  *)
HearGap(p) ==
  /\ mail[p] # << >> /\ Head(mail[p]).kind = "delta" /\ p \notin filling
  /\ faults < MaxFaults /\ faults' = faults + 1
  /\ mail' = [mail EXCEPT ![p] = Tail(@)] /\ filling' = filling \union {p}
  /\ Drop(p)
  /\ UNCHANGED <<diskVars, indexVars, reports, install, torn, excuse, lost,
                 changes>>

(* syncWatchdogFromPrimary applies what it got and leaves the size alone.   *)
Fill(p) ==
  /\ p \in filling /\ filling' = filling \ {p}
  /\ known' = [known EXCEPT ![p] = Newest]
  /\ UNCHANGED <<diskVars, log, copy, have, cache, reports, mail, install, torn,
                 taint, excuse, lost, changes, faults>>

Next ==
  \/ \E p \in live : \/ EnsureUserFileIndex(p) \/ Request(p)
                          \/ BackendWrite(p) \/ PlanInstall(p)
                          \/ Commit(p) \/ Deliver(p) \/ HearGap(p)
                          \/ Fill(p)
  \/ MoveInstall
  \/ \E r \in reports : Report(r)

Spec == Init /\ [][Next]_vars
-----------------------------------------------------------------------------
(* The variables keep their types: the primary knows at least as much as    *)
(* any worker, and a cached size is never negative, though what a request   *)
(* takes away from it may be more than it holds (user_quota.js:270).        *)
TypeOK ==
  /\ live \subseteq Processes /\ live # {}
  /\ disk \in [Files -> Sizes] /\ unseen \subseteq Files
  /\ log \in Seq([Files -> Sizes]) /\ log # << >>
  /\ copy \in [live -> {"none", "part", "full"}]
  /\ have \in [live -> 1 .. Newest] /\ known \in [live -> 1 .. Newest]
  /\ cache \in [live -> Int]
  /\ \A p \in live : cache[p] >= NoSize
  /\ reports \subseteq [by : live, paths : SUBSET Files]
  /\ mail \in [live -> Seq([kind : {"delta", "answer"}, version : Nat])]
  /\ filling \subseteq live
  /\ install = NoInstall
       \/ install \in [by : live, at : Folder, size : 1 .. MaxSize,
                       spite : SUBSET Excuses]
  /\ torn \subseteq Files /\ taint \in [live -> SUBSET Excuses]
  /\ excuse \in SUBSET Excuses
  /\ lost \in {"no", "excused", "yes"}
  /\ changes \in Nat /\ faults \in 0 .. MaxFaults

(* A size that was computed with a current index is the folder's size on    *)
(* disk for as long as the process has heard of every change.               *)
CacheIsExact ==
  \A p \in live :
    /\ cache[p] # NoSize /\ taint[p] = {}
    /\ Clustered => mail[p] = << >> /\ reports = {} /\ torn = {}
                    /\ p \notin filling
    => cache[p] = Total(disk)

(* With workers a size that went wrong while changes were under way is      *)
(* right, or forgotten, once all have been told: only one that was taken    *)
(* from a copy known to be partial or outdated, or while missing deltas     *)
(* were asked for, lasts.                                                   *)
CachesSettle ==
  Clustered /\ reports = {} /\ torn = {} =>
    \A p \in live :
      /\ cache[p] # NoSize /\ mail[p] = << >> /\ p \notin filling
      /\ taint[p] \intersect {"blind", "gap"} = {}
      => cache[p] = Total(disk)

(* A request judged with a current index and a current size never makes the *)
(* folder grow past the limit, and one past it only shrinks.                *)
LimitHolds ==
  [][excuse' = {} /\ Total(disk') > Total(disk) => Total(disk') <= Limit]_vars

(* A move replaces a file only when the index was behind the disk.          *)
MovesReplaceNothing == lost # "yes"
=============================================================================
