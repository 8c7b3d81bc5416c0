----------------------------- MODULE QueueStore ------------------------------
(***************************************************************************)
(* What the response queue of the survey renderer and the page around it    *)
(* share: the memory of the page, its locks, and IndexedDB.  This is the    *)
(* queue with offline persistence (link surveys with offlineSupport).       *)
(*                                                                          *)
(* IndexedDB serves requests in the order they were made: idb is the        *)
(* sequence of requests under way, each named for the code that awaits it.  *)
(* A reload of the page aborts them and loses the memory.                   *)
(***************************************************************************)
EXTENDS ResponseApi, FiniteSets

CONSTANTS
    RetryAttempts,  \* config.retryAttempts
    MaxAddFaults,   \* bound: answers that IndexedDB fails to store
    MaxDbFaults,    \* bound: other failed IndexedDB requests
    MaxDisplays,    \* bound: displays created
    Sessions,       \* bounds: failed calls and refusals, times the browser goes
                    \* offline, reloads, responses deleted by the survey's owner
    StaleReloads    \* may a reload come more than 24 hours later?

ASSUME RetryAssumption == RetryAttempts \in Nat \ {0}
ASSUME BoundsAssumption ==
    /\ {MaxAddFaults, MaxDbFaults, MaxDisplays} \subseteq Nat
    /\ Sessions \subseteq [net : Nat, flap : Nat, reload : Nat, delete : Nat]
    /\ StaleReloads \in BOOLEAN

VARIABLES
    asked,        \* answers given in this pass through the survey
    error,        \* the card shown instead of the survey
    over,         \* the page was loaded anew without the saved progress
    online,       \* navigator.onLine
    queue,        \* ResponseQueue.queue
    pendingDbIds, \* queued answers whose IndexedDB id is known
    pendingRemoval, \* processedDbIdsPendingRemoval: sent, not yet removed
    isRequestInProgress,
    isSyncing,
    surveyState,  \* responseId and displayId (0: null), shouldCreateResponseFromState
    req,          \* the call of processQueue that holds the request lock
    syn,          \* the call of syncPersistedResponses that holds the sync lock
    idb,          \* IndexedDB requests under way, oldest first
    db,           \* the pendingResponses store
    snapshot,     \* surveyStateSnapshot of each stored answer
    progress,     \* the surveyProgress entry
    stray,        \* requests whose page was reloaded before the server saw them
    budget        \* what is left of the bounds

memory == <<queue, pendingDbIds, pendingRemoval>>
locks == <<isRequestInProgress, isSyncing>>
storage == <<db, snapshot, progress>>
page == <<asked, error, over, online>>
queueVars == <<page, memory, locks, surveyState, req, syn, idb, storage, stray, budget>>
vars == <<apiVars, queueVars>>

IdleReq == [pc |-> "idle", answer |-> 0, attempt |-> 0, manual |-> FALSE, msg |-> NoMessage]
IdleSyn == [pc |-> "idle", todo |-> {}, done |-> {}, answer |-> 0,
            byEffect |-> FALSE, msg |-> NoMessage]
NoSnapshot == [responseId |-> 0, displayId |-> 0]
NoProgress == [saved |-> FALSE, upto |-> 0, responseId |-> 0, displayId |-> 0]
FreshState == [responseId |-> 0, displayId |-> 0, bootstrap |-> FALSE]

DbOps == {"add", "count", "retry", "effect", "read", "sent", "dropped", "synced",
          "patchResponse", "patchDisplay", "clear"}
DbRequest(op, n) == [op |-> op, n |-> n]

TypeOK ==
    /\ ApiTypeOK
    /\ asked \in 0..NumAnswers
    /\ error \in {"none", "retry", "final"}
    /\ {over, online, isRequestInProgress, isSyncing} \subseteq BOOLEAN
    /\ queue \in Seq(Answers)
    /\ pendingDbIds \subseteq Answers
    /\ pendingRemoval \subseteq Answers
    /\ surveyState \in [responseId : Nat, displayId : Nat, bootstrap : BOOLEAN]
    /\ req \in [pc : {"idle", "flight", "backoff", "sent", "dropped"}, answer : 0..NumAnswers,
                attempt : 0..(RetryAttempts - 1), manual : BOOLEAN, msg : Messages]
    /\ syn \in [pc : {"idle", "reading", "flight", "removing"}, todo : SUBSET Answers,
                done : SUBSET Answers, answer : 0..NumAnswers, byEffect : BOOLEAN,
                msg : Messages]
    /\ idb \in Seq([op : DbOps, n : Nat])
    /\ db \subseteq Answers
    /\ snapshot \in [Answers -> [responseId : Nat, displayId : Nat]]
    /\ progress \in [saved : BOOLEAN, upto : 0..NumAnswers, responseId : Nat, displayId : Nat]
    /\ stray \subseteq Messages
    /\ budget \in [add : Nat, db : Nat, flap : Nat, reload : Nat, delete : Nat, display : Nat]

Init ==
    /\ asked = 0
    /\ error = "none"
    /\ over = FALSE
    /\ online = TRUE
    /\ queue = <<>>
    /\ pendingDbIds = {}
    /\ pendingRemoval = {}
    /\ isRequestInProgress = FALSE
    /\ isSyncing = FALSE
    /\ surveyState = FreshState
    /\ req = IdleReq
    /\ syn = IdleSyn
    /\ idb = <<>>
    /\ db = {}
    /\ snapshot = [a \in Answers |-> NoSnapshot]
    /\ progress = NoProgress
    /\ stray = {}
    /\ \E s \in Sessions :
          /\ ApiInit(s.net)
          /\ budget = [add |-> MaxAddFaults, db |-> MaxDbFaults, flap |-> s.flap,
                       reload |-> s.reload, delete |-> s.delete, display |-> MaxDisplays]
-----------------------------------------------------------------------------
(* What the actions of the senders share.                                    *)

DbFault ==
    /\ budget.db > 0
    /\ budget' = [budget EXCEPT !.db = @ - 1]

(* processQueue up to its first await: the IndexedDB requests d, and one     *)
(* more if the call goes on to count what is stored.                         *)
ProcessQueue(d, op, q, requesting, syncing) ==
    IF ~requesting /\ q # <<>> /\ online /\ ~syncing
    THEN Append(d, DbRequest(op, 0))
    ELSE d

(* sendResponse: an update of the known response, or a create; a bootstrap   *)
(* create carries all that was accumulated.                                  *)
Message(a, st) ==
    [response |-> st.responseId,
     display |-> IF st.responseId = 0 THEN st.displayId ELSE 0,
     answers |-> IF st.responseId = 0 /\ st.bootstrap THEN 1..asked ELSE {a}]

(* A successful create tells the client the id, and patches the progress.    *)
Learn(m) ==
    IF m.response = 0
    THEN [surveyState EXCEPT !.responseId = Len(responses'), !.bootstrap = FALSE]
    ELSE surveyState

PatchAfter(m, d) ==
    IF m.response = 0 THEN Append(d, DbRequest("patchResponse", Len(responses'))) ELSE d

(* retryProcessedDbIdCleanup: every id that is still to be removed is tried. *)
CleanUp ==
    \E gone \in SUBSET pendingRemoval :
        /\ db' = db \ gone
        /\ pendingDbIds' = pendingDbIds \ gone
        /\ pendingRemoval' = pendingRemoval \ gone
        /\ IF gone = pendingRemoval THEN UNCHANGED budget ELSE DbFault

StartSync(d, byEffect) ==
    /\ isSyncing' = TRUE
    /\ syn' = [IdleSyn EXCEPT !.pc = "reading", !.byEffect = byEffect]
    /\ idb' = Append(d, DbRequest("read", 0))

(* Mutant: the stored answers are read newest first.                         *)
Latest(S) == CHOOSE a \in S : \A b \in S : a >= b

Earliest(S) == CHOOSE a \in S : \A b \in S : a <= b

(* IndexedDB answers its oldest request.                                     *)
Oldest(op) ==
    /\ idb # <<>>
    /\ Head(idb).op = op

(* removePendingResponseFromIndexedDB of answer a, awaited by a sender.      *)
RemoveStored(a) ==
    \/ /\ db' = db \ {a}
       /\ pendingRemoval' = pendingRemoval \ {a}
       /\ UNCHANGED budget
    \/ /\ DbFault
       /\ pendingRemoval' = pendingRemoval \cup {a}
       /\ UNCHANGED db

ForgetRemoved(a) ==
    pendingDbIds' = IF a \in pendingRemoval' THEN pendingDbIds ELSE pendingDbIds \ {a}
==============================================================================
