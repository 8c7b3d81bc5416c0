----------------------------- MODULE UpdateQueue ----------------------------
(***************************************************************************)
(* Who the JS SDK says the visitor is: the user state in its configuration,  *)
(* the updates that wait to be sent, the debounced flush, and the user       *)
(* endpoint that answers it.  Each action is one turn of the event loop.     *)
(***************************************************************************)
EXTENDS Naturals, FiniteSets

CONSTANTS
    Users,     \* the ids the website may set
    NoUser,    \* no id
    Attrs,     \* attributes
    Language   \* the attribute that the SDK also keeps itself

ASSUME UserAssumption == NoUser \notin Users

VARIABLES
    config,        \* Config: the user state that is stored in the browser
    updates,       \* UpdateQueue.updates: none or one record
    pendingFlush,  \* is there a flush that is not over?
    debounce,      \* is its timer running?
    flights,       \* requests to the user endpoint
    server,        \* the contacts
    fails,         \* bound: requests that may fail
    owner,         \* history: the user set last, if there was no logout since
    wanted,        \* history: the attributes that were asked for, and for whom
    failed,        \* history: those of them whose failure was logged
    dropped,       \* history: those the SDK did not send, or lost, without a word
    calm           \* history: see Crossing

updateVars == <<config, updates, pendingFlush, debounce, flights, server>>
wishVars == <<owner, wanted, failed, dropped, calm>>

(* ver: how many requests of that user the answer came after.                *)
State == [user: Users \cup {NoUser}, ver: Nat, lang: BOOLEAN]
DefaultState == [user |-> NoUser, ver |-> 0, lang |-> FALSE]
Update == [user: Users \cup {NoUser}, attrs: SUBSET Attrs]
Flight == [user: Users, attrs: SUBSET Attrs, done: BOOLEAN, ver: Nat, lang: BOOLEAN]
Contact == [attrs: SUBSET Attrs, ver: Nat]

UpdateTypeOK ==
    /\ config \in State
    /\ updates \subseteq Update /\ \A u, v \in updates : u = v
    /\ pendingFlush \in BOOLEAN /\ debounce \in BOOLEAN
    /\ flights \subseteq Flight
    /\ server \in [Users -> Contact]
    /\ fails \in Nat
    /\ owner \in Users \cup {NoUser}
    /\ wanted \subseteq Users \X Attrs /\ failed \subseteq Users \X Attrs
    /\ dropped \subseteq Users \X Attrs
    /\ calm \in BOOLEAN

(* One flush at a time: it waits for its timer, then for its answer, and     *)
(* holds the updates until it is over.                                       *)
OneFlush ==
    /\ pendingFlush <=> updates # {}
    /\ debounce \/ flights # {} => pendingFlush
    /\ debounce => flights = {}
    /\ \A f, g \in flights : f = g

UpdateInit ==
    /\ config = DefaultState
    /\ updates = {} /\ pendingFlush = FALSE /\ debounce = FALSE /\ flights = {}
    /\ server = [u \in Users |-> [attrs |-> {}, ver |-> 0]]
    /\ owner = NoUser /\ wanted = {} /\ failed = {} /\ dropped = {} /\ calm = TRUE

-----------------------------------------------------------------------------
(* Requests for an update                                                    *)

PendingUser == IF updates = {} THEN NoUser ELSE (CHOOSE u \in updates : TRUE).user
PendingAttrs == IF updates = {} THEN {} ELSE (CHOOSE u \in updates : TRUE).attrs

(* Mutant: a flush is not reused.                                            *)
ProcessAnew == pendingFlush' = TRUE /\ debounce' = TRUE

(* processUpdates reuses a flush that is not over.                           *)
ProcessUpdates == pendingFlush' = TRUE /\ debounce' = (debounce \/ ~pendingFlush)

(* Mutant: the attributes of the last call replace those that wait.          *)
Replace(user, attrs) == updates' = {[user |-> user, attrs |-> attrs]}

Merge(user, attrs) == updates' = {[user |-> user, attrs |-> PendingAttrs \cup attrs]}

(* The calls the queue is not made for: while a request is on its way, whose *)
(* end clears what was merged since, or while updates for another user wait. *)
Crossing(user) == flights # {} \/ (updates # {} /\ owner \notin {NoUser, user})

(* updateUserId, processUpdates.  What waits without a user gets this one.   *)
Identify(user) ==
    /\ Merge(user, {})
    /\ ProcessUpdates
    /\ wanted' = wanted \cup {user} \X PendingAttrs
    /\ calm' = (calm /\ ~Crossing(user))

(* What was asked for the user who was set last.                             *)
Owned(attrs) == IF owner = NoUser THEN {} ELSE {owner} \X attrs

(* updateAttributes, processUpdates                                          *)
AddAttributes(attrs) ==
    LET user == IF updates = {} THEN config.user ELSE PendingUser IN
    /\ Merge(user, attrs)
    /\ ProcessUpdates
    /\ wanted' = wanted \cup Owned(attrs)
    /\ calm' = (calm /\ flights = {})

(* refreshSegmentsAfterInteraction                                           *)
RefreshSegments ==
    /\ config.user # NoUser
    /\ Merge(config.user, {})
    /\ ProcessUpdates

-----------------------------------------------------------------------------
(* The flush                                                                 *)

(* Mutants: what was sent is not cleared; the flush is never over.           *)
FlushLeavesUpdates == updates' = updates /\ pendingFlush' = FALSE
FlushStays == updates' = {} /\ pendingFlush' = pendingFlush

FlushEnds == updates' = {} /\ pendingFlush' = FALSE

(* Without a user a language is kept here, and nobody is told that it is not *)
(* sent; the other attributes are an error.                                  *)
KeepLocally(update) ==
    /\ config' = [config EXCEPT !.lang = @ \/ Language \in update.attrs]
    /\ failed' = failed \cup Owned(update.attrs \ {Language})
    /\ dropped' = dropped \cup Owned(update.attrs \cap {Language})
    /\ FlushEnds
    /\ UNCHANGED flights

Send(update) ==
    /\ flights' = flights \cup {[user |-> update.user, attrs |-> update.attrs,
                                 done |-> FALSE, ver |-> 0, lang |-> FALSE]}
    /\ UNCHANGED <<config, updates, pendingFlush, failed, dropped>>

DebounceFires ==
    /\ debounce
    /\ debounce' = FALSE
    /\ \E update \in updates :
          IF update.user = NoUser THEN KeepLocally(update) ELSE Send(update)
    /\ UNCHANGED <<server, fails, owner, wanted, calm>>

Updated(contact, attrs) == [attrs |-> contact.attrs \cup attrs, ver |-> contact.ver + 1]
AnswerOf(user, contact) ==
    [user |-> user, ver |-> contact.ver, lang |-> Language \in contact.attrs]

(* The endpoint creates or updates the contact.                              *)
ServerUpdates(f) ==
    LET contact == Updated(server[f.user], f.attrs) IN
    /\ ~f.done
    /\ server' = [server EXCEPT ![f.user] = contact]
    /\ flights' = (flights \ {f}) \cup
          {[f EXCEPT !.done = TRUE, !.ver = contact.ver, !.lang = Language \in contact.attrs]}
    /\ UNCHANGED <<config, updates, pendingFlush, debounce, fails, wishVars>>

(* sendUpdates takes the answer over, and the flush is over with all that    *)
(* was merged since it was sent.                                             *)
Answered(f) ==
    /\ f.done
    /\ config' = [user |-> f.user, ver |-> f.ver, lang |-> f.lang]
    /\ flights' = flights \ {f}
    /\ FlushEnds
    /\ UNCHANGED <<debounce, server, fails, wishVars>>

(* An error, before or after the endpoint did its work: it is logged.        *)
AnswerFails(f) ==
    /\ fails > 0 /\ fails' = fails - 1
    /\ failed' = failed \cup {f.user} \X f.attrs
    /\ flights' = flights \ {f}
    /\ FlushEnds
    /\ UNCHANGED <<config, debounce, server, owner, wanted, dropped, calm>>

FlightMoves == \E f \in flights : ServerUpdates(f) \/ Answered(f) \/ AnswerFails(f)
=============================================================================
