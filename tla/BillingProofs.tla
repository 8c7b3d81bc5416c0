---------------------------- MODULE BillingProofs ----------------------------
(***************************************************************************)
(* Billing keeps its types, starts one trial, and creates one hobby          *)
(* subscription until one is canceled, for any number of handlers, pages,    *)
(* admins, subscriptions and bounds.                                         *)
(***************************************************************************)
EXTENDS Billing, TLAPS

(* The plan a call works towards is known wherever the call uses it.         *)
Aimed(l) ==
    /\ l.pc = "choose" /\ l.op # "undo" => l.target \in Plans
    /\ l.path \in {"now", "later"} => l.target \in Plans
    /\ l.pc = "apply" => l.path = "now"
    /\ l.pc \in {"schedule", "reschedule"} => l.path = "later"

TypeInv == TypeOK /\ \A p \in Procs : Aimed(proc[p])

-----------------------------------------------------------------------------
(* The values that are written are well typed.                               *)

LEMMA SubTyped ==
    ASSUME NEW plan \in Plans, NEW status \in LiveStatus \cup {"none", "canceled"},
           NEW born \in {"hobby", "trial", "checkout"}
    PROVE  NewSub(plan, status, born) \in Sub
  BY DEF NewSub, Sub, Plans

LEMMA IdleTyped == NoSub \in Sub /\ NewRow \in Row /\ NoEvent \in Event /\ Idle \in Local
<1>1. MaxSubs \in Nat
  BY StripeAssumption
<1>2. NoSub \in Sub
  BY SubTyped DEF NoSub, Plans
<1>3. NewRow \in Row
  BY <1>1 DEF NewRow, Row, Plans, LiveStatus
<1>4. NoEvent \in Event
  BY DEF NoEvent, EventOf, Event
<1>5. Idle \in Local
  BY <1>1, <1>2, <1>3, <1>4 DEF Idle, Local, Pcs
<1> QED BY <1>2, <1>3, <1>4, <1>5

LEMMA CurrentTyped == Current \in 0..MaxSubs /\ (Current # 0 => Live(Current))
<1>1. 0 \in 0..MaxSubs /\ LiveIds \subseteq 0..MaxSubs
  BY StripeAssumption DEF LiveIds, SubIds
<1>2. ASSUME \E i \in LiveIds : Preferred(i) PROVE Current \in LiveIds
  BY <1>2 DEF Current
<1>3. CASE \E i \in LiveIds : Preferred(i)
  BY <1>1, <1>2, <1>3 DEF LiveIds
<1>4. CASE ~\E i \in LiveIds : Preferred(i)
  BY <1>1, <1>4 DEF Current
<1> QED BY <1>3, <1>4

LEMMA LiveTyped ==
    ASSUME StripeTypeOK, NEW i, Live(i)
    PROVE  i \in SubIds /\ subs[i] \in Sub /\ subs[i].status \in LiveStatus
  BY DEF Live, StripeTypeOK

LEMMA PendingTyped == ASSUME NEW sub \in Sub PROVE PendingOf(sub) \in Plans \cup {"none"}
  BY DEF PendingOf, Sub, Plans

LEMMA SyncedTyped ==
    ASSUME TypeOK, NEW snap \in Row, NEW ev \in Event
    PROVE  SyncedRow(snap, ev) \in Row
<1> DEFINE sub == IF Current = 0 THEN NoSub ELSE subs[Current]
<1>1. sub \in Sub /\ sub.status \in LiveStatus \cup {"none"}
  BY CurrentTyped, LiveTyped, IdleTyped DEF TypeOK, NoSub, NewSub
<1>2. PendingOf(sub) \in Plans \cup {"none"} /\ sub.plan \in Plans
  BY <1>1, PendingTyped DEF Sub
<1>3. ev.id \in Nat /\ card \in BOOLEAN /\ Current \in 0..MaxSubs
  BY CurrentTyped DEF Event, TypeOK, StripeTypeOK
<1> HIDE DEF sub
<1>4. [snap EXCEPT !.plan = sub.plan, !.status = sub.status, !.sub = Current,
                 !.pm = Current # 0 /\ card, !.pending = PendingOf(sub),
                 !.banner = IF ev # NoEvent \/ sub.plan # snap.plan THEN 0 ELSE @,
                 !.eventId = IF ev # NoEvent THEN ev.id ELSE @,
                 !.fresh = TRUE] \in Row
  BY <1>1, <1>2, <1>3 DEF Row
<1> QED BY <1>4 DEF SyncedRow, sub

-----------------------------------------------------------------------------
(* Calls on the billing service                                              *)

LEMMA ChangeTyped ==
    ASSUME StripeTypeOK, NEW i \in SubIds, NEW new \in Sub, ChangeSub(i, new), left' \in Left
    PROVE  StripeTypeOK'
<1>1. EventOf(emitted + 1, "sub") \in Event /\ emitted + 1 \in Nat
  BY DEF StripeTypeOK, EventOf, Event
<1> QED BY <1>1 DEF StripeTypeOK, ChangeSub, Emit

LEMMA CreateTyped ==
    ASSUME StripeTypeOK, NEW key \in Keys, NEW new \in Sub, CreateSub(key, new), left' \in Left
    PROVE  StripeTypeOK'
<1>1. CASE idem[key] # 0
  BY <1>1 DEF CreateSub, StripeTypeOK, stripeVars
<1>2. CASE idem[key] = 0
  <2>1. EventOf(emitted + 1, "sub") \in Event /\ emitted + 1 \in Nat
    BY DEF StripeTypeOK, EventOf, Event
  <2>2. used + 1 \in 0..MaxSubs
    BY <1>2, StripeAssumption DEF CreateSub, StripeTypeOK
  <2> QED BY <1>2, <2>1, <2>2 DEF StripeTypeOK, CreateSub, Emit
<1> QED BY <1>1, <1>2

(* Nothing is assumed of left but that each of its kinds is used up.         *)
LEMMA SpendTyped ==
    ASSUME left \in Left, NEW what \in {"env", "ops", "fails"}, Spend(what)
    PROVE  left' \in Left
<1>1. left[what] - 1 \in Nat
  BY DEF Left, Spend
<1> QED BY <1>1 DEF Left, Spend

LEMMA AcknowledgeTyped ==
    ASSUME StripeTypeOK, NEW e, Acknowledge(e), left' = left
    PROVE  StripeTypeOK'
  BY DEF StripeTypeOK, Acknowledge

-----------------------------------------------------------------------------
(* Steps of a call                                                           *)

(* One call moves on; what it writes is typed.                               *)
LEMMA Moves ==
    ASSUME TypeInv, NEW p \in Procs, NEW l \in Local, Aimed(l),
           proc' = [proc EXCEPT ![p] = l], StripeTypeOK',
           row' \in Row, cache' \subseteq Row, \A c, d \in cache' : c = d, lock' \in BOOLEAN
    PROVE  TypeInv'
<1>1. proc' \in [Procs -> Local]
  BY DEF TypeInv, TypeOK, RowTypeOK
<1>2. \A q \in Procs : Aimed(proc'[q])
  BY DEF TypeInv, TypeOK, RowTypeOK
<1>3. TypeOK'
  BY <1>1 DEF TypeOK, RowTypeOK
<1> QED BY <1>2, <1>3 DEF TypeInv

(* It moves on and changes nothing else.                                     *)
LEMMA MovesQuietly ==
    ASSUME TypeInv, NEW p \in Procs, NEW l \in Local, Aimed(l),
           proc' = [proc EXCEPT ![p] = l], Quietly
    PROVE  TypeInv'
  BY Moves DEF Quietly, TypeInv, TypeOK, RowTypeOK, rowVars, stripeVars, StripeTypeOK

LEMMA CallTyped ==
    ASSUME TypeInv, NEW p \in Procs
    PROVE  proc[p] \in Local /\ Aimed(proc[p])
  BY DEF TypeInv, TypeOK, RowTypeOK

LEMMA GotoTyped ==
    ASSUME NEW l \in Local, NEW pc \in Pcs
    PROVE  [l EXCEPT !.pc = pc] \in Local
  BY DEF Local

LEMMA CloseTyped ==
    ASSUME NEW l \in Local, NEW snap \in Row, NEW out \in {"none", "ok", "error"},
           NEW pc \in Pcs
    PROVE  [l EXCEPT !.pc = pc, !.snap = snap, !.out = out] \in Local
  BY DEF Local

LEMMA EndedTyped ==
    ASSUME TypeInv, NEW p \in Procs, NEW out \in {"ok", "error"}
    PROVE  Ended(p, out) \in Local /\ Aimed(Ended(p, out))
<1>1. proc[p] \in Local /\ Aimed(proc[p]) /\ Idle \in Local /\ NewRow \in Row
  BY CallTyped, IdleTyped
<1>2. [proc[p] EXCEPT !.pc = "idle", !.snap = NewRow, !.out = out] \in Local
  BY <1>1, CloseTyped DEF Pcs
<1>3. Aimed([proc[p] EXCEPT !.pc = "idle", !.snap = NewRow, !.out = out])
  BY <1>1 DEF Aimed, Local
<1>4. [Idle EXCEPT !.out = out] \in Local /\ Aimed([Idle EXCEPT !.out = out]) /\ Aimed(Idle)
  BY <1>1 DEF Aimed, Local, Idle
<1> QED BY <1>1, <1>2, <1>3, <1>4 DEF Ended

LEMMA ReturnTyped ==
    ASSUME TypeInv, NEW p \in Procs, Return(p), row' \in Row, cache' \subseteq Row,
           \A c, d \in cache' : c = d, lock' \in BOOLEAN, left' = left
    PROVE  TypeInv'
<1>1. StripeTypeOK'
  BY AcknowledgeTyped DEF Return, stripeVars, StripeTypeOK, TypeInv, TypeOK
<1> QED BY <1>1, EndedTyped, Moves DEF Return

LEMMA FinishTyped == ASSUME TypeInv, NEW p \in Procs, Finish(p) PROVE TypeInv'
  BY ReturnTyped DEF Finish, rowVars, TypeInv, TypeOK, RowTypeOK

LEMMA ThrowTyped == ASSUME TypeInv, NEW p \in Procs, Throw(p), left' = left PROVE TypeInv'
  BY EndedTyped, MovesQuietly DEF Throw, Quietly

LEMMA ReadTyped ==
    ASSUME TypeInv, NEW p \in Procs, NEW pc \in {"syncStripe", "payWrite", "pendWrite"},
           ReadRow(p, pc)
    PROVE  TypeInv'
<1> DEFINE l == [proc[p] EXCEPT !.snap = row, !.pc = pc]
<1>1. proc[p] \in Local /\ Aimed(proc[p]) /\ row \in Row /\ p \in DOMAIN proc
  BY CallTyped DEF TypeInv, TypeOK, RowTypeOK
<1>2. l \in Local /\ Aimed(l)
  BY <1>1 DEF Local, Aimed, Pcs
<1>3. proc' = [proc EXCEPT ![p] = l]
  BY <1>1 DEF ReadRow
<1> QED BY <1>2, <1>3, MovesQuietly DEF ReadRow

LEMMA WriteTyped ==
    ASSUME TypeInv, NEW p \in Procs, NEW new \in Row,
           NEW pc \in {"syncDel", "lastDel", "pendDel"}, WriteRow(p, new, pc)
    PROVE  TypeInv'
<1> DEFINE l == [proc[p] EXCEPT !.snap = NewRow, !.pc = pc]
<1>1. proc[p] \in Local /\ Aimed(proc[p]) /\ NewRow \in Row /\ p \in DOMAIN proc
  BY CallTyped, IdleTyped DEF TypeInv, TypeOK, RowTypeOK
<1>2. l \in Local /\ Aimed(l)
  BY <1>1 DEF Local, Aimed, Pcs
<1>3. proc' = [proc EXCEPT ![p] = l]
  BY <1>1 DEF WriteRow
<1>4. StripeTypeOK'
  BY DEF WriteRow, stripeVars, StripeTypeOK, TypeInv, TypeOK
<1> QED BY <1>2, <1>3, <1>4, Moves DEF WriteRow, TypeInv, TypeOK, RowTypeOK

LEMMA GotoStep ==
    ASSUME TypeInv, NEW p \in Procs,
           NEW pc \in Pcs \ {"choose", "apply", "schedule", "reschedule"},
           Goto(p, pc), StripeTypeOK', row' \in Row, cache' \subseteq Row,
           \A c, d \in cache' : c = d, lock' \in BOOLEAN
    PROVE  TypeInv'
<1> DEFINE l == [proc[p] EXCEPT !.pc = pc]
<1>1. proc[p] \in Local /\ Aimed(proc[p]) /\ p \in DOMAIN proc
  BY CallTyped DEF TypeInv, TypeOK, RowTypeOK
<1>2. l \in Local
  BY <1>1, GotoTyped
<1>3. Aimed(l)
  BY <1>1 DEF Aimed, Local
<1>4. proc' = [proc EXCEPT ![p] = l]
  BY <1>1 DEF Goto
<1> HIDE DEF l
<1> QED BY <1>2, <1>3, <1>4, Moves

LEMMA SameService ==
    ASSUME TypeInv, UNCHANGED stripeVars, left' = left
    PROVE  StripeTypeOK'
  BY DEF stripeVars, StripeTypeOK, TypeInv, TypeOK

LEMMA RowFacts ==
    ASSUME TypeInv
    PROVE  /\ row \in Row /\ cache \subseteq Row /\ lock \in BOOLEAN /\ StripeTypeOK
           /\ \A c, d \in cache : c = d
           /\ proc \in [Procs -> Local] /\ left \in Left
  BY DEF TypeInv, TypeOK, RowTypeOK, StripeTypeOK

LEMMA SyncStepTyped == ASSUME TypeInv, NEW p \in Procs, Sync(p) PROVE TypeInv'
<1>1. proc[p] \in Local /\ Aimed(proc[p]) /\ p \in DOMAIN proc
  BY CallTyped, RowFacts
<1>2. proc[p].snap \in Row /\ proc[p].ev \in Event
  BY <1>1 DEF Local
<1>3. CASE SyncRead(p)
  BY <1>3, FinishTyped, ReadTyped DEF SyncRead
<1>4. CASE SyncStripe(p)
  <2> DEFINE new == SyncedRow(proc[p].snap, proc[p].ev)
             l == [proc[p] EXCEPT !.snap = new, !.pc = "syncWrite"]
  <2>1. new \in Row
    BY <1>2, SyncedTyped DEF TypeInv
  <2>2. proc' = [proc EXCEPT ![p] = l] /\ Quietly
    BY <1>1, <1>4 DEF SyncStripe
  <2> HIDE DEF new
  <2>3. l \in Local /\ Aimed(l)
    BY <1>1, <2>1 DEF Local, Aimed, Pcs
  <2> QED BY <2>2, <2>3, MovesQuietly
<1>5. CASE SyncWrite(p)
  BY <1>2, <1>5, WriteTyped DEF SyncWrite
<1>6. CASE SyncDel(p)
  BY <1>6, ReturnTyped, RowFacts DEF SyncDel
<1> QED BY <1>3, <1>4, <1>5, <1>6 DEF Sync

LEMMA SmallWritesTyped == ASSUME TypeInv, NEW p \in Procs, SmallWrites(p) PROVE TypeInv'
<1>1. proc[p] \in Local /\ Aimed(proc[p]) /\ p \in DOMAIN proc
  BY CallTyped, RowFacts
<1>2. proc[p].snap \in Row /\ proc[p].ev.id \in Nat /\ proc[p].target \in Plans \cup {"none"}
  BY <1>1 DEF Local, Event
<1>3. CASE PayRead(p)
  BY <1>3, FinishTyped, ReadTyped DEF PayRead
<1>4. CASE PayWrite(p)
  <2>1. [proc[p].snap EXCEPT !.banner = proc[p].ev.id, !.fresh = TRUE] \in Row
    BY <1>2 DEF Row
  <2> QED BY <1>4, <2>1, WriteTyped DEF PayWrite
<1>5. CASE PendRead(p)
  BY <1>5, ReadTyped DEF PendRead
<1>6. CASE PendWrite(p)
  <2> DEFINE to == IF proc[p].path = "later" THEN proc[p].target ELSE "none"
  <2>1. to \in Plans \cup {"none"}
    BY <1>2
  <2> HIDE DEF to
  <2>2. [proc[p].snap EXCEPT !.pending = to, !.fresh = TRUE] \in Row
    BY <1>2, <2>1 DEF Row
  <2> QED BY <1>6, <2>2, WriteTyped DEF PendWrite, to
<1>7. CASE LastDel(p)
  BY <1>7, ReturnTyped, RowFacts DEF LastDel
<1>8. CASE PendDel(p)
  <2>1. CASE proc[p].path = "wait"
    BY <1>8, <2>1, ReturnTyped, RowFacts DEF PendDel
  <2>2. CASE proc[p].path # "wait"
    <3>1. "syncRead" \in Pcs \ {"choose", "apply", "schedule", "reschedule"}
      BY DEF Pcs
    <3> QED BY <1>8, <2>2, <3>1, GotoStep, SameService, RowFacts DEF PendDel
  <2> QED BY <2>1, <2>2
<1> QED BY <1>3, <1>4, <1>5, <1>6, <1>7, <1>8 DEF SmallWrites

LEMMA CacheGetTyped ==
    ASSUME TypeInv, NEW p \in Procs, CacheGet(p), UNCHANGED <<rowVars, left, stripeVars>>
    PROVE  TypeInv'
<1> DEFINE stale == [Idle EXCEPT !.op = "page", !.pc = "tryLock"]
           miss == [Idle EXCEPT !.op = "page", !.pc = "cacheFill", !.snap = row]
<1>1. stale \in Local /\ Aimed(stale)
  BY IdleTyped DEF Idle, Local, Aimed, Pcs
<1>2. miss \in Local /\ Aimed(miss)
  BY IdleTyped, RowFacts DEF Idle, Local, Aimed, Pcs
<1>3. Quietly
  BY DEF Quietly
<1>4. CASE proc' = [proc EXCEPT ![p] = stale]
  BY <1>1, <1>3, <1>4, MovesQuietly
<1>5. CASE proc' = [proc EXCEPT ![p] = miss]
  BY <1>2, <1>3, <1>5, MovesQuietly
<1> QED BY <1>4, <1>5 DEF CacheGet

LEMMA ReadThroughTyped == ASSUME TypeInv, NEW p \in Procs, ReadThrough(p) PROVE TypeInv'
<1>1. proc[p] \in Local /\ Aimed(proc[p]) /\ p \in DOMAIN proc /\ NewRow \in Row
  BY CallTyped, RowFacts, IdleTyped
<1>2. proc[p].snap \in Row
  BY <1>1 DEF Local
<1>3. CASE CacheFill(p)
  <2>1. cache' \subseteq Row /\ row' \in Row /\ lock' \in BOOLEAN /\ left' = left
        /\ \A c, d \in cache' : c = d
    BY <1>2, <1>3, RowFacts DEF CacheFill
  <2>2. CASE proc[p].snap.fresh
    BY <1>3, <2>1, <2>2, ReturnTyped DEF CacheFill
  <2>3. CASE ~proc[p].snap.fresh
    <3> DEFINE l == [proc[p] EXCEPT !.pc = "tryLock", !.snap = NewRow]
    <3>1. proc' = [proc EXCEPT ![p] = l] /\ UNCHANGED stripeVars
      BY <1>1, <1>3, <2>3 DEF CacheFill
    <3>2. l \in Local /\ Aimed(l)
      BY <1>1 DEF Local, Aimed, Pcs
    <3> HIDE DEF l
    <3> QED BY <2>1, <3>1, <3>2, SameService, Moves
  <2> QED BY <2>2, <2>3
<1>4. CASE TryLock(p)
  <2>1. CASE lock
    BY <1>4, <2>1, FinishTyped DEF TryLock
  <2>2. CASE ~lock
    <3>1. "syncRead" \in Pcs \ {"choose", "apply", "schedule", "reschedule"}
      BY DEF Pcs
    <3> QED BY <1>4, <2>2, <3>1, GotoStep, SameService, RowFacts DEF TryLock
  <2> QED BY <2>1, <2>2
<1> QED BY <1>3, <1>4 DEF ReadThrough

-----------------------------------------------------------------------------
(* Calls that create and cancel                                              *)

LEMMA ListTyped ==
    ASSUME NEW l \in Local, NEW pc \in Pcs, NEW ids \in SUBSET SubIds, NEW n \in 0..MaxSubs
    PROVE  [l EXCEPT !.pc = pc, !.ids = ids, !.n = n] \in Local
  BY DEF Local

LEMMA ToSyncTyped ==
    ASSUME TypeInv, NEW p \in Procs, proc' = ToSync(p), StripeTypeOK', UNCHANGED rowVars
    PROVE  TypeInv'
<1> DEFINE l == [proc[p] EXCEPT !.pc = "syncRead", !.ids = {}, !.n = 0]
<1>1. proc[p] \in Local /\ Aimed(proc[p]) /\ p \in DOMAIN proc
  BY CallTyped, RowFacts
<1>2. l \in Local
  <2>1. "syncRead" \in Pcs /\ {} \in SUBSET SubIds /\ 0 \in 0..MaxSubs
    BY StripeAssumption DEF Pcs
  <2> QED BY <1>1, <2>1, ListTyped
<1>4. Aimed(l)
  BY <1>1 DEF Local, Aimed
<1>3. proc' = [proc EXCEPT ![p] = l]
  BY <1>1 DEF ToSync
<1> HIDE DEF l
<1> QED BY <1>2, <1>3, <1>4, RowFacts, Moves DEF rowVars

LEMMA RecListTyped == ASSUME TypeInv, NEW p \in Procs, RecList(p) PROVE TypeInv'
<1> DEFINE l == [proc[p] EXCEPT !.pc = "recCancel", !.ids = ListedHobbies]
<1>1. proc[p] \in Local /\ Aimed(proc[p]) /\ p \in DOMAIN proc
  BY CallTyped, RowFacts
<1>2. ListedHobbies \in SUBSET SubIds
  BY DEF ListedHobbies, LiveIds
<1>3. l \in Local /\ Aimed(l)
  BY <1>1, <1>2 DEF Local, Aimed, Pcs
<1>4. CASE Goto(p, "recFresh")
  BY <1>4, GotoStep, SameService, RowFacts DEF RecList, Quietly, rowVars, Pcs
<1>5. CASE proc' = [proc EXCEPT ![p] = l]
  BY <1>3, <1>5, MovesQuietly DEF RecList
<1>6. CASE proc' = ToSync(p)
  BY <1>6, ToSyncTyped, SameService DEF RecList, Quietly
<1>7. Goto(p, "recFresh") \/ proc' = [proc EXCEPT ![p] = l] \/ proc' = ToSync(p)
  BY <1>1 DEF RecList, Goto
<1> QED BY <1>4, <1>5, <1>6, <1>7

(* A subscription that is canceled.                                          *)
LEMMA CanceledTyped ==
    ASSUME StripeTypeOK, NEW i, Live(i)
    PROVE  NewSub(subs[i].plan, "canceled", subs[i].born) \in Sub
<1>1. subs[i].plan \in Plans /\ subs[i].born \in {"hobby", "trial", "checkout"}
  BY LiveTyped DEF Sub
<1> QED BY <1>1, SubTyped

LEMMA RecCancelTyped == ASSUME TypeInv, NEW p \in Procs, RecCancel(p) PROVE TypeInv'
<1>1. proc[p] \in Local /\ Aimed(proc[p]) /\ p \in DOMAIN proc
  BY CallTyped, RowFacts
<1>2. proc[p].ids \in SUBSET SubIds
  BY <1>1 DEF Local
<1>3. PICK i \in proc[p].ids :
        /\ proc' = IF proc[p].ids = {i} THEN ToSync(p)
                   ELSE [proc EXCEPT ![p].ids = @ \ {i}]
        /\ IF Live(i)
           THEN ChangeSub(i, NewSub(subs[i].plan, "canceled", subs[i].born))
           ELSE UNCHANGED stripeVars
  BY DEF RecCancel
<1>4. StripeTypeOK' /\ UNCHANGED rowVars
  <2>1. CASE Live(i)
    BY <1>3, <2>1, CanceledTyped, ChangeTyped, RowFacts, LiveTyped DEF RecCancel
  <2>2. CASE ~Live(i)
    BY <1>3, <2>2, SameService DEF RecCancel
  <2> QED BY <2>1, <2>2 DEF RecCancel
<1>5. CASE proc[p].ids = {i}
  BY <1>3, <1>4, <1>5, ToSyncTyped
<1>6. CASE proc[p].ids # {i}
  <2> DEFINE rest == proc[p].ids \ {i}
             l == [proc[p] EXCEPT !.ids = rest]
  <2>1. rest \in SUBSET SubIds
    BY <1>2
  <2>2. proc' = [proc EXCEPT ![p] = l]
    BY <1>1, <1>3, <1>6
  <2> HIDE DEF rest
  <2>3. l \in Local /\ Aimed(l)
    BY <1>1, <2>1 DEF Local, Aimed
  <2> HIDE DEF l
  <2> QED BY <1>4, <2>2, <2>3, RowFacts, Moves DEF rowVars
<1> QED BY <1>5, <1>6

LEMMA RecFreshTyped == ASSUME TypeInv, NEW p \in Procs, RecFresh(p) PROVE TypeInv'
<1> DEFINE l == [proc[p] EXCEPT !.pc = "recCreate", !.n = used]
<1>1. proc[p] \in Local /\ Aimed(proc[p]) /\ p \in DOMAIN proc /\ used \in 0..MaxSubs
  BY CallTyped, RowFacts DEF StripeTypeOK
<1>2. l \in Local /\ Aimed(l)
  BY <1>1 DEF Local, Aimed, Pcs
<1>3. CASE LiveIds = {}
  <2>1. proc' = [proc EXCEPT ![p] = l] /\ Quietly
    BY <1>1, <1>3 DEF RecFresh
  <2> HIDE DEF l
  <2> QED BY <1>2, <2>1, MovesQuietly
<1>4. CASE LiveIds # {}
  BY <1>4, ToSyncTyped, SameService DEF RecFresh, Quietly
<1> QED BY <1>3, <1>4

LEMMA KeysTyped == TrialKey \in Keys /\ \A n \in 0..MaxSubs : HobbyKey(n) \in Keys /\ HobbyKey(n) # TrialKey
  BY StripeAssumption DEF TrialKey, HobbyKey, Keys

LEMMA RecCreateTyped == ASSUME TypeInv, NEW p \in Procs, RecCreate(p) PROVE TypeInv'
<1>1. proc[p].n \in 0..MaxSubs
  BY CallTyped DEF Local
<1>2. NewSub("hobby", "active", "hobby") \in Sub
  BY SubTyped DEF Plans, LiveStatus
<1>3. StripeTypeOK'
  BY <1>1, <1>2, KeysTyped, CreateTyped, RowFacts DEF RecCreate, EnsureHobbyKey
<1> QED BY <1>3, ToSyncTyped DEF RecCreate

LEMMA StartTrialTyped == ASSUME TypeInv, NEW p \in Procs, StartTrial(p) PROVE TypeInv'
<1> DEFINE free == Pcs \ {"choose", "apply", "schedule", "reschedule"}
<1>1. "trialCreate" \in free /\ "recList" \in free
  BY DEF Pcs
<1>2. CASE TrialCheck(p)
  <2>1. CASE TrialUsed
    BY <1>2, <2>1, ThrowTyped DEF TrialCheck
  <2>2. CASE ~TrialUsed
    BY <1>1, <1>2, <2>2, GotoStep, SameService, RowFacts DEF TrialCheck, Quietly, rowVars
  <2> QED BY <2>1, <2>2
<1>3. CASE TrialCreate(p)
  <2>1. NewSub("pro", "trialing", "trial") \in Sub
    BY SubTyped DEF Plans, LiveStatus
  <2>2. StripeTypeOK'
    BY <1>3, <2>1, KeysTyped, CreateTyped, RowFacts DEF TrialCreate
  <2> QED BY <1>1, <1>3, <2>2, GotoStep, RowFacts DEF TrialCreate, rowVars
<1> QED BY <1>2, <1>3 DEF StartTrial

LEMMA ReconcileTyped == ASSUME TypeInv, NEW p \in Procs, Reconcile(p) PROVE TypeInv'
  BY RecListTyped, RecCancelTyped, RecFreshTyped, RecCreateTyped DEF Reconcile

-----------------------------------------------------------------------------
(* Changes of plan                                                           *)

Paths == {"none", "now", "later", "trial", "clear", "wait"}

(* A step a call may go to on its way.                                       *)
OnTheWay(pc, path) ==
    /\ pc \in Pcs \ {"choose"}
    /\ pc = "apply" => path = "now"
    /\ pc \in {"schedule", "reschedule"} => path = "later"

LEMMA WaysTyped ==
    ASSUME NEW path \in Paths, NEW sub \in Sub
    PROVE  /\ OnTheWay(FirstStep(path, sub), path)
           /\ OnTheWay(AfterUncancel(path, sub), path)
           /\ OnTheWay(AfterRelease(path, sub), path)
<1>1. OnTheWay(AfterUncancel(path, sub), path)
  BY DEF OnTheWay, AfterUncancel, Pcs, Paths
<1>2. OnTheWay(AfterRelease(path, sub), path)
  BY DEF OnTheWay, AfterRelease, Pcs, Paths
<1>3. OnTheWay("release", path) /\ OnTheWay("uncancel", path)
  BY DEF OnTheWay, Pcs
<1>4. FirstStep(path, sub) \in {"release", AfterRelease(path, sub), "uncancel",
                               AfterUncancel(path, sub)}
  BY DEF FirstStep
<1> QED BY <1>1, <1>2, <1>3, <1>4

LEMMA WayStep ==
    ASSUME NEW l \in Local, Aimed(l), NEW pc, OnTheWay(pc, l.path)
    PROVE  [l EXCEPT !.pc = pc] \in Local /\ Aimed([l EXCEPT !.pc = pc])
<1>1. [l EXCEPT !.pc = pc] \in Local
  BY GotoTyped DEF OnTheWay
<1>2. Aimed([l EXCEPT !.pc = pc])
  BY DEF Aimed, OnTheWay, Local
<1> QED BY <1>1, <1>2

LEMMA CallFacts ==
    ASSUME TypeInv, NEW p \in Procs
    PROVE  /\ proc[p] \in Local /\ Aimed(proc[p]) /\ p \in DOMAIN proc
           /\ proc[p].path \in Paths /\ proc[p].sub \in Sub
           /\ proc[p].target \in Plans \cup {"none"} /\ proc[p].at \in 0..MaxSubs
<1>1. proc[p] \in Local /\ Aimed(proc[p]) /\ p \in DOMAIN proc
  BY CallTyped, RowFacts
<1>2. /\ proc[p].path \in Paths /\ proc[p].sub \in Sub
      /\ proc[p].target \in Plans \cup {"none"} /\ proc[p].at \in 0..MaxSubs
  BY <1>1 DEF Local, Paths
<1> QED BY <1>1, <1>2

(* A call on a subscription succeeds and goes on, or throws.                 *)
LEMMA ChangeStep ==
    ASSUME TypeInv, NEW p \in Procs, NEW new, Live(proc[p].at) => new \in Sub,
           NEW l \in Local, Aimed(l), Change(p, new, [proc EXCEPT ![p] = l])
    PROVE  TypeInv'
<1>1. CASE Live(proc[p].at)
  <2>1. StripeTypeOK'
    BY <1>1, LiveTyped, ChangeTyped, RowFacts DEF Change
  <2> QED BY <1>1, <2>1, RowFacts, Moves DEF Change, rowVars
<1>2. CASE ~Live(proc[p].at)
  BY <1>2, ThrowTyped DEF Change
<1> QED BY <1>1, <1>2

LEMMA PcStep ==
    ASSUME TypeInv, NEW p \in Procs, NEW new, Live(proc[p].at) => new \in Sub,
           NEW pc, OnTheWay(pc, proc[p].path), Change(p, new, Pc(p, pc))
    PROVE  TypeInv'
<1> DEFINE l == [proc[p] EXCEPT !.pc = pc]
<1>1. l \in Local /\ Aimed(l)
  BY CallFacts, WayStep
<1>2. Pc(p, pc) = [proc EXCEPT ![p] = l]
  BY CallFacts DEF Pc
<1> HIDE DEF l
<1> QED BY <1>1, <1>2, ChangeStep

(* What the calls change of a live subscription                              *)
LEMMA EditedTyped ==
    ASSUME StripeTypeOK, NEW i, Live(i)
    PROVE  /\ i \in SubIds
           /\ \A ends \in BOOLEAN : [subs[i] EXCEPT !.ends = ends] \in Sub
           /\ \A sched \in Plans \cup {"none", "bare"} : [subs[i] EXCEPT !.sched = sched] \in Sub
           /\ \A plan \in Plans :
                 /\ [subs[i] EXCEPT !.hold = plan] \in Sub
                 /\ [subs[i] EXCEPT !.plan = plan, !.status = "active"] \in Sub
                 /\ [subs[i] EXCEPT !.plan = plan, !.status = "active", !.hold = "none"] \in Sub
<1>1. i \in SubIds /\ subs[i] \in Sub
  BY LiveTyped
<1> QED BY <1>1 DEF Sub, LiveStatus

LEMMA TakeTyped ==
    ASSUME TypeInv, NEW p \in Procs, NEW path \in Paths, Take(p, path), Current # 0,
           path \in {"now", "later"} => proc[p].target \in Plans
    PROVE  TypeInv'
<1> DEFINE sub == subs[Current]
           l == [proc[p] EXCEPT !.at = Current, !.sub = sub, !.path = path,
                                !.pc = FirstStep(path, sub)]
<1>1. sub \in Sub /\ Current \in 0..MaxSubs
  BY CurrentTyped, LiveTyped, RowFacts
<1>2. OnTheWay(FirstStep(path, sub), path)
  BY <1>1, WaysTyped
<1>3. proc' = [proc EXCEPT ![p] = l] /\ Quietly
  BY CallFacts DEF Take
<1> HIDE DEF sub
<1>4. l \in Local
  BY <1>1, <1>2, CallFacts DEF Local, OnTheWay, Paths
<1>5. Aimed(l)
  BY <1>2, CallFacts DEF Local, OnTheWay, Aimed
<1> HIDE DEF l
<1> QED BY <1>3, <1>4, <1>5, MovesQuietly

LEMMA ChooseTyped == ASSUME TypeInv, NEW p \in Procs, Choose(p) PROVE TypeInv'
<1>1. \/ Throw(p) /\ UNCHANGED left
      \/ Current # 0 /\ (\/ Take(p, "clear") \/ Take(p, "trial")
                         \/ proc[p].op # "undo" /\ (Take(p, "now") \/ Take(p, "later")))
      \/ Goto(p, "syncRead") /\ Quietly
  BY DEF Choose
<1>2. proc[p].op # "undo" => proc[p].target \in Plans
  BY CallFacts DEF Choose, At, Aimed
<1>3. CASE Throw(p) /\ UNCHANGED left
  BY <1>3, ThrowTyped
<1>4. CASE Goto(p, "syncRead") /\ Quietly
  BY <1>4, GotoStep, SameService, RowFacts DEF Quietly, rowVars, Pcs
<1>5. CASE Current # 0 /\ (Take(p, "clear") \/ Take(p, "trial"))
  BY <1>5, TakeTyped DEF Paths
<1>6. CASE Current # 0 /\ proc[p].op # "undo" /\ (Take(p, "now") \/ Take(p, "later"))
  BY <1>2, <1>6, TakeTyped DEF Paths
<1> QED BY <1>1, <1>3, <1>4, <1>5, <1>6

LEMMA UncancelTyped == ASSUME TypeInv, NEW p \in Procs, Uncancel(p) PROVE TypeInv'
<1>1. OnTheWay(AfterUncancel(proc[p].path, proc[p].sub), proc[p].path)
  BY CallFacts, WaysTyped
<1>2. Live(proc[p].at) => [subs[proc[p].at] EXCEPT !.ends = FALSE] \in Sub
  BY EditedTyped, RowFacts
<1> QED BY <1>1, <1>2, PcStep DEF Uncancel

LEMMA ReleaseTyped == ASSUME TypeInv, NEW p \in Procs, Release(p) PROVE TypeInv'
<1>1. OnTheWay(AfterRelease(proc[p].path, proc[p].sub), proc[p].path)
  BY CallFacts, WaysTyped
<1>2. Live(proc[p].at) => [subs[proc[p].at] EXCEPT !.sched = "none"] \in Sub
  BY EditedTyped, RowFacts
<1>3. CASE subs[proc[p].at].sched = "none"
  BY <1>3, ThrowTyped DEF Release
<1>4. CASE subs[proc[p].at].sched # "none"
  BY <1>1, <1>2, <1>4, PcStep DEF Release
<1> QED BY <1>3, <1>4

LEMMA ApplyTyped == ASSUME TypeInv, NEW p \in Procs, Apply(p) PROVE TypeInv'
<1> DEFINE to(path) == [proc[p] EXCEPT !.path = path, !.pc = FirstStep(path, proc[p].sub)]
<1>1. proc[p].target \in Plans
  BY CallFacts DEF Apply, At, Aimed
<1>2. ASSUME NEW path \in {"clear", "wait"}
      PROVE  /\ to(path) \in Local /\ Aimed(to(path))
             /\ [proc EXCEPT ![p].path = path, ![p].pc = FirstStep(path, proc[p].sub)]
                   = [proc EXCEPT ![p] = to(path)]
  <2>1. OnTheWay(FirstStep(path, proc[p].sub), path)
    BY CallFacts, WaysTyped DEF Paths
  <2>2. to(path) \in Local
    BY <2>1, CallFacts DEF Local, OnTheWay
  <2>3. Aimed(to(path))
    BY <2>1, CallFacts DEF Local, OnTheWay, Aimed
  <2> QED BY <2>2, <2>3, CallFacts
<1>3. Live(proc[p].at) =>
        /\ [subs[proc[p].at] EXCEPT !.plan = proc[p].target, !.status = "active",
                                    !.hold = "none"] \in Sub
        /\ [subs[proc[p].at] EXCEPT !.hold = proc[p].target] \in Sub
  BY <1>1, EditedTyped, RowFacts
<1> HIDE DEF to
<1>4. \/ Change(p, [subs[proc[p].at] EXCEPT !.plan = proc[p].target, !.status = "active",
                                            !.hold = "none"], [proc EXCEPT ![p] = to("clear")])
      \/ Change(p, [subs[proc[p].at] EXCEPT !.hold = proc[p].target],
                [proc EXCEPT ![p] = to("wait")])
  BY <1>2 DEF Apply
<1> QED BY <1>2, <1>3, <1>4, ChangeStep

LEMMA ToHobbyTyped == ASSUME TypeInv, NEW p \in Procs, ToHobby(p) PROVE TypeInv'
<1>1. OnTheWay("pendRead", proc[p].path)
  BY DEF OnTheWay, Pcs
<1>2. Live(proc[p].at) =>
        [subs[proc[p].at] EXCEPT !.plan = "hobby", !.status = "active"] \in Sub
  <2>1. "hobby" \in Plans
    BY DEF Plans
  <2> QED BY <2>1, EditedTyped, RowFacts
<1> QED BY <1>1, <1>2, PcStep DEF ToHobby

LEMMA MadeTyped ==
    ASSUME NEW l \in Local, NEW pc \in Pcs PROVE [l EXCEPT !.made = TRUE, !.pc = pc] \in Local
  BY DEF Local

LEMMA ScheduleTyped == ASSUME TypeInv, NEW p \in Procs, Schedule(p) PROVE TypeInv'
<1> DEFINE l == [proc[p] EXCEPT !.made = TRUE, !.pc = "reschedule"]
           m == [proc[p] EXCEPT !.pc = "reschedule"]
<1>1. proc[p].path = "later"
  BY CallFacts DEF Schedule, At, Aimed
<1>2. l \in Local /\ Aimed(l)
  <2>1. proc[p] \in Local /\ Aimed(proc[p]) /\ "reschedule" \in Pcs
    BY CallFacts DEF Pcs
  <2>2. l \in Local
    BY <2>1, MadeTyped
  <2>3. Aimed(l)
    BY <1>1, <2>1 DEF Local, Aimed
  <2> QED BY <2>2, <2>3
<1>3. m \in Local /\ Aimed(m)
  BY <1>1, CallFacts, WayStep DEF OnTheWay, Pcs
<1>4. Live(proc[p].at) => [subs[proc[p].at] EXCEPT !.sched = "bare"] \in Sub
  BY EditedTyped, RowFacts
<1>5. \/ Throw(p) /\ UNCHANGED left
      \/ Change(p, [subs[proc[p].at] EXCEPT !.sched = "bare"], [proc EXCEPT ![p] = l])
      \/ proc' = [proc EXCEPT ![p] = m] /\ Quietly
  BY CallFacts DEF Schedule, Goto
<1> HIDE DEF l, m
<1> QED BY <1>2, <1>3, <1>4, <1>5, ThrowTyped, ChangeStep, MovesQuietly

LEMMA RollbackTyped ==
    ASSUME TypeInv, NEW p \in Procs, NEW pc \in {"idle", "rbRelease", "rbCancel"},
           Rollback(p, pc), StripeTypeOK', UNCHANGED rowVars
    PROVE  TypeInv'
<1> DEFINE l == IF pc = "idle" THEN Ended(p, "error") ELSE [proc[p] EXCEPT !.pc = pc]
<1>1. OnTheWay(pc, proc[p].path)
  BY DEF OnTheWay, Pcs
<1>2. l \in Local /\ Aimed(l)
  BY <1>1, CallFacts, EndedTyped, WayStep
<1>3. proc' = [proc EXCEPT ![p] = l]
  BY DEF Rollback
<1> HIDE DEF l
<1> QED BY <1>2, <1>3, RowFacts, Moves DEF rowVars

LEMMA RollbackFirstTyped ==
    ASSUME NEW made, NEW had PROVE RollbackFirst(made, had) \in {"idle", "rbRelease", "rbCancel"}
  BY DEF RollbackFirst

LEMMA RescheduleTyped == ASSUME TypeInv, NEW p \in Procs, Reschedule(p) PROVE TypeInv'
<1>1. proc[p].target \in Plans /\ OnTheWay("pendRead", proc[p].path)
  BY CallFacts DEF Reschedule, At, Aimed, OnTheWay, Pcs
<1>2. Live(proc[p].at) => [subs[proc[p].at] EXCEPT !.sched = proc[p].target] \in Sub
  BY <1>1, EditedTyped, RowFacts
<1>3. CASE Live(proc[p].at) /\ subs[proc[p].at].sched # "none"
  BY <1>1, <1>2, <1>3, PcStep DEF Reschedule
<1>4. CASE ~(Live(proc[p].at) /\ subs[proc[p].at].sched # "none")
  BY <1>4, RollbackTyped, RollbackFirstTyped, SameService DEF Reschedule, Quietly
<1> QED BY <1>3, <1>4

LEMMA UndoTyped == ASSUME TypeInv, NEW p \in Procs, RbRelease(p) \/ RbCancel(p) PROVE TypeInv'
<1> DEFINE i == proc[p].at
<1>1. Live(i) => /\ [subs[i] EXCEPT !.sched = "none"] \in Sub
                 /\ [subs[i] EXCEPT !.ends = TRUE] \in Sub
                 /\ i \in SubIds
  BY EditedTyped, RowFacts
<1>2. CASE RbRelease(p)
  <2>1. StripeTypeOK'
    BY <1>1, <1>2, ChangeTyped, SameService, RowFacts DEF RbRelease
  <2> QED BY <1>2, <2>1, RollbackTyped, RollbackFirstTyped DEF RbRelease
<1>3. CASE RbCancel(p)
  <2>1. StripeTypeOK'
    BY <1>1, <1>3, ChangeTyped, SameService, RowFacts DEF RbCancel
  <2> QED BY <1>3, <2>1, RollbackTyped DEF RbCancel
<1> QED BY <1>2, <1>3

LEMMA PlanChangeTyped == ASSUME TypeInv, NEW p \in Procs, PlanChange(p) PROVE TypeInv'
  BY ChooseTyped, UncancelTyped, ReleaseTyped, ApplyTyped, ToHobbyTyped, ScheduleTyped,
     RescheduleTyped, UndoTyped DEF PlanChange

LEMMA StepTyped == ASSUME TypeInv, NEW p \in Procs, Step(p) PROVE TypeInv'
  BY ReconcileTyped, SyncStepTyped, SmallWritesTyped, ReadThroughTyped, StartTrialTyped,
     PlanChangeTyped DEF Step

-----------------------------------------------------------------------------
(* The beginning of calls, failures, time and the service                    *)

LEMMA BegunTyped ==
    ASSUME NEW l \in Local, NEW ev \in Event, NEW target \in Plans \cup {"none"},
           NEW op \in {"hook", "trial", "hobby", "switch", "undo"}, NEW pc \in Pcs
    PROVE  [l EXCEPT !.op = op, !.pc = pc, !.ev = ev, !.target = target] \in Local
  BY DEF Local

LEMMA BeginTyped ==
    ASSUME TypeInv, NEW p \in Procs, NEW ev \in Event, NEW target \in Plans \cup {"none"},
           NEW op \in {"hook", "trial", "hobby", "switch", "undo"},
           NEW pc \in {"recList", "payRead", "trialCheck", "choose"},
           pc = "choose" /\ op # "undo" => target \in Plans,
           Begin(p, op, pc, ev, target), left' \in Left
    PROVE  TypeInv'
<1> DEFINE l == [Idle EXCEPT !.op = op, !.pc = pc, !.ev = ev, !.target = target]
<1>1. l \in Local /\ Aimed(l)
  <2>1. pc \in Pcs
    BY DEF Pcs
  <2>2. l \in Local
    BY <2>1, IdleTyped, BegunTyped
  <2>3. Aimed(l)
    BY DEF Aimed, Idle
  <2> QED BY <2>2, <2>3
<1>2. proc' = [proc EXCEPT ![p] = l]
  BY DEF Begin
<1>3. StripeTypeOK'
  BY RowFacts DEF Begin, stripeVars, StripeTypeOK
<1> HIDE DEF l
<1> QED BY <1>1, <1>2, <1>3, RowFacts, Moves DEF Begin, rowVars

LEMMA WebhookTyped == ASSUME TypeInv, NEW h \in Hooks, Webhook(h) PROVE TypeInv'
<1>1. PICK e \in events :
        Begin(h, "hook", IF e.kind = "pay" THEN "payRead" ELSE "recList", e, "none")
  BY DEF Webhook
<1>2. e \in Event /\ left' \in Left /\ h \in Procs
  BY RowFacts DEF Webhook, StripeTypeOK, Procs
<1> QED BY <1>1, <1>2, BeginTyped

LEMMA AdminTyped == ASSUME TypeInv, NEW a \in Admins, AdminActs(a) PROVE TypeInv'
<1>1. a \in Procs /\ left' \in Left /\ NoEvent \in Event
  BY SpendTyped, RowFacts, IdleTyped DEF AdminActs, Procs
<1>2. \/ Begin(a, "hobby", "recList", NoEvent, "none")
      \/ Begin(a, "trial", "trialCheck", NoEvent, "none")
      \/ Begin(a, "undo", "choose", NoEvent, "none")
      \/ \E target \in Plans : Begin(a, "switch", "choose", NoEvent, target)
  <2>1. PICK op \in left.acts :
          CASE op = "hobby" -> Begin(a, op, "recList", NoEvent, "none")
            [] op = "trial" -> Begin(a, op, "trialCheck", NoEvent, "none")
            [] op = "undo" -> Begin(a, op, "choose", NoEvent, "none")
            [] op = "switch" -> \E target \in Plans : Begin(a, op, "choose", NoEvent, target)
    BY DEF AdminActs
  <2>2. op \in Acts
    BY RowFacts DEF Left
  <2> QED BY <2>1, <2>2 DEF Acts
<1> QED BY <1>1, <1>2, BeginTyped

LEMMA PageLoadTyped == ASSUME TypeInv, NEW g \in Pages, PageLoad(g) PROVE TypeInv'
  BY CacheGetTyped DEF PageLoad, Procs

LEMMA FailTyped == ASSUME TypeInv, NEW p \in Procs, CallFails(p) PROVE TypeInv'
<1>1. left' \in Left /\ UNCHANGED <<rowVars, stripeVars>>
  BY SpendTyped, RowFacts DEF CallFails
<1>2. StripeTypeOK'
  BY <1>1, RowFacts DEF stripeVars, StripeTypeOK
<1>3. CASE proc' = [proc EXCEPT ![p] = Ended(p, "error")]
  BY <1>1, <1>2, <1>3, EndedTyped, RowFacts, Moves DEF rowVars
<1>4. \A made, had : Rollback(p, RollbackFirst(made, had)) => TypeInv'
  BY <1>1, <1>2, RollbackFirstTyped, RollbackTyped
<1> QED BY <1>3, <1>4 DEF CallFails

LEMMA TimeTyped ==
    ASSUME TypeInv, SnapshotAges \/ CopyExpires \/ LockExpires PROVE TypeInv'
<1>1. StripeTypeOK'
  BY SameService DEF SnapshotAges, CopyExpires, LockExpires
<1>2. CASE CopyExpires \/ LockExpires
  <2>1. row' = row /\ proc' = proc /\ lock' \in BOOLEAN /\ cache' \subseteq cache
    BY <1>2, RowFacts DEF CopyExpires, LockExpires
  <2>2. TypeOK'
    BY <1>1, <2>1, RowFacts DEF TypeOK, RowTypeOK
  <2> QED BY <2>1, <2>2 DEF TypeInv
<1>3. CASE SnapshotAges
  <2>1. \A r \in Row : [r EXCEPT !.fresh = FALSE] \in Row
    BY DEF Row
  <2>2. row' \in Row /\ cache' \subseteq Row /\ lock' \in BOOLEAN
    BY <1>3, <2>1, RowFacts DEF SnapshotAges
  <2>3. \A c, d \in cache' : c = d
    BY <1>3, RowFacts DEF SnapshotAges
  <2>4. \A l \in Local : /\ [l EXCEPT !.snap.fresh = FALSE] \in Local
                         /\ Aimed(l) => Aimed([l EXCEPT !.snap.fresh = FALSE])
    <3>1. \A l \in Local : l.snap \in Row
      BY DEF Local
    <3>2. \A l \in Local, s \in Row : [l EXCEPT !.snap = s] \in Local
      BY DEF Local
    <3>3. \A l \in Local, s \in Row : Aimed(l) => Aimed([l EXCEPT !.snap = s])
      BY DEF Local, Aimed
    <3> QED BY <2>1, <3>1, <3>2, <3>3
  <2>5. \A p \in Procs : proc'[p] \in Local /\ Aimed(proc'[p])
    BY <1>3, <2>4, CallTyped DEF SnapshotAges
  <2>6. proc' \in [Procs -> Local]
    BY <1>3, <2>5 DEF SnapshotAges
  <2>7. TypeOK'
    BY <1>1, <2>2, <2>3, <2>6 DEF TypeOK, RowTypeOK
  <2> QED BY <2>5, <2>7 DEF TypeInv
<1> QED BY <1>2, <1>3

LEMMA ServiceTyped == ASSUME TypeInv, ServiceActs \/ PruneIdleKeys PROVE TypeInv'
<1>1. StripeTypeOK
  BY RowFacts
<1>2. UNCHANGED <<rowVars, proc>>
  BY DEF ServiceActs, PruneIdleKeys
<1>3. EventOf(emitted + 1, "sub") \in Event /\ EventOf(emitted + 1, "pay") \in Event
      /\ emitted + 1 \in Nat
  BY <1>1 DEF StripeTypeOK, EventOf, Event
<1>4. ASSUME Spend("env") PROVE left' \in Left
  BY <1>4, SpendTyped, RowFacts
<1>5. ASSUME NEW i \in SubIds, PortalCancels(i) PROVE StripeTypeOK'
  <2>1. [subs[i] EXCEPT !.ends = TRUE] \in Sub /\ left' \in Left
    BY <1>1, <1>4, <1>5, EditedTyped DEF PortalCancels
  <2>2. subs' = [subs EXCEPT ![i] = [subs[i] EXCEPT !.ends = TRUE]]
    BY <1>1, <1>5 DEF PortalCancels, StripeTypeOK
  <2> QED BY <1>1, <1>3, <1>5, <2>1, <2>2 DEF PortalCancels, Emit, StripeTypeOK
<1>6. ASSUME NEW i \in SubIds, PeriodEnds(i) PROVE StripeTypeOK'
  <2>1. left' \in Left /\ Live(i)
    BY <1>4, <1>6 DEF PeriodEnds
  <2>2. NewSub(subs[i].plan, "canceled", subs[i].born) \in Sub
    BY <1>1, <2>1, CanceledTyped
  <2>3. [subs[i] EXCEPT !.status = "active",
                !.plan = IF subs[i].sched \in Plans THEN subs[i].sched ELSE @,
                !.sched = IF @ \in Plans THEN "none" ELSE @] \in Sub
    <3> DEFINE plan == IF subs[i].sched \in Plans THEN subs[i].sched ELSE subs[i].plan
               sched == IF subs[i].sched \in Plans THEN "none" ELSE subs[i].sched
    <3>1. subs[i] \in Sub
      BY <1>1, <2>1, LiveTyped
    <3>2. plan \in Plans /\ sched \in Plans \cup {"none", "bare"}
      BY <3>1 DEF Sub
    <3> HIDE DEF plan, sched
    <3>3. [subs[i] EXCEPT !.status = "active", !.plan = plan, !.sched = sched] \in Sub
      BY <3>1, <3>2 DEF Sub, LiveStatus
    <3> QED BY <3>3 DEF plan, sched
  <2> QED BY <1>1, <1>6, <2>1, <2>2, <2>3, ChangeTyped DEF PeriodEnds
<1>7. ASSUME NEW i \in SubIds, PaymentConfirmed(i) PROVE StripeTypeOK'
  <2>1. left' \in Left /\ Live(i) /\ subs[i].hold # "none" /\ subs[i] \in Sub
    BY <1>1, <1>4, <1>7, LiveTyped DEF PaymentConfirmed
  <2>2. [subs[i] EXCEPT !.plan = subs[i].hold, !.hold = "none"] \in Sub
    BY <2>1 DEF Sub
  <2> QED BY <1>1, <1>7, <2>1, <2>2, ChangeTyped DEF PaymentConfirmed
<1>8. ASSUME PaymentFails PROVE StripeTypeOK'
  BY <1>1, <1>3, <1>4, <1>8 DEF PaymentFails, Emit, StripeTypeOK
<1>9. ASSUME NEW plan \in Plans, CheckoutCompletes(plan) PROVE StripeTypeOK'
  <2>1. NewSub(plan, "active", "checkout") \in Sub
    BY SubTyped DEF LiveStatus
  <2>2. used + 1 \in 0..MaxSubs
    BY <1>1, <1>9, StripeAssumption DEF CheckoutCompletes, StripeTypeOK
  <2> QED BY <1>1, <1>3, <1>4, <1>9, <2>1, <2>2 DEF CheckoutCompletes, Emit, StripeTypeOK
<1>10. ASSUME PruneIdleKeys PROVE StripeTypeOK'
  BY <1>1, <1>10, StripeAssumption DEF PruneIdleKeys, PruneKeys, StripeTypeOK
<1>11. StripeTypeOK'
  BY <1>5, <1>6, <1>7, <1>8, <1>9, <1>10 DEF ServiceActs
<1>12. TypeOK'
  BY <1>2, <1>11, RowFacts DEF TypeOK, RowTypeOK, rowVars
<1> QED BY <1>2, <1>12 DEF TypeInv

LEMMA TypeInit == Init => TypeInv
<1> SUFFICES ASSUME Init PROVE TypeInv
  OBVIOUS
<1>1. MaxSubs \in Nat \ {0} /\ left \in Left /\ left.start \in Sub /\ left.card \in BOOLEAN
  BY StripeAssumption DEF Init, StripeInit, Left
<1>2. left.start = NoSub \/ left.start.status \in LiveStatus
  BY StripeAssumption DEF Init, StripeInit
<1>3. StripeTypeOK
  BY <1>1, IdleTyped DEF Init, StripeInit, StripeTypeOK
<1>4. subs[1] = left.start /\ used \in 0..MaxSubs
  BY <1>1 DEF Init, StripeInit, SubIds
<1>5. /\ subs[1].plan \in Plans /\ subs[1].status \in LiveStatus \cup {"none"}
      /\ PendingOf(subs[1]) \in Plans \cup {"none"}
  BY <1>1, <1>2, <1>4, PendingTyped DEF Sub, NoSub, NewSub
<1>6. row \in Row
  <2>1. card \in BOOLEAN
    BY <1>1 DEF Init, StripeInit
  <2> QED BY <1>4, <1>5, <2>1, IdleTyped DEF Init, RowInit, Row
<1>7. RowTypeOK
  BY <1>6, IdleTyped DEF Init, RowInit, RowTypeOK
<1>8. \A p \in Procs : Aimed(proc[p])
  BY DEF Init, RowInit, Aimed, Idle
<1> QED BY <1>3, <1>7, <1>8 DEF TypeInv, TypeOK

LEMMA TypeNext == TypeInv /\ [Next]_billingVars => TypeInv'
<1> SUFFICES ASSUME TypeInv, [Next]_billingVars PROVE TypeInv'
  OBVIOUS
<1>1. CASE UNCHANGED billingVars
  BY <1>1 DEF billingVars, stripeVars, TypeInv, TypeOK, StripeTypeOK, RowTypeOK
<1>2. CASE Next
  BY <1>2, WebhookTyped, PageLoadTyped, AdminTyped, StepTyped, FailTyped, TimeTyped, ServiceTyped
     DEF Next
<1> QED BY <1>1, <1>2

(* Every variable keeps its type: no row, copy or call ever holds a plan, a  *)
(* subscription or a pending change that does not exist.                     *)
THEOREM TypeCorrect == Spec => []TypeOK
<1>1. TypeInv => TypeOK
  BY DEF TypeInv
<1> QED BY <1>1, TypeInit, TypeNext, PTL DEF Spec

-----------------------------------------------------------------------------
(* One trial, and one hobby subscription until one is canceled: the          *)
(* idempotency keys of the two create calls are enough, because a call that  *)
(* found nothing uses the key of the first call that did.                    *)

Born(what) == {i \in 1..used : subs[i].born = what}
NoneCanceled == \A i \in 1..used : subs[i].status # "canceled"

(* As long as a call that found no trial may still create one, a trial that  *)
(* exists is the one its key answers with.                                   *)
TrialKeyed ==
    /\ OneTrial
    /\ (\E p \in Procs : At(p, "trialCreate")) /\ Born("trial") # {} => idem[TrialKey] # 0

(* Every subscription that was created is live or canceled; a call that      *)
(* found none live, when none was canceled, found none at all.               *)
HobbyKeyed ==
    /\ \A i \in 1..used : subs[i].status # "none"
    /\ NoneCanceled =>
          /\ \A i, j \in Born("hobby") : i = j
          /\ \A p \in Procs : At(p, "recCreate") =>
                /\ proc[p].n = 0
                /\ Born("hobby") # {} => idem[HobbyKey(0)] # 0

-----------------------------------------------------------------------------
(* What a step may do to subscriptions and keys                              *)

(* No subscription is created, and a canceled one stays so.                  *)
Kept ==
    /\ used' = used /\ idem' = idem
    /\ \A i \in SubIds :
          /\ subs'[i].born = subs[i].born
          /\ \/ subs'[i].status = subs[i].status
             \/ Live(i) /\ subs'[i].status \in LiveStatus \cup {"canceled"}

(* No call gets to a create call.                                            *)
Stays ==
    \A q \in Procs : /\ At(q, "trialCreate")' => At(q, "trialCreate")
                     /\ At(q, "recCreate")' => At(q, "recCreate") /\ proc'[q].n = proc[q].n

Created(new) ==
    /\ used < MaxSubs
    /\ used' = used + 1
    /\ subs' = [subs EXCEPT ![used + 1] = new]

LEMMA SubsFacts ==
    ASSUME TypeInv
    PROVE  /\ MaxSubs \in Nat \ {0} /\ used \in 0..MaxSubs /\ 1..used \subseteq SubIds
           /\ subs \in [SubIds -> Sub] /\ idem \in [Keys -> 0..MaxSubs]
           /\ proc \in [Procs -> Local]
  BY StripeAssumption, RowFacts DEF StripeTypeOK, SubIds

LEMMA KeptTrial == ASSUME TypeInv, TrialKeyed, Kept, Stays PROVE TrialKeyed'
<1>1. 1..used \subseteq SubIds
  BY SubsFacts
<1>2. Born("trial")' = Born("trial") /\ OneTrial'
  BY <1>1 DEF Kept, Born, TrialKeyed, OneTrial
<1>3. (\E p \in Procs : At(p, "trialCreate"))' => \E p \in Procs : At(p, "trialCreate")
  BY DEF Stays
<1> QED BY <1>2, <1>3 DEF TrialKeyed, Kept, TrialKey

LEMMA KeptHobby == ASSUME TypeInv, HobbyKeyed, Kept, Stays PROVE HobbyKeyed'
<1>1. 1..used \subseteq SubIds
  BY SubsFacts
<1>2. Born("hobby")' = Born("hobby")
  BY <1>1 DEF Kept, Born
<1>3. NoneCanceled' => NoneCanceled
  BY <1>1 DEF NoneCanceled, Kept, Live, LiveStatus
<1>4. (\A i \in 1..used : subs[i].status # "none")'
  BY <1>1 DEF HobbyKeyed, Kept, LiveStatus
<1>5. HobbyKey(0)' = HobbyKey(0) /\ idem' = idem
  BY DEF HobbyKey, Kept
<1>6. ASSUME NoneCanceled', NEW p \in Procs, At(p, "recCreate")'
      PROVE  proc'[p].n = 0 /\ (Born("hobby")' # {} => idem'[HobbyKey(0)] # 0)
  BY <1>2, <1>3, <1>5, <1>6 DEF HobbyKeyed, Stays
<1> QED BY <1>2, <1>3, <1>4, <1>5, <1>6 DEF HobbyKeyed

(* A subscription of another birth is created beside all keys, or under      *)
(* another one.                                                              *)
LEMMA BesideTrial ==
    ASSUME TypeInv, TrialKeyed, Stays, NEW new \in Sub, new.born # "trial", Created(new),
           idem'[TrialKey] = idem[TrialKey]
    PROVE  TrialKeyed'
<1>1. Born("trial")' = Born("trial") /\ OneTrial'
  BY SubsFacts DEF Created, Born, TrialKeyed, OneTrial, SubIds
<1>2. (\E p \in Procs : At(p, "trialCreate"))' => \E p \in Procs : At(p, "trialCreate")
  BY DEF Stays
<1> QED BY <1>1, <1>2 DEF TrialKeyed, TrialKey

LEMMA BesideHobby ==
    ASSUME TypeInv, HobbyKeyed, Stays, NEW new \in Sub, new.born # "hobby",
           new.status \in LiveStatus, Created(new), idem'[HobbyKey(0)] = idem[HobbyKey(0)]
    PROVE  HobbyKeyed'
<1>1. Born("hobby")' = Born("hobby")
  BY SubsFacts DEF Created, Born, SubIds
<1>2. (NoneCanceled' => NoneCanceled) /\ (\A i \in 1..used : subs[i].status # "none")'
  BY SubsFacts DEF Created, NoneCanceled, HobbyKeyed, SubIds, LiveStatus
<1>3. ASSUME NoneCanceled', NEW p \in Procs, At(p, "recCreate")'
      PROVE  proc'[p].n = 0 /\ (Born("hobby")' # {} => idem'[HobbyKey(0)] # 0)
  BY <1>1, <1>2, <1>3 DEF HobbyKeyed, Stays
<1> QED BY <1>1, <1>2, <1>3 DEF HobbyKeyed, HobbyKey

-----------------------------------------------------------------------------
(* The steps that leave births and keys alone                                *)

(* Call p is not, or no longer, before a create call.                        *)
Elsewhere(p) ==
    /\ \A q \in Procs \ {p} : proc'[q] = proc[q]
    /\ proc'[p].pc \notin {"trialCreate", "recCreate"}

LEMMA ElsewhereStays == ASSUME TypeInv, NEW p \in Procs, Elsewhere(p) PROVE Stays
  BY DEF Elsewhere, Stays, At

LEMMA SameKept == ASSUME UNCHANGED stripeVars PROVE Kept
  BY DEF stripeVars, Kept

LEMMA AcknowledgeKept == ASSUME NEW e, Acknowledge(e) PROVE Kept
  BY DEF Acknowledge, Kept

LEMMA ChangeKept ==
    ASSUME TypeInv, NEW i, Live(i), NEW new, ChangeSub(i, new), new.born = subs[i].born,
           new.status \in LiveStatus \cup {"canceled"}
    PROVE  Kept
  BY SubsFacts DEF ChangeSub, Kept, Live

LEMMA EditKept ==
    ASSUME TypeInv, NEW p \in Procs, NEW new, NEW next, Change(p, new, next),
           Live(proc[p].at) => /\ new.born = subs[proc[p].at].born
                               /\ new.status \in LiveStatus
    PROVE  Kept
  BY ChangeKept, SameKept DEF Change, Throw

LEMMA EndedElsewhere ==
    ASSUME TypeInv, NEW p \in Procs, NEW out, proc' = [proc EXCEPT ![p] = Ended(p, out)]
    PROVE  Elsewhere(p)
<1>1. Ended(p, out).pc = "idle"
  BY CallFacts DEF Ended, Idle, Local
<1> QED BY <1>1, SubsFacts DEF Elsewhere

LEMMA ReturnElsewhere ==
    ASSUME TypeInv, NEW p \in Procs, Return(p) PROVE Kept /\ Elsewhere(p)
  BY SameKept, AcknowledgeKept, EndedElsewhere DEF Return

LEMMA ThrowElsewhere ==
    ASSUME TypeInv, NEW p \in Procs, Throw(p) PROVE Kept /\ Elsewhere(p)
  BY SameKept, EndedElsewhere DEF Throw

LEMMA SyncElsewhere ==
    ASSUME TypeInv, NEW p \in Procs, Sync(p) \/ SmallWrites(p) \/ ReadThrough(p)
    PROVE  Kept /\ Elsewhere(p)
<1>0. p \in DOMAIN proc /\ proc \in [Procs -> Local]
  BY SubsFacts
<1>1. CASE Return(p)
  BY <1>1, ReturnElsewhere
<1>2. ASSUME NEW pc \in Pcs \ {"trialCreate", "recCreate"}, ReadRow(p, pc) PROVE Kept /\ Elsewhere(p)
  BY <1>0, <1>2, SameKept DEF ReadRow, Quietly, Elsewhere, Local
<1>3. ASSUME NEW new, NEW pc \in Pcs \ {"trialCreate", "recCreate"}, WriteRow(p, new, pc)
      PROVE  Kept /\ Elsewhere(p)
  BY <1>0, <1>3, SameKept DEF WriteRow, Elsewhere, Local
<1>4. ASSUME NEW pc \in Pcs \ {"trialCreate", "recCreate"}, Goto(p, pc), UNCHANGED stripeVars
      PROVE  Kept /\ Elsewhere(p)
  BY <1>0, <1>4, SameKept DEF Goto, Elsewhere, Local
<1>5. {"syncRead", "syncStripe", "syncWrite", "syncDel", "payWrite", "pendWrite", "lastDel",
       "pendDel", "tryLock"} \subseteq Pcs \ {"trialCreate", "recCreate"}
  BY DEF Pcs
<1>6. CASE Sync(p)
  <2>1. CASE SyncRead(p)
    BY <1>1, <1>2, <1>5, <2>1 DEF SyncRead, Finish
  <2>2. CASE SyncStripe(p)
    BY <1>0, <2>2, SameKept DEF SyncStripe, Quietly, Elsewhere, Local
  <2>3. CASE SyncWrite(p)
    BY <1>3, <1>5, <2>3 DEF SyncWrite
  <2>4. CASE SyncDel(p)
    BY <1>1, <2>4 DEF SyncDel
  <2> QED BY <1>6, <2>1, <2>2, <2>3, <2>4 DEF Sync
<1>7. CASE SmallWrites(p)
  <2>1. CASE PayRead(p) \/ PendRead(p)
    BY <1>1, <1>2, <1>5, <2>1 DEF PayRead, PendRead, Finish
  <2>2. CASE PayWrite(p)
    BY <1>3, <1>5, <2>2 DEF PayWrite
  <2>3. CASE PendWrite(p)
    <3>1. CASE proc[p].path = "later"
      BY <1>3, <1>5, <2>3, <3>1 DEF PendWrite
    <3>2. CASE proc[p].path # "later"
      BY <1>3, <1>5, <2>3, <3>2 DEF PendWrite
    <3> QED BY <3>1, <3>2
  <2>4. CASE LastDel(p)
    BY <1>1, <2>4 DEF LastDel
  <2>5. CASE PendDel(p)
    BY <1>1, <1>4, <1>5, <2>5 DEF PendDel
  <2> QED BY <1>7, <2>1, <2>2, <2>3, <2>4, <2>5 DEF SmallWrites
<1>8. CASE ReadThrough(p)
  <2>1. CASE CacheFill(p)
    <3>1. CASE proc[p].snap.fresh
      BY <1>1, <2>1, <3>1 DEF CacheFill
    <3>2. CASE ~proc[p].snap.fresh
      BY <1>0, <2>1, <3>2, SameKept DEF CacheFill, Elsewhere, Local
    <3> QED BY <3>1, <3>2
  <2>2. CASE TryLock(p)
    BY <1>1, <1>4, <1>5, <2>2 DEF TryLock, Finish
  <2> QED BY <1>8, <2>1, <2>2 DEF ReadThrough
<1> QED BY <1>6, <1>7, <1>8

LEMMA ToSyncElsewhere ==
    ASSUME TypeInv, NEW p \in Procs, proc' = ToSync(p) PROVE Elsewhere(p)
  BY SubsFacts DEF ToSync, Elsewhere, Local

LEMMA ReconcileElsewhere ==
    ASSUME TypeInv, NEW p \in Procs, RecList(p) \/ RecCancel(p) PROVE Kept /\ Elsewhere(p)
<1>1. CASE RecList(p)
  <2>1. Kept
    BY <1>1, SameKept DEF RecList, Quietly
  <2>2. \/ proc' = [proc EXCEPT ![p].pc = "recFresh"]
        \/ proc' = [proc EXCEPT ![p].pc = "recCancel", ![p].ids = ListedHobbies]
        \/ proc' = ToSync(p)
    BY <1>1 DEF RecList
  <2>3. Elsewhere(p)
    BY <2>2, ToSyncElsewhere, SubsFacts DEF Elsewhere, Local
  <2> QED BY <2>1, <2>3
<1>2. CASE RecCancel(p)
  <2>1. PICK i \in proc[p].ids :
          /\ proc' = IF proc[p].ids = {i} THEN ToSync(p)
                     ELSE [proc EXCEPT ![p].ids = @ \ {i}]
          /\ IF Live(i)
             THEN ChangeSub(i, NewSub(subs[i].plan, "canceled", subs[i].born))
             ELSE UNCHANGED stripeVars
    BY <1>2 DEF RecCancel
  <2>2. Kept
    BY <2>1, ChangeKept, SameKept DEF NewSub
  <2>3. Elsewhere(p)
    BY <1>2, <2>1, ToSyncElsewhere, SubsFacts DEF RecCancel, At, Elsewhere, Local
  <2> QED BY <2>2, <2>3
<1> QED BY <1>1, <1>2

(* A change of plan never turns to a create call.                            *)
LEMMA WayElsewhere ==
    ASSUME NEW path, NEW sub
    PROVE  /\ FirstStep(path, sub) \notin {"trialCreate", "recCreate"}
           /\ AfterUncancel(path, sub) \notin {"trialCreate", "recCreate"}
           /\ AfterRelease(path, sub) \notin {"trialCreate", "recCreate"}
  BY DEF FirstStep, AfterUncancel, AfterRelease

LEMMA PcElsewhere ==
    ASSUME TypeInv, NEW p \in Procs, NEW pc, pc \notin {"trialCreate", "recCreate"},
           proc' = Pc(p, pc)
    PROVE  Elsewhere(p)
  BY SubsFacts DEF Pc, Elsewhere, Local

LEMMA ChangeElsewhere ==
    ASSUME TypeInv, NEW p \in Procs, NEW new, NEW next, Change(p, new, next),
           proc' = next => Elsewhere(p)
    PROVE  Elsewhere(p)
  BY ThrowElsewhere DEF Change

LEMMA RollbackElsewhere ==
    ASSUME TypeInv, NEW p \in Procs, NEW made, NEW had, Rollback(p, RollbackFirst(made, had))
    PROVE  Elsewhere(p)
<1> DEFINE pc == RollbackFirst(made, had)
<1>1. CASE pc = "idle"
  BY <1>1, EndedElsewhere DEF Rollback
<1>2. CASE pc # "idle"
  <2>1. pc \notin {"trialCreate", "recCreate"}
    BY DEF RollbackFirst
  <2> QED BY <1>2, <2>1, SubsFacts DEF Rollback, Elsewhere, Local
<1> QED BY <1>1, <1>2

LEMMA PlanChangeElsewhere ==
    ASSUME TypeInv, NEW p \in Procs, PlanChange(p) PROVE Kept /\ Elsewhere(p)
<1> DEFINE i == proc[p].at
<1>0. Live(i) => subs[i] \in Sub /\ subs[i].status \in LiveStatus /\ "active" \in LiveStatus
  BY LiveTyped, RowFacts DEF LiveStatus
<1>1. CASE Choose(p)
  <2>1. ASSUME NEW path, Take(p, path) PROVE Kept /\ Elsewhere(p)
    BY <2>1, SameKept, WayElsewhere, SubsFacts DEF Take, Quietly, Elsewhere, Local
  <2>2. ASSUME Goto(p, "syncRead"), Quietly PROVE Kept /\ Elsewhere(p)
    BY <2>2, SameKept, SubsFacts DEF Goto, Quietly, Elsewhere, Local
  <2> QED BY <1>1, <2>1, <2>2, ThrowElsewhere DEF Choose
<1>2. CASE Uncancel(p)
  <2>1. Elsewhere(p)
    BY <1>2, WayElsewhere, PcElsewhere, ChangeElsewhere DEF Uncancel
  <2>2. Kept
    BY <1>0, <1>2, EditKept DEF Uncancel, Sub
  <2> QED BY <2>1, <2>2
<1>3. CASE Release(p)
  <2>1. Elsewhere(p)
    BY <1>3, WayElsewhere, PcElsewhere, ChangeElsewhere, ThrowElsewhere DEF Release
  <2>2. Kept
    BY <1>0, <1>3, EditKept, ThrowElsewhere DEF Release, Sub
  <2> QED BY <2>1, <2>2
<1>4. CASE Apply(p)
  <2> DEFINE to(path) == [proc EXCEPT ![p].path = path,
                                      ![p].pc = FirstStep(path, proc[p].sub)]
             now == [subs[i] EXCEPT !.plan = proc[p].target, !.status = "active",
                                    !.hold = "none"]
             later == [subs[i] EXCEPT !.hold = proc[p].target]
  <2>1. ASSUME NEW path, proc' = to(path) PROVE Elsewhere(p)
    BY <2>1, WayElsewhere, SubsFacts DEF Elsewhere, Local
  <2>2. Change(p, now, to("clear")) \/ Change(p, later, to("wait"))
    BY <1>4 DEF Apply
  <2>3. Live(i) => /\ now.born = subs[i].born /\ now.status \in LiveStatus
                   /\ later.born = subs[i].born /\ later.status \in LiveStatus
    BY <1>0 DEF Sub
  <2> HIDE DEF to, now, later
  <2>4. Kept
    BY <2>2, <2>3, EditKept
  <2>5. Elsewhere(p)
    BY <2>1, <2>2, ChangeElsewhere
  <2> QED BY <2>4, <2>5
<1>5. CASE ToHobby(p)
  <2>1. Elsewhere(p)
    BY <1>5, PcElsewhere, ChangeElsewhere DEF ToHobby
  <2>2. Kept
    BY <1>0, <1>5, EditKept DEF ToHobby, Sub
  <2> QED BY <2>1, <2>2
<1>6. CASE Schedule(p)
  <2> DEFINE made == [proc EXCEPT ![p].made = TRUE, ![p].pc = "reschedule"]
             new == [subs[i] EXCEPT !.sched = "bare"]
  <2>1. \/ Throw(p)
        \/ Change(p, new, made)
        \/ Goto(p, "reschedule") /\ Quietly
    BY <1>6 DEF Schedule
  <2>2. proc' = made \/ Goto(p, "reschedule") => Elsewhere(p)
    BY SubsFacts DEF Goto, Elsewhere, Local
  <2>3. Live(i) => new.born = subs[i].born /\ new.status \in LiveStatus
    BY <1>0 DEF Sub
  <2> HIDE DEF made, new
  <2> QED BY <2>1, <2>2, <2>3, ThrowElsewhere, ChangeElsewhere, EditKept, SameKept DEF Quietly
<1>7. CASE Reschedule(p)
  <2>1. CASE Live(i) /\ subs[i].sched # "none"
    <3>1. Change(p, [subs[i] EXCEPT !.sched = proc[p].target], Pc(p, "pendRead"))
      BY <1>7, <2>1 DEF Reschedule
    <3>2. Elsewhere(p)
      BY <3>1, PcElsewhere, ChangeElsewhere
    <3>3. Kept
      BY <1>0, <3>1, EditKept DEF Sub
    <3> QED BY <3>2, <3>3
  <2>2. CASE ~(Live(i) /\ subs[i].sched # "none")
    BY <1>7, <2>2, RollbackElsewhere, SameKept DEF Reschedule, Quietly
  <2> QED BY <2>1, <2>2
<1>8. CASE RbRelease(p)
  <2>1. Elsewhere(p)
    BY <1>8, RollbackElsewhere DEF RbRelease
  <2>2. Kept
    BY <1>0, <1>8, ChangeKept, SameKept DEF RbRelease, Sub
  <2> QED BY <2>1, <2>2
<1>9. CASE RbCancel(p)
  <2>1. Elsewhere(p)
    BY <1>9, EndedElsewhere DEF RbCancel, Rollback
  <2>2. Kept
    BY <1>0, <1>9, ChangeKept, SameKept DEF RbCancel, Sub
  <2> QED BY <2>1, <2>2
<1> QED BY <1>1, <1>2, <1>3, <1>4, <1>5, <1>6, <1>7, <1>8, <1>9 DEF PlanChange

(* The beginning of a call, its failure and the passing of time.             *)
LEMMA BeginElsewhere ==
    ASSUME TypeInv, NEW p \in Procs, NEW op, NEW ev, NEW target, NEW pc,
           pc \notin {"trialCreate", "recCreate"}, Begin(p, op, pc, ev, target)
    PROVE  Kept /\ Elsewhere(p)
  BY SameKept, SubsFacts DEF Begin, Elsewhere, Idle

LEMMA OutsideStays ==
    ASSUME TypeInv,
           \/ \E h \in Hooks : Webhook(h)
           \/ \E g \in Pages : PageLoad(g)
           \/ \E a \in Admins : AdminActs(a)
           \/ \E p \in Procs : CallFails(p)
           \/ SnapshotAges \/ CopyExpires \/ LockExpires
    PROVE  Kept /\ Stays
<1>1. ASSUME NEW h \in Hooks, Webhook(h) PROVE Kept /\ Stays
  <2>1. h \in Procs
    BY DEF Procs
  <2>2. PICK e \in events :
          Begin(h, "hook", IF e.kind = "pay" THEN "payRead" ELSE "recList", e, "none")
    BY <1>1 DEF Webhook
  <2> QED BY <2>1, <2>2, BeginElsewhere, ElsewhereStays
<1>2. ASSUME NEW g \in Pages, PageLoad(g) PROVE Kept /\ Stays
  <2>1. g \in Procs
    BY DEF Procs
  <2>2. Kept
    BY <1>2, SameKept DEF PageLoad
  <2>3. PICK l \in {[Idle EXCEPT !.op = "page", !.pc = "tryLock"],
                    [Idle EXCEPT !.op = "page", !.pc = "cacheFill", !.snap = row]} :
          proc' = [proc EXCEPT ![g] = l]
    BY <1>2 DEF PageLoad, CacheGet
  <2>4. l.pc \in {"tryLock", "cacheFill"}
    BY DEF Idle
  <2>5. Elsewhere(g)
    BY <2>1, <2>3, <2>4, SubsFacts DEF Elsewhere
  <2> QED BY <2>1, <2>2, <2>5, ElsewhereStays
<1>3. ASSUME NEW a \in Admins, AdminActs(a) PROVE Kept /\ Stays
  <2>1. a \in Procs
    BY DEF Procs
  <2>2. PICK op \in left.acts :
          CASE op = "hobby" -> Begin(a, op, "recList", NoEvent, "none")
            [] op = "trial" -> Begin(a, op, "trialCheck", NoEvent, "none")
            [] op = "undo" -> Begin(a, op, "choose", NoEvent, "none")
            [] op = "switch" -> \E target \in Plans : Begin(a, op, "choose", NoEvent, target)
    BY <1>3 DEF AdminActs
  <2>3. op \in Acts
    BY RowFacts DEF Left
  <2>4. \E pc \in {"recList", "trialCheck", "choose"}, target \in Plans \cup {"none"} :
          Begin(a, op, pc, NoEvent, target)
    BY <2>2, <2>3 DEF Acts
  <2> QED BY <2>1, <2>4, BeginElsewhere, ElsewhereStays
<1>4. ASSUME NEW p \in Procs, CallFails(p) PROVE Kept /\ Stays
  <2>1. Kept
    BY <1>4, SameKept DEF CallFails
  <2>2. Elsewhere(p)
    BY <1>4, RollbackElsewhere, EndedElsewhere DEF CallFails
  <2> QED BY <2>1, <2>2, ElsewhereStays
<1>5. ASSUME SnapshotAges PROVE Kept /\ Stays
  <2>1. \A p \in Procs : proc'[p].pc = proc[p].pc /\ proc'[p].n = proc[p].n
    BY <1>5, SubsFacts DEF SnapshotAges, Local
  <2> QED BY <1>5, <2>1, SameKept DEF SnapshotAges, Stays, At
<1>6. ASSUME CopyExpires \/ LockExpires PROVE Kept /\ Stays
  BY <1>6, SameKept DEF CopyExpires, LockExpires, Stays, At
<1> QED BY <1>1, <1>2, <1>3, <1>4, <1>5, <1>6

LEMMA ServiceSteps ==
    ASSUME TypeInv, ServiceActs
    PROVE  /\ Stays
           /\ \/ Kept
              \/ /\ idem' = idem
                 /\ \E plan \in Plans : Created(NewSub(plan, "active", "checkout"))
<1>1. Stays
  BY DEF ServiceActs, Stays, At
<1>2. subs \in [SubIds -> Sub] /\ \A i : Live(i) => subs[i].status \in LiveStatus /\ i \in SubIds
  BY SubsFacts DEF Live
<1>3. ASSUME NEW i \in SubIds, PortalCancels(i) PROVE Kept
  <2>1. subs' = [subs EXCEPT ![i] = [subs[i] EXCEPT !.ends = TRUE]]
    BY <1>2, <1>3 DEF PortalCancels
  <2>2. subs[i] \in Sub
    BY <1>2
  <2>3. [subs[i] EXCEPT !.ends = TRUE].born = subs[i].born
        /\ [subs[i] EXCEPT !.ends = TRUE].status = subs[i].status
    BY <2>2 DEF Sub
  <2> QED BY <1>2, <1>3, <2>1, <2>3 DEF PortalCancels, Kept
<1>4. ASSUME NEW i \in SubIds, PeriodEnds(i) PROVE Kept
  <2>1. Live(i) /\ subs[i] \in Sub
    BY <1>2, <1>4 DEF PeriodEnds
  <2> DEFINE canceled == NewSub(subs[i].plan, "canceled", subs[i].born)
             moved == [subs[i] EXCEPT
                !.status = "active",
                !.plan = IF subs[i].sched \in Plans THEN subs[i].sched ELSE @,
                !.sched = IF @ \in Plans THEN "none" ELSE @]
  <2>2. canceled.born = subs[i].born /\ canceled.status \in LiveStatus \cup {"canceled"}
    BY DEF NewSub
  <2>3. moved.born = subs[i].born /\ moved.status \in LiveStatus \cup {"canceled"}
    BY <2>1 DEF Sub, LiveStatus
  <2>4. ChangeSub(i, canceled) \/ ChangeSub(i, moved)
    BY <1>4 DEF PeriodEnds
  <2> HIDE DEF canceled, moved
  <2> QED BY <2>1, <2>2, <2>3, <2>4, ChangeKept
<1>5. ASSUME NEW i \in SubIds, PaymentConfirmed(i) PROVE Kept
  <2>1. Live(i) /\ subs[i] \in Sub /\ subs[i].status \in LiveStatus
    BY <1>2, <1>5 DEF PaymentConfirmed
  <2> DEFINE new == [subs[i] EXCEPT !.plan = subs[i].hold, !.hold = "none"]
  <2>2. new.born = subs[i].born /\ new.status \in LiveStatus \cup {"canceled"}
    BY <2>1 DEF Sub
  <2>3. ChangeSub(i, new)
    BY <1>5 DEF PaymentConfirmed
  <2> HIDE DEF new
  <2> QED BY <2>1, <2>2, <2>3, ChangeKept
<1>6. ASSUME PaymentFails PROVE Kept
  BY <1>6 DEF PaymentFails, Kept
<1>7. ASSUME NEW plan \in Plans, CheckoutCompletes(plan)
      PROVE  idem' = idem /\ Created(NewSub(plan, "active", "checkout"))
  BY <1>7 DEF CheckoutCompletes, Created
<1> QED BY <1>1, <1>3, <1>4, <1>5, <1>6, <1>7 DEF ServiceActs

-----------------------------------------------------------------------------
(* The start of a trial                                                      *)

LEMMA KeysApart ==
    /\ TrialKey \in Keys /\ HobbyKey(0) \in Keys
    /\ \A n \in 0..MaxSubs : HobbyKey(n) \in Keys /\ HobbyKey(n) # TrialKey
  BY StripeAssumption DEF TrialKey, HobbyKey, Keys

LEMMA TrialCheckStep ==
    ASSUME TypeInv, NEW p \in Procs, TrialCheck(p)
    PROVE  /\ Kept
           /\ \A q \in Procs : /\ At(q, "recCreate")' => At(q, "recCreate") /\ proc'[q].n = proc[q].n
                               /\ At(q, "trialCreate")' =>
                                     At(q, "trialCreate") \/ Born("trial") = {}
<1>1. CASE TrialUsed
  BY <1>1, ThrowElsewhere, ElsewhereStays DEF TrialCheck, Stays
<1>2. CASE ~TrialUsed
  <2>1. Born("trial") = {}
    BY <1>2 DEF TrialUsed, Born
  <2>2. Kept
    BY <1>2, SameKept DEF TrialCheck, Quietly
  <2>3. proc' = [proc EXCEPT ![p].pc = "trialCreate"]
    BY <1>2 DEF TrialCheck, Goto
  <2>4. \A q \in Procs : At(q, "recCreate")' => At(q, "recCreate") /\ proc'[q].n = proc[q].n
    BY <2>3, SubsFacts DEF At, Local
  <2> QED BY <2>1, <2>2, <2>4
<1> QED BY <1>1, <1>2

LEMMA TrialCreateStep ==
    ASSUME TypeInv, NEW p \in Procs, TrialCreate(p)
    PROVE  /\ Stays
           /\ \/ Kept
              \/ /\ idem[TrialKey] = 0 /\ idem' = [idem EXCEPT ![TrialKey] = used + 1]
                 /\ Created(NewSub("pro", "trialing", "trial"))
<1>1. Elsewhere(p)
  BY SubsFacts DEF TrialCreate, Goto, Elsewhere, Local
<1>2. CASE idem[TrialKey] # 0
  BY <1>1, <1>2, SameKept, ElsewhereStays DEF TrialCreate, CreateSub
<1>3. CASE idem[TrialKey] = 0
  BY <1>1, <1>3, ElsewhereStays DEF TrialCreate, CreateSub, Created
<1> QED BY <1>2, <1>3

LEMMA CreatedTyped ==
    /\ NewSub("pro", "trialing", "trial") \in Sub /\ NewSub("hobby", "active", "hobby") \in Sub
    /\ \A plan \in Plans : NewSub(plan, "active", "checkout") \in Sub
    /\ \A plan, status, born : NewSub(plan, status, born).born = born
                               /\ NewSub(plan, status, born).status = status
  BY SubTyped DEF NewSub, Plans, LiveStatus

LEMMA StartTrialKeyed ==
    ASSUME TypeInv, NEW p \in Procs, StartTrial(p)
    PROVE  (TrialKeyed => TrialKeyed') /\ (HobbyKeyed => HobbyKeyed')
<1>0. 1..used \subseteq SubIds /\ "trialing" \in LiveStatus
  BY SubsFacts DEF LiveStatus
<1>1. CASE TrialCheck(p)
  <2>1. Kept
    BY <1>1, TrialCheckStep
  <2>2. ASSUME TrialKeyed PROVE TrialKeyed'
    <3>1. Born("trial")' = Born("trial") /\ OneTrial' /\ idem' = idem
      BY <1>0, <2>1, <2>2 DEF Kept, Born, TrialKeyed, OneTrial
    <3> QED BY <1>1, <2>2, <3>1, TrialCheckStep DEF TrialKeyed, TrialKey
  <2>3. ASSUME HobbyKeyed PROVE HobbyKeyed'
    <3>1. Born("hobby")' = Born("hobby") /\ (NoneCanceled' => NoneCanceled) /\ idem' = idem
      BY <1>0, <2>1 DEF Kept, Born, NoneCanceled, Live, LiveStatus
    <3>2. (\A i \in 1..used : subs[i].status # "none")'
      BY <1>0, <2>1, <2>3 DEF HobbyKeyed, Kept, LiveStatus
    <3> QED BY <1>1, <2>3, <3>1, <3>2, TrialCheckStep DEF HobbyKeyed, HobbyKey
  <2> QED BY <2>2, <2>3
<1>2. CASE TrialCreate(p)
  <2> DEFINE new == NewSub("pro", "trialing", "trial")
  <2>0. Stays /\ new \in Sub /\ new.born = "trial" /\ new.status = "trialing"
    BY <1>2, TrialCreateStep, CreatedTyped
  <2> HIDE DEF new
  <2>1. CASE Kept
    BY <2>0, <2>1, KeptTrial, KeptHobby
  <2>2. CASE /\ idem[TrialKey] = 0 /\ idem' = [idem EXCEPT ![TrialKey] = used + 1]
             /\ Created(new)
    <3>1. idem'[TrialKey] # 0 /\ idem'[HobbyKey(0)] = idem[HobbyKey(0)]
      BY <2>2, KeysApart, SubsFacts
    <3>2. HobbyKeyed => HobbyKeyed'
      BY <1>0, <2>0, <2>2, <3>1, BesideHobby
    <3>3. ASSUME TrialKeyed PROVE TrialKeyed'
      <4>1. Born("trial") = {}
        BY <1>2, <2>2, <3>3 DEF TrialKeyed, TrialCreate
      <4>2. \A i \in 1..used' : subs'[i].born = "trial" => i = used + 1
        BY <1>0, <2>2, <4>1, SubsFacts DEF Created, Born, SubIds
      <4>3. OneTrial'
        BY <4>2 DEF OneTrial
      <4> QED BY <3>1, <4>3 DEF TrialKeyed, TrialKey
    <3> QED BY <3>2, <3>3
  <2> QED BY <1>2, <2>1, <2>2, TrialCreateStep DEF new
<1> QED BY <1>1, <1>2 DEF StartTrial

-----------------------------------------------------------------------------
(* The creation of a hobby subscription                                      *)

LEMMA FreshKeyed ==
    ASSUME TypeInv, NEW p \in Procs, RecFresh(p)
    PROVE  (TrialKeyed => TrialKeyed') /\ (HobbyKeyed => HobbyKeyed')
<1>0. 1..used \subseteq SubIds /\ used \in Nat
  BY SubsFacts
<1>1. Kept
  BY SameKept DEF RecFresh, Quietly
<1>2. CASE LiveIds # {}
  <2>1. Elsewhere(p)
    BY <1>2, ToSyncElsewhere DEF RecFresh
  <2> QED BY <1>1, <2>1, ElsewhereStays, KeptTrial, KeptHobby
<1>3. CASE LiveIds = {}
  <2>1. proc' = [proc EXCEPT ![p].pc = "recCreate", ![p].n = used]
    BY <1>3 DEF RecFresh
  <2>2. \A q \in Procs : /\ At(q, "trialCreate")' => At(q, "trialCreate")
                         /\ q # p => proc'[q] = proc[q]
                         /\ q = p => proc'[q].n = used
    BY <2>1, SubsFacts DEF At, Local
  <2>3. ASSUME TrialKeyed PROVE TrialKeyed'
    <3>1. Born("trial")' = Born("trial") /\ OneTrial' /\ idem' = idem
      BY <1>0, <1>1, <2>3 DEF Kept, Born, TrialKeyed, OneTrial
    <3> QED BY <2>2, <2>3, <3>1 DEF TrialKeyed, TrialKey
  <2>4. ASSUME HobbyKeyed PROVE HobbyKeyed'
    <3>1. Born("hobby")' = Born("hobby") /\ (NoneCanceled' => NoneCanceled) /\ idem' = idem
      BY <1>0, <1>1 DEF Kept, Born, NoneCanceled, Live, LiveStatus
    <3>2. (\A i \in 1..used : subs[i].status # "none")'
      BY <1>0, <1>1, <2>4 DEF HobbyKeyed, Kept, LiveStatus
    <3>3. ASSUME NoneCanceled PROVE used = 0
      <4>1. \A i \in 1..used : subs[i].status \in LiveStatus
        BY <1>0, <2>4, <3>3, SubsFacts DEF HobbyKeyed, NoneCanceled, Sub
      <4>2. 1..used = {}
        BY <1>0, <1>3, <4>1 DEF LiveIds, Live
      <4>3. used > 0 => 1 \in 1..used
        BY <1>0
      <4> QED BY <1>0, <4>2, <4>3
    <3>4. ASSUME NoneCanceled', NEW q \in Procs, At(q, "recCreate")'
          PROVE  proc'[q].n = 0 /\ (Born("hobby")' # {} => idem'[HobbyKey(0)] # 0)
      <4>1. used = 0 /\ Born("hobby") = {}
        BY <3>1, <3>3, <3>4 DEF Born
      <4> QED BY <2>2, <2>4, <3>1, <3>4, <4>1 DEF HobbyKeyed, At
    <3> QED BY <2>4, <3>1, <3>2, <3>4 DEF HobbyKeyed, HobbyKey
  <2> QED BY <2>3, <2>4
<1> QED BY <1>2, <1>3

LEMMA CreateKeyed ==
    ASSUME TypeInv, NEW p \in Procs, RecCreate(p)
    PROVE  (TrialKeyed => TrialKeyed') /\ (HobbyKeyed => HobbyKeyed')
<1> DEFINE new == NewSub("hobby", "active", "hobby")
           key == HobbyKey(proc[p].n)
<1>0. /\ 1..used \subseteq SubIds /\ used \in Nat
      /\ new \in Sub /\ new.born = "hobby" /\ new.status = "active" /\ "active" \in LiveStatus
  BY SubsFacts, CreatedTyped DEF LiveStatus
<1>1. Stays
  BY ToSyncElsewhere, ElsewhereStays DEF RecCreate
<1>2. key \in Keys /\ key # TrialKey
  BY KeysApart, SubsFacts DEF Local
<1>3. CASE idem[key] # 0
  BY <1>1, <1>3, SameKept, KeptTrial, KeptHobby DEF RecCreate, CreateSub, EnsureHobbyKey
<1>4. CASE idem[key] = 0
  <2>1. Created(new) /\ idem' = [idem EXCEPT ![key] = used + 1]
    BY <1>4 DEF RecCreate, CreateSub, EnsureHobbyKey, Created
  <2>2. idem'[TrialKey] = idem[TrialKey] /\ idem'[key] # 0
    BY <1>0, <1>2, <2>1, KeysApart, SubsFacts
  <2>3. TrialKeyed => TrialKeyed'
    <3> HIDE DEF new, key
    <3> QED BY <1>0, <1>1, <2>1, <2>2, BesideTrial
  <2>4. ASSUME HobbyKeyed PROVE HobbyKeyed'
    <3>1. (NoneCanceled' => NoneCanceled) /\ (\A i \in 1..used : subs[i].status # "none")'
      <4> HIDE DEF new
      <4> QED BY <1>0, <2>1, <2>4, SubsFacts DEF Created, NoneCanceled, HobbyKeyed, SubIds, LiveStatus
    <3>2. ASSUME NoneCanceled
          PROVE  /\ proc[p].n = 0 /\ Born("hobby") = {}
                 /\ \A i, j \in Born("hobby")' : i = j
      <4>1. proc[p].n = 0 /\ Born("hobby") = {}
        BY <1>4, <2>4, <3>2 DEF HobbyKeyed, RecCreate
      <4>2. \A i \in 1..used' : subs'[i].born = "hobby" => i = used + 1
        BY <1>0, <2>1, <4>1, SubsFacts DEF Created, Born, SubIds
      <4> QED BY <4>1, <4>2 DEF Born
    <3>3. ASSUME NoneCanceled', NEW q \in Procs, At(q, "recCreate")'
          PROVE  proc'[q].n = 0 /\ idem'[HobbyKey(0)] # 0
      BY <1>1, <2>2, <2>4, <3>1, <3>2, <3>3 DEF Stays, HobbyKeyed
    <3> QED BY <3>1, <3>2, <3>3 DEF HobbyKeyed, HobbyKey
  <2> QED BY <2>3, <2>4
<1> QED BY <1>3, <1>4

-----------------------------------------------------------------------------
(* All steps                                                                 *)

Keyed == TypeInv /\ TrialKeyed /\ HobbyKeyed

LEMMA KeptKeyed == ASSUME Keyed, TypeInv', Kept, Stays PROVE Keyed'
  BY KeptTrial, KeptHobby DEF Keyed

LEMMA StepKeyed == ASSUME Keyed, NEW p \in Procs, Step(p) PROVE Keyed'
<1>1. TypeInv'
  BY StepTyped DEF Keyed
<1>2. CASE Sync(p) \/ SmallWrites(p) \/ ReadThrough(p) \/ RecList(p) \/ RecCancel(p) \/ PlanChange(p)
  BY <1>1, <1>2, SyncElsewhere, ReconcileElsewhere, PlanChangeElsewhere, ElsewhereStays,
     KeptKeyed DEF Keyed
<1>3. CASE StartTrial(p) \/ RecFresh(p) \/ RecCreate(p)
  BY <1>1, <1>3, StartTrialKeyed, FreshKeyed, CreateKeyed DEF Keyed
<1> QED BY <1>2, <1>3 DEF Step, Reconcile

LEMMA ServiceKeyed == ASSUME Keyed, ServiceActs PROVE Keyed'
<1>1. TypeInv' /\ TypeInv
  BY ServiceTyped DEF Keyed
<1>2. CASE Kept
  BY <1>1, <1>2, ServiceSteps, KeptKeyed
<1>3. ASSUME idem' = idem, NEW plan \in Plans, Created(NewSub(plan, "active", "checkout"))
      PROVE  Keyed'
  <2> DEFINE new == NewSub(plan, "active", "checkout")
  <2>1. /\ new \in Sub /\ new.born = "checkout" /\ new.status \in LiveStatus
        /\ Created(new) /\ Stays
    BY <1>1, <1>3, CreatedTyped, ServiceSteps DEF LiveStatus
  <2>2. idem'[TrialKey] = idem[TrialKey] /\ idem'[HobbyKey(0)] = idem[HobbyKey(0)]
    BY <1>3
  <2> HIDE DEF new
  <2> QED BY <1>1, <2>1, <2>2, BesideTrial, BesideHobby DEF Keyed
<1> QED BY <1>1, <1>2, <1>3, ServiceSteps

(* Without a call before a create call, the keys may go.                     *)
LEMMA PruneKeyed == ASSUME Keyed, PruneIdleKeys PROVE Keyed'
<1>1. TypeInv'
  BY ServiceTyped DEF Keyed
<1>2. UNCHANGED <<subs, used, proc>> /\ \A p \in Procs : ~At(p, "recCreate") /\ ~At(p, "trialCreate")
  BY DEF PruneIdleKeys, PruneKeys
<1>3. TrialKeyed'
  BY <1>2 DEF Keyed, TrialKeyed, OneTrial, At
<1>4. HobbyKeyed'
  BY <1>2 DEF Keyed, HobbyKeyed, NoneCanceled, Born, At
<1> QED BY <1>1, <1>3, <1>4 DEF Keyed

LEMMA KeyedInit == Init => Keyed
<1> SUFFICES ASSUME Init PROVE Keyed
  OBVIOUS
<1>1. TypeInv /\ MaxSubs \in Nat \ {0}
  BY TypeInit, StripeAssumption
<1>2. left.start = NoSub \/ left.start.status \in LiveStatus
  BY StripeAssumption DEF Init, StripeInit
<1>3. /\ used \in {0, 1} /\ (used = 1 => left.start # NoSub)
      /\ subs = [i \in SubIds |-> IF i = 1 THEN left.start ELSE NoSub]
  BY DEF Init, StripeInit
<1>4. \A i \in 1..used : i = 1 /\ subs[i].status # "none"
  BY <1>1, <1>2, <1>3 DEF SubIds, LiveStatus
<1>5. \A p \in Procs : ~At(p, "trialCreate") /\ ~At(p, "recCreate")
  BY DEF Init, RowInit, At, Idle
<1>6. TrialKeyed
  BY <1>4, <1>5 DEF TrialKeyed, OneTrial
<1>7. HobbyKeyed
  BY <1>4, <1>5 DEF HobbyKeyed, Born
<1> QED BY <1>1, <1>6, <1>7 DEF Keyed

LEMMA KeyedNext == Keyed /\ [Next]_billingVars => Keyed'
<1> SUFFICES ASSUME Keyed, [Next]_billingVars PROVE Keyed'
  OBVIOUS
<1>1. CASE UNCHANGED billingVars
  <2>1. TypeInv'
    BY <1>1, TypeNext DEF Keyed
  <2>2. Kept /\ Stays
    BY <1>1, SameKept DEF billingVars, Stays, At
  <2> QED BY <2>1, <2>2, KeptKeyed
<1>2. CASE Next
  <2>1. TypeInv /\ TypeInv'
    BY TypeNext DEF Keyed
  <2>2. CASE \/ \E h \in Hooks : Webhook(h)
             \/ \E g \in Pages : PageLoad(g)
             \/ \E a \in Admins : AdminActs(a)
             \/ \E p \in Procs : CallFails(p)
             \/ SnapshotAges \/ CopyExpires \/ LockExpires
    BY <2>1, <2>2, OutsideStays, KeptKeyed
  <2>3. CASE \E p \in Procs : Step(p)
    BY <2>3, StepKeyed
  <2> QED BY <1>2, <2>2, <2>3, PruneKeyed, ServiceKeyed DEF Next
<1> QED BY <1>1, <1>2

(* There is never a second pro trial, however many admins start one at the   *)
(* same time, with whatever failures, as long as a key outlives the requests *)
(* that use it (createProTrialSubscription).                                 *)
THEOREM TrialOnce == Spec => []OneTrial
<1>1. Keyed => OneTrial
  BY DEF Keyed, TrialKeyed
<1> QED BY <1>1, KeyedInit, KeyedNext, PTL DEF Spec

(* However many webhooks and admins reconcile at the same time, one hobby    *)
(* subscription is created between them, as long as none was ever canceled   *)
(* (ensureHobbySubscription).                                                *)
THEOREM HobbyOnce == Spec => []OneHobbyUntilCancel
<1>1. Keyed => OneHobbyUntilCancel
  BY DEF Keyed, HobbyKeyed, NoneCanceled, Born, OneHobbyUntilCancel
<1> QED BY <1>1, KeyedInit, KeyedNext, PTL DEF Spec
=============================================================================
