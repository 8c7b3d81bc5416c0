--------------------------- MODULE MigrationProofs --------------------------
(***************************************************************************)
(* A data migration runs once, on the schema of the migrations before it,    *)
(* and a record of one is true: for any history of schema and data           *)
(* migrations, any releases, any number of containers and faults.            *)
(***************************************************************************)
EXTENDS MigrationRunner, TLAPS, WellFoundedInduction

-----------------------------------------------------------------------------
(* The history and the releases                                              *)

LEMMA Numbers ==
    /\ Migrations \subseteq Nat \ {0}
    /\ \A m \in Migrations, k \in Nat \ {0} : k <= m => k \in Migrations
    /\ Data \subseteq Migrations
    /\ Schema = Migrations \ Data
    /\ MaxFaults \in Nat
<1>1. History \in Seq({"schema", "data"}) /\ DOMAIN History = 1..Len(History) /\ Len(History) \in Nat
  BY HistoryAssumption
<1> QED BY <1>1, HistoryAssumption DEF Migrations, Data, Schema

LEMMA Places ==
    /\ \A m \in Migrations : m \in Nat /\ m >= 1
    /\ \A m \in Data \cup Schema : m \in Nat /\ m >= 1
    /\ Data \cap Schema = {}
<1>1. \A m \in Migrations : m \in Nat /\ m >= 1 BY Numbers
<1> QED BY <1>1, Numbers

LEMMA Shipped ==
    /\ 1 \in DOMAIN Releases
    /\ \A i \in DOMAIN Releases : Releases[i] \in Migrations /\ Releases[1] <= Releases[i]
    /\ \A i \in DOMAIN Releases : i < Len(Releases) => i + 1 \in DOMAIN Releases
<1>1. /\ Releases \in Seq(Migrations) /\ Releases # <<>>
      /\ DOMAIN Releases = 1..Len(Releases) /\ Len(Releases) \in Nat \ {0}
  BY HistoryAssumption
<1> QED BY <1>1, HistoryAssumption

(* The next data migration, or the end, exists and is the first.             *)
LEMMA NextIs ==
    ASSUME NEW last \in Migrations, NEW i \in 1..(last + 1)
    PROVE  LET d == NextData(i, last) IN
           /\ d \in i..(last + 1)
           /\ d \in Data \cup {last + 1}
           /\ \A e \in Data : i <= e => d <= e
<1> DEFINE T == {d \in 1..(last + 1) : d >= i /\ d \in Data \cup {last + 1}}
<1>0. last \in Nat \ {0} /\ Data \subseteq Nat BY Numbers
<1>1. T \subseteq Nat /\ T # {}
  <2>1. last + 1 \in T BY <1>0
  <2> QED BY <2>1, <1>0
<1>2. IsWellFoundedOn({ss \in Nat \X Nat : ss[1] < ss[2]}, Nat)
  BY NatLessThanWellFounded DEF OpToRel
<1> HIDE DEF T
<1>3. PICK d \in T : \A e \in T : ~(<<e, d>> \in {ss \in Nat \X Nat : ss[1] < ss[2]})
  BY <1>1, <1>2, WFMin
<1> USE DEF T
<1>6. ASSUME NEW e \in T PROVE d <= e
  <2>1. e \in Nat /\ d \in Nat BY <1>0
  <2>2. <<e, d>> \in {ss \in Nat \X Nat : ss[1] < ss[2]} <=> e < d
    BY <2>1
  <2> QED BY <1>3, <2>1, <2>2
<1>4. /\ d \in 1..(last + 1) /\ d >= i /\ d \in Data \cup {last + 1}
      /\ \A e \in Data : i <= e /\ e <= last => d <= e
  BY <1>0, <1>3, <1>6
<1>5. LET x == NextData(i, last) IN
      /\ x \in 1..(last + 1) /\ x >= i /\ x \in Data \cup {last + 1}
      /\ \A e \in Data : i <= e /\ e <= last => x <= e
  BY <1>4 DEF NextData
<1> QED BY <1>0, <1>5

-----------------------------------------------------------------------------
(* A runner on the interleaved path                                          *)

Statuses == {"none", "applied", "failed"}

(* Its directory is the schema before its place, deployed unless it is about *)
(* to be, and the data migrations before its place are recorded.             *)
OnPath(ru, app, rec) ==
    /\ ru.pos \in 1..(ru.last + 1) /\ ru.pos \in Data \cup {ru.last + 1}
    /\ ru.dir = Before(ru.pos)
    /\ ru.pc \notin {"deploy", "deploying"} => ru.dir \subseteq app
    /\ ru.pc = "done" => ru.pos = ru.last + 1
    /\ ru.pc \in {"read", "insert", "run", "mark"} => ru.pos \in Data /\ ru.pos <= ru.last
    /\ \A d \in Data : d < ru.pos => rec[d] # "none"

(* Nothing that is applied or recorded is undone.                            *)
Grows(app, rec, app2, rec2) ==
    /\ app \subseteq app2
    /\ \A d \in Data : rec[d] # "none" => rec2[d] # "none"

LEMMA OnPathGrows ==
    ASSUME NEW ru, NEW app, NEW rec, NEW app2, NEW rec2,
           OnPath(ru, app, rec), Grows(app, rec, app2, rec2)
    PROVE  OnPath(ru, app2, rec2)
  BY DEF OnPath, Grows

LEMMA AfterIs ==
    ASSUME NEW last \in Migrations, NEW d \in 1..(last + 1), d \in Data \cup {last + 1}
    PROVE  /\ After(d, last) \in {"read", "done"}
           /\ After(d, last) = "read" => d \in Data /\ d <= last
           /\ After(d, last) = "done" => d = last + 1
  BY Numbers DEF After

(* What a runner is after its next batch.                                    *)
LEMMA FlushedIs ==
    ASSUME NEW ru \in RunnerSet, ru.last \in Migrations, NEW i \in 1..(ru.last + 1)
    PROVE  LET new == Flushed(ru, i)
               d == NextData(i, ru.last)
               batch == {m \in Schema : i <= m /\ m < d}
           IN /\ new \in RunnerSet
              /\ new.pos = d /\ new.last = ru.last /\ new.snap = ru.snap
              /\ new.fast = ru.fast /\ new.hasLock = FALSE /\ new.dir = ru.dir \cup batch
              /\ new.pc \in {"deploy", "read", "done"}
              /\ new.pc = "read" => d \in Data /\ d <= ru.last
              /\ new.pc = "done" => d = ru.last + 1
              /\ new.pc # "deploy" => batch \subseteq ru.snap
<1> DEFINE d == NextData(i, ru.last)
           batch == {m \in Schema : i <= m /\ m < d}
           pc == IF batch \subseteq ru.snap THEN After(d, ru.last) ELSE "deploy"
<1>1. d \in 1..(ru.last + 1) /\ d \in Data \cup {ru.last + 1} /\ d \in Nat
  <2>0. ru.last \in Nat BY Numbers
  <2>1. ru.last \in Nat /\ i \in Nat /\ i >= 1 BY <2>0
  <2>2. d \in i..(ru.last + 1) /\ d \in Data \cup {ru.last + 1} BY NextIs
  <2> HIDE DEF d
  <2> QED BY <2>1, <2>2
<1>2. /\ pc \in {"deploy", "read", "done"}
      /\ pc = "read" => d \in Data /\ d <= ru.last
      /\ pc = "done" => d = ru.last + 1
      /\ pc # "deploy" => batch \subseteq ru.snap
  BY <1>1, AfterIs
<1>3. Flushed(ru, i) = [ru EXCEPT !.dir = @ \cup batch, !.pos = d, !.hasLock = FALSE, !.pc = pc]
  BY DEF Flushed
<1>4. batch \subseteq Schema
  OBVIOUS
<1> HIDE DEF d, batch, pc
<1>5. LET new == Flushed(ru, i) IN
      /\ new \in RunnerSet
      /\ new.pos = d /\ new.last = ru.last /\ new.snap = ru.snap
      /\ new.fast = ru.fast /\ new.hasLock = FALSE /\ new.dir = ru.dir \cup batch
      /\ new.pc = pc
  BY <1>1, <1>2, <1>3, <1>4 DEF RunnerSet, PCs
<1> QED BY <1>2, <1>5 DEF d, batch

(* It stays on its path when everything before i is behind it.               *)
LEMMA FlushedOnPath ==
    ASSUME NEW ru \in RunnerSet, ru.last \in Migrations, NEW i \in 1..(ru.last + 1),
           NEW app, NEW rec, ru.dir = Before(i), ru.dir \subseteq app, ru.snap \subseteq app,
           \A d \in Data : d < i => rec[d] # "none"
    PROVE  OnPath(Flushed(ru, i), app, rec)
<1> DEFINE new == Flushed(ru, i)
           d == NextData(i, ru.last)
           batch == {m \in Schema : i <= m /\ m < d}
<1>1. /\ d \in i..(ru.last + 1) /\ d \in Data \cup {ru.last + 1}
      /\ \A e \in Data : i <= e => d <= e
  BY NextIs
<1>2. /\ new.pos = d /\ new.last = ru.last /\ new.dir = ru.dir \cup batch
      /\ new.pc \in {"deploy", "read", "done"}
      /\ new.pc = "read" => d \in Data /\ d <= ru.last
      /\ new.pc = "done" => d = ru.last + 1
      /\ new.pc # "deploy" => batch \subseteq ru.snap
  BY FlushedIs
<1> HIDE DEF d, new
<1>3. ru.last \in Nat /\ i \in Nat /\ i >= 1 /\ d \in Nat /\ d >= i /\ d \in 1..(ru.last + 1)
  <2>0. ru.last \in Nat BY Numbers
  <2>1. ru.last \in Nat /\ i \in Nat /\ i >= 1 BY <2>0
  <2> QED BY <1>1, <2>1
<1>4. Schema \subseteq Nat /\ Data \subseteq Nat BY Numbers
<1>5. new.dir = Before(d)
  <2>1. ASSUME NEW m \in Schema PROVE m < d <=> m < i \/ (i <= m /\ m < d)
    BY <1>3, <1>4
  <2>2. Before(d) = Before(i) \cup batch BY <2>1 DEF Before
  <2> QED BY <2>2, <1>2
<1>6. ASSUME NEW e \in Data, e < d PROVE rec[e] # "none"
  <2>1. e \in Nat BY <1>4
  <2>2. ~(i <= e) BY <1>1, <1>3, <1>6, <2>1
  <2>3. e < i BY <1>3, <2>1, <2>2
  <2> QED BY <2>3
<1>7. OnPath(new, app, rec)
  BY <1>1, <1>2, <1>3, <1>5, <1>6 DEF OnPath
<1> QED BY <1>7 DEF new

-----------------------------------------------------------------------------
(* Types and paths                                                           *)

RunnerInv(ru, app, rec) ==
    /\ ru.pc # "idle" => \E i \in DOMAIN Releases : ru.last = Releases[i]
    /\ ru.pc \in {"idle", "count"} => ru.dir = {} /\ ~ru.fast
    /\ ru.snap \subseteq app
    /\ ru.pc \in {"read", "insert", "run", "mark"} => ~ru.fast
    /\ ru.pc = "baseline" => ru.fast
    /\ ru.pc = "mark" => ru.hasLock
    /\ ru.pc \notin {"idle", "count"} /\ ~ru.fast => OnPath(ru, app, rec)
    /\ ru.pc = "done" => \A d \in DataOf(ru.last) : rec[d] # "none"

Paths == \A r \in Runners : RunnerInv(runner[r], applied, record)

RunnerTyped(ru) ==
    /\ ru \in RunnerSet
    /\ ru.pc \in {"read", "insert", "run", "mark"} => ru.pos \in Data
    /\ ru.hasLock => ru.pc \in {"run", "mark"}

(* What a step of runner r does to the runners, and never undoes.            *)
Moves(r) ==
    /\ \E new : /\ runner' = [runner EXCEPT ![r] = new]
                /\ RunnerTyped(new) /\ RunnerInv(new, applied', record')
    /\ Grows(applied, record, applied', record')

LEMMA RunnerInvGrows ==
    ASSUME NEW ru, NEW app, NEW rec, NEW app2, NEW rec2,
           RunnerInv(ru, app, rec), Grows(app, rec, app2, rec2)
    PROVE  RunnerInv(ru, app2, rec2)
<1>1. ru.pc \notin {"idle", "count"} /\ ~ru.fast => OnPath(ru, app2, rec2)
  BY OnPathGrows DEF RunnerInv
<1>2. ru.snap \subseteq app2 BY DEF RunnerInv, Grows
<1>3. ru.pc = "done" => \A d \in DataOf(ru.last) : rec2[d] # "none"
  BY DEF RunnerInv, Grows, DataOf
<1> QED BY <1>1, <1>2, <1>3 DEF RunnerInv

LEMMA LastIs ==
    ASSUME NEW ru, NEW app, NEW rec, RunnerInv(ru, app, rec), ru.pc # "idle"
    PROVE  ru.last \in Migrations /\ Releases[1] <= ru.last
  BY Shipped DEF RunnerInv

LEMMA IdleMoves ==
    ASSUME NEW app PROVE RunnerTyped(Idle) /\ \A rec : RunnerInv(Idle, app, rec)
  BY DEF Idle, RunnerTyped, RunnerSet, PCs, RunnerInv

LEMMA SameGrows == ASSUME NEW app, NEW rec PROVE Grows(app, rec, app, rec)
  BY DEF Grows

(* Then the runners stay typed and on their paths.                           *)
LEMMA MovesOn ==
    ASSUME NEW r \in Runners, Moves(r), TypeOK
    PROVE  /\ runner' \in [Runners -> RunnerSet]
           /\ \A q \in Runners : RunnerTyped(runner'[q])
           /\ Paths => Paths'
<1>0. runner \in [Runners -> RunnerSet] /\ \A q \in Runners : RunnerTyped(runner[q])
  BY DEF TypeOK, TablesTypeOK, RunnerTyped
<1>1. PICK new : /\ runner' = [runner EXCEPT ![r] = new]
                 /\ RunnerTyped(new) /\ RunnerInv(new, applied', record')
  BY DEF Moves
<1>2. \A q \in Runners : runner'[q] = IF q = r THEN new ELSE runner[q]
  BY <1>0, <1>1
<1>3. ASSUME Paths, NEW q \in Runners PROVE RunnerInv(runner'[q], applied', record')
  <2>1. CASE q = r BY <2>1, <1>1, <1>2
  <2>2. CASE q # r
    <3>1. RunnerInv(runner[q], applied, record) BY <1>3 DEF Paths
    <3>2. RunnerInv(runner[q], applied', record') BY <3>1, RunnerInvGrows DEF Moves
    <3> QED BY <3>2, <2>2, <1>2
  <2> QED BY <2>1, <2>2
<1>4. \A q \in Runners : RunnerTyped(runner'[q]) BY <1>0, <1>1, <1>2
<1>5. runner' \in [Runners -> RunnerSet] BY <1>0, <1>1 DEF RunnerTyped
<1> QED BY <1>3, <1>4, <1>5 DEF Paths

(* What a runner knows of itself.                                            *)
LEMMA RunnerFacts ==
    ASSUME NEW r \in Runners, TypeOK, Paths
    PROVE  /\ runner[r] \in RunnerSet /\ RunnerTyped(runner[r])
           /\ RunnerInv(runner[r], applied, record)
           /\ runner[r].pc # "idle" =>
                 runner[r].last \in Migrations /\ Releases[1] <= runner[r].last
           /\ applied \subseteq Schema /\ record \in [Data -> Statuses]
<1>1. /\ runner[r] \in RunnerSet /\ RunnerTyped(runner[r])
      /\ RunnerInv(runner[r], applied, record)
      /\ applied \subseteq Schema /\ record \in [Data -> Statuses]
  BY DEF TypeOK, TablesTypeOK, RunnerTyped, Paths, Statuses
<1> QED BY <1>1, LastIs

LEMMA StartMoves ==
    ASSUME NEW r \in Runners, TypeOK, Paths, Start(r) PROVE Moves(r)
<1> DEFINE new == [Idle EXCEPT !.pc = "count", !.last = Releases[release], !.snap = applied]
<1>1. runner' = [runner EXCEPT ![r] = new] BY DEF Start
<1>2. release \in DOMAIN Releases /\ Releases[release] \in Nat /\ applied \subseteq Schema
  BY Shipped, Numbers DEF TypeOK, TablesTypeOK
<1>3. /\ new \in RunnerSet /\ new.pc = "count" /\ new.last = Releases[release]
      /\ new.snap = applied /\ new.dir = {} /\ new.hasLock = FALSE /\ new.fast = FALSE
  BY <1>2 DEF Idle, RunnerSet, PCs
<1>4. applied' = applied /\ record' = record BY DEF Start, tables
<1> HIDE DEF new
<1>5. RunnerTyped(new) BY <1>3 DEF RunnerTyped
<1>6. RunnerInv(new, applied', record') BY <1>2, <1>3, <1>4 DEF RunnerInv
<1> QED BY <1>1, <1>4, <1>5, <1>6, SameGrows DEF Moves

LEMMA ChooseMoves ==
    ASSUME NEW r \in Runners, TypeOK, Paths, Choose(r) PROVE Moves(r)
<1> DEFINE ru == runner[r]
<1>1. /\ ru \in RunnerSet /\ ru.last \in Migrations /\ ru.pc = "count"
      /\ ru.dir = {} /\ ~ru.fast /\ ~ru.hasLock /\ ru.snap \subseteq applied
      /\ RunnerInv(ru, applied, record) /\ applied \subseteq Schema
  BY RunnerFacts DEF Choose, At, RunnerTyped, RunnerInv
<1>2. applied' = applied /\ record' = record BY DEF Choose, tables
<1>3. CASE runner' = [runner EXCEPT ![r] = FastPath(ru)]
  <2> DEFINE new == FastPath(ru)
  <2>1. /\ new \in RunnerSet /\ new.pc \in {"baseline", "deploy"} /\ new.fast
        /\ new.last = ru.last /\ new.snap = ru.snap /\ new.hasLock = FALSE
    <3>1. ru.last + 1 \in Nat /\ SchemaOf(ru.last) \in SUBSET Schema
      BY <1>1, Places DEF SchemaOf
    <3> HIDE DEF ru
    <3> QED BY <1>1, <3>1 DEF FastPath, RunnerSet, PCs
  <2> HIDE DEF new
  <2>2. RunnerTyped(new) BY <2>1 DEF RunnerTyped
  <2>3. RunnerInv(new, applied, record) BY <1>1, <2>1 DEF RunnerInv
  <2> QED BY <1>2, <1>3, <2>2, <2>3, SameGrows DEF Moves, new
<1>4. CASE runner' = [runner EXCEPT ![r] = Flushed(ru, 1)]
  <2>0. /\ 1 \in 1..(ru.last + 1) /\ Before(1) = {} /\ \A d \in Data : ~(d < 1)
    <3>1. ru.last \in Nat /\ ru.last >= 1 BY <1>1, Places
    <3>2. \A m \in Data \cup Schema : ~(m < 1) BY Places
    <3> QED BY <3>1, <3>2 DEF Before
  <2> DEFINE new == Flushed(ru, 1)
  <2> HIDE DEF ru
  <2>1. OnPath(new, applied, record) BY <1>1, <2>0, FlushedOnPath
  <2>2. /\ new \in RunnerSet /\ new.pc \in {"deploy", "read", "done"} /\ ~new.fast
        /\ new.last = ru.last /\ new.snap = ru.snap /\ new.hasLock = FALSE
    BY <1>1, <2>0, FlushedIs
  <2> HIDE DEF new
  <2>3. RunnerTyped(new) BY <2>1, <2>2 DEF RunnerTyped, OnPath
  <2>4. new.pc = "done" => \A d \in DataOf(new.last) : record[d] # "none"
    <3>1. ASSUME new.pc = "done", NEW d \in DataOf(ru.last) PROVE record[d] # "none"
      <4>1. d \in Data /\ d <= ru.last /\ new.pos = ru.last + 1
        BY <2>1, <2>2, <3>1 DEF OnPath, DataOf
      <4>2. d < new.pos BY <1>1, <4>1, Places
      <4> QED BY <2>1, <4>1, <4>2 DEF OnPath
    <3> QED BY <2>2, <3>1
  <2>5. RunnerInv(new, applied, record) BY <1>1, <2>1, <2>2, <2>4 DEF RunnerInv
  <2> QED BY <1>2, <1>4, <2>3, <2>5, SameGrows DEF Moves, new, ru
<1> QED BY <1>3, <1>4 DEF Choose

LEMMA LeaveMoves ==
    ASSUME NEW r \in Runners, runner' = [runner EXCEPT ![r] = Idle],
           Grows(applied, record, applied', record')
    PROVE  Moves(r)
  BY IdleMoves DEF Moves

LEMMA LockMoves ==
    ASSUME NEW r \in Runners, TypeOK, Paths, Lock(r) PROVE Moves(r)
<1> DEFINE new == [runner[r] EXCEPT !.pc = "deploying"]
<1>1. /\ runner[r] \in RunnerSet /\ RunnerTyped(runner[r]) /\ runner[r].pc = "deploy"
      /\ RunnerInv(runner[r], applied, record)
  BY RunnerFacts DEF Lock, At
<1>2. runner' = [runner EXCEPT ![r] = new] BY DEF Lock
<1>3. applied' = applied /\ record' = record BY DEF Lock, tables
<1>4. RunnerTyped(new) BY <1>1 DEF RunnerTyped, RunnerSet, PCs
<1>5. RunnerInv(new, applied, record) BY <1>1 DEF RunnerInv, RunnerSet, OnPath
<1> HIDE DEF new
<1> QED BY <1>2, <1>3, <1>4, <1>5, SameGrows DEF Moves

(* A runner that only changes the tables.                                    *)
LEMMA TableMoves ==
    ASSUME NEW r \in Runners, TypeOK, Paths, runner' = runner,
           Grows(applied, record, applied', record')
    PROVE  Moves(r)
<1>1. RunnerTyped(runner[r]) /\ RunnerInv(runner[r], applied', record')
  BY RunnerFacts, RunnerInvGrows
<1>2. runner' = [runner EXCEPT ![r] = runner[r]] BY DEF TypeOK, TablesTypeOK
<1> QED BY <1>1, <1>2 DEF Moves

LEMMA DeployedMoves ==
    ASSUME NEW r \in Runners, TypeOK, Paths, Deployed(r) PROVE Moves(r)
<1> DEFINE ru == runner[r]
           pc == IF ru.fast THEN "baseline" ELSE After(ru.pos, ru.last)
           new == [ru EXCEPT !.pc = pc]
<1>1. /\ ru \in RunnerSet /\ RunnerTyped(ru) /\ ru.pc = "deploying"
      /\ RunnerInv(ru, applied, record) /\ ru.last \in Migrations
      /\ ru.dir \subseteq applied
  BY RunnerFacts DEF Deployed, At, Pending
<1>2. runner' = [runner EXCEPT ![r] = new] BY DEF Deployed
<1>3. applied' = applied /\ record' = record BY DEF Deployed, tables
<1>4. CASE ru.fast
  <2>1. new \in RunnerSet /\ new.pc = "baseline" /\ new.fast /\ new.last = ru.last
        /\ new.snap = ru.snap /\ ~new.hasLock
    BY <1>1, <1>4 DEF RunnerSet, PCs, RunnerTyped
  <2> HIDE DEF new
  <2>2. RunnerTyped(new) /\ RunnerInv(new, applied, record)
    BY <1>1, <2>1 DEF RunnerTyped, RunnerInv
  <2> QED BY <1>2, <1>3, <2>2, SameGrows DEF Moves
<1>5. CASE ~ru.fast
  <2>1. OnPath(ru, applied, record) BY <1>1, <1>5 DEF RunnerInv
  <2>2. /\ pc \in {"read", "done"}
        /\ pc = "done" => ru.pos = ru.last + 1
        /\ pc = "read" => ru.pos \in Data /\ ru.pos <= ru.last
    BY <1>1, <1>5, <2>1, AfterIs DEF OnPath
  <2> HIDE DEF pc
  <2>3. /\ new \in RunnerSet /\ new.pc = pc /\ ~new.fast /\ new.last = ru.last
        /\ new.pos = ru.pos /\ new.dir = ru.dir /\ new.snap = ru.snap /\ ~new.hasLock
    <3>1. pc \in PCs BY <2>2 DEF PCs
    <3>2. ~ru.hasLock BY <1>1 DEF RunnerTyped
    <3> HIDE DEF ru
    <3> QED BY <1>1, <1>5, <3>1, <3>2 DEF RunnerSet
  <2> HIDE DEF new, ru
  <2>4. OnPath(new, applied, record) BY <1>1, <2>1, <2>2, <2>3 DEF OnPath
  <2>5. new.pc = "done" => \A d \in DataOf(new.last) : record[d] # "none"
    <3>1. ASSUME new.pc = "done", NEW d \in DataOf(ru.last) PROVE record[d] # "none"
      <4>1. d \in Data /\ d <= ru.last /\ new.pos = ru.last + 1
        BY <2>2, <2>3, <3>1 DEF DataOf
      <4>2. d < new.pos BY <1>1, <4>1, Places
      <4> QED BY <2>4, <4>1, <4>2 DEF OnPath
    <3> QED BY <2>3, <3>1
  <2>6. RunnerTyped(new) /\ RunnerInv(new, applied, record)
    <3>1. RunnerTyped(new) BY <2>2, <2>3 DEF RunnerTyped
    <3>2. RunnerInv(new, applied, record) BY <1>1, <2>2, <2>3, <2>4, <2>5 DEF RunnerInv
    <3> QED BY <3>1, <3>2
  <2> QED BY <1>2, <1>3, <2>6, SameGrows DEF Moves, ru
<1> QED BY <1>4, <1>5

LEMMA DeployMoves ==
    ASSUME NEW r \in Runners, TypeOK, Paths, Deploy(r) \/ DeployFails(r) PROVE Moves(r)
<1>1. CASE Lock(r) BY <1>1, LockMoves
<1>2. CASE Rejected(r) BY <1>2, LeaveMoves, SameGrows DEF Rejected, tables
<1>3. CASE BeginNext(r) BY <1>3, TableMoves, SameGrows DEF BeginNext
<1>4. CASE FinishNext(r)
  <2>1. Grows(applied, record, applied', record') BY <1>4 DEF FinishNext, Grows
  <2> QED BY <1>4, <2>1, TableMoves DEF FinishNext
<1>5. CASE Deployed(r) BY <1>5, DeployedMoves
<1>6. CASE DeployFails(r) BY <1>6, LeaveMoves, SameGrows DEF DeployFails, tables
<1> QED BY <1>1, <1>2, <1>3, <1>4, <1>5, <1>6 DEF Deploy

(* A runner that is done with the data migration at its place.               *)
LEMMA NextBatch ==
    ASSUME NEW r \in Runners, TypeOK, Paths, runner[r].pc \in {"read", "run"},
           Grows(applied, record, applied', record'), record'[runner[r].pos] # "none",
           runner' = [runner EXCEPT ![r] = Flushed(runner[r], runner[r].pos + 1)]
    PROVE  /\ Moves(r)
           /\ runner'[r].pc \in {"deploy", "read", "done"}
           /\ runner'[r].last = runner[r].last /\ ~runner'[r].fast /\ ~runner'[r].hasLock
<1> DEFINE ru == runner[r]
           new == Flushed(ru, ru.pos + 1)
<1>1. /\ ru \in RunnerSet /\ ru.pc \in {"read", "run"} /\ ru.last \in Migrations /\ ~ru.fast
      /\ RunnerInv(ru, applied, record) /\ OnPath(ru, applied, record)
  BY RunnerFacts DEF RunnerInv
<1>2. RunnerInv(ru, applied', record') /\ OnPath(ru, applied', record')
  BY <1>1, RunnerInvGrows, OnPathGrows
<1> HIDE DEF ru
<1>3. /\ ru.pos \in Data /\ ru.pos <= ru.last /\ ru.pos \in Nat /\ ru.last \in Nat
      /\ ru.dir = Before(ru.pos) /\ ru.dir \subseteq applied' /\ ru.snap \subseteq applied'
  <2>1. ru.pos \in Data /\ ru.pos <= ru.last BY <1>1, <1>2 DEF OnPath
  <2>2. ru.dir = Before(ru.pos) /\ ru.dir \subseteq applied' /\ ru.snap \subseteq applied'
    BY <1>1, <1>2 DEF OnPath, RunnerInv
  <2> QED BY <1>1, <2>1, <2>2, Places
<1>4. ru.pos + 1 \in 1..(ru.last + 1) BY <1>3
<1>5. ru.dir = Before(ru.pos + 1)
  <2>1. ASSUME NEW m \in Schema PROVE m < ru.pos + 1 <=> m < ru.pos
    <3>1. m \in Nat /\ m # ru.pos BY <1>3, Places
    <3> QED BY <1>3, <3>1
  <2> QED BY <1>3, <2>1 DEF Before
<1>6. ASSUME NEW d \in Data, d < ru.pos + 1 PROVE record'[d] # "none"
  <2>1. d \in Nat BY Places
  <2>2. d < ru.pos \/ d = ru.pos BY <1>3, <1>6, <2>1
  <2>3. record'[ru.pos] # "none" BY DEF ru
  <2> QED BY <1>2, <2>2, <2>3 DEF OnPath
<1>7. OnPath(new, applied', record')
  BY <1>1, <1>3, <1>4, <1>5, <1>6, FlushedOnPath
<1>8. /\ new \in RunnerSet /\ new.pc \in {"deploy", "read", "done"} /\ ~new.fast
      /\ new.last = ru.last /\ new.snap = ru.snap /\ new.hasLock = FALSE
  BY <1>1, <1>4, FlushedIs
<1> HIDE DEF new
<1>9. RunnerTyped(new) BY <1>7, <1>8 DEF RunnerTyped, OnPath
<1>10. ASSUME new.pc = "done", NEW d \in DataOf(ru.last) PROVE record'[d] # "none"
  <2>1. d \in Data /\ d <= ru.last /\ d \in Nat /\ new.pos = ru.last + 1
    BY <1>7, <1>8, <1>10, Places DEF OnPath, DataOf
  <2>2. d < new.pos BY <1>3, <2>1
  <2> QED BY <1>7, <2>1, <2>2 DEF OnPath
<1>11. RunnerInv(new, applied', record') BY <1>1, <1>2, <1>7, <1>8, <1>10 DEF RunnerInv
<1>12. runner' = [runner EXCEPT ![r] = new] BY DEF new, ru
<1>13. Moves(r) BY <1>9, <1>11, <1>12 DEF Moves
<1>14. runner'[r] = new BY <1>12 DEF TypeOK, TablesTypeOK
<1> QED BY <1>8, <1>13, <1>14 DEF ru

(* A runner that goes on with the data migration at its place.               *)
LEMMA SamePlace ==
    ASSUME NEW r \in Runners, TypeOK, Paths, Grows(applied, record, applied', record'),
           NEW pc \in {"insert", "run", "mark"}, NEW lock \in BOOLEAN,
           pc = "insert" => ~lock, pc = "mark" => lock,
           runner[r].pc \in {"read", "insert", "run"},
           runner' = [runner EXCEPT ![r] = [runner[r] EXCEPT !.pc = pc, !.hasLock = lock]]
    PROVE  Moves(r)
<1> DEFINE ru == runner[r]
           new == [ru EXCEPT !.pc = pc, !.hasLock = lock]
<1>1. /\ ru \in RunnerSet /\ ru.pc \in {"read", "insert", "run"} /\ ~ru.fast
      /\ RunnerInv(ru, applied', record') /\ OnPath(ru, applied', record')
  BY RunnerFacts, RunnerInvGrows DEF RunnerInv
<1>2. /\ new \in RunnerSet /\ new.pc = pc /\ new.hasLock = lock /\ new.fast = ru.fast
      /\ new.pos = ru.pos /\ new.last = ru.last /\ new.dir = ru.dir /\ new.snap = ru.snap
  <2> HIDE DEF ru
  <2> QED BY <1>1 DEF RunnerSet, PCs
<1>3. runner' = [runner EXCEPT ![r] = new] OBVIOUS
<1> HIDE DEF ru, new
<1>4. OnPath(new, applied', record') BY <1>1, <1>2 DEF OnPath
<1>5. RunnerTyped(new) BY <1>2, <1>4 DEF RunnerTyped, OnPath
<1>6. RunnerInv(new, applied', record') BY <1>1, <1>2, <1>4 DEF RunnerInv
<1> QED BY <1>3, <1>5, <1>6 DEF Moves

LEMMA LockAsIs ==
    ASSUME NEW ru \in RunnerSet, NEW pc \in PCs
    PROVE  [ru EXCEPT !.pc = pc] = [ru EXCEPT !.pc = pc, !.hasLock = ru.hasLock]
  BY DEF RunnerSet

LEMMA ReadMoves ==
    ASSUME NEW r \in Runners, TypeOK, Paths, ReadRecord(r) PROVE Moves(r)
<1> DEFINE ru == runner[r]
<1>1. /\ ru \in RunnerSet /\ ru.pc = "read" /\ ru.pos \in Data /\ ru.hasLock = FALSE
      /\ record \in [Data -> Statuses]
  BY RunnerFacts DEF ReadRecord, At, RunnerTyped, RunnerSet
<1>2. Grows(applied, record, applied', record') /\ record' = record
  BY SameGrows DEF ReadRecord, tables
<1>3. \/ record[ru.pos] = "applied"
      \/ record[ru.pos] = "failed"
      \/ record[ru.pos] = "none"
  BY <1>1 DEF Statuses
<1>4. CASE record[ru.pos] = "applied"
  <2>1. runner' = [runner EXCEPT ![r] = Flushed(ru, ru.pos + 1)] BY <1>4 DEF ReadRecord
  <2> QED BY <1>1, <1>2, <1>4, <2>1, NextBatch
<1>5. CASE record[ru.pos] = "failed"
  <2>1. runner' = [runner EXCEPT ![r] = [ru EXCEPT !.pc = "run", !.hasLock = FALSE]]
    BY <1>1, <1>5, LockAsIs DEF ReadRecord, PCs
  <2> QED BY <1>1, <1>2, <2>1, SamePlace
<1>6. CASE record[ru.pos] = "none"
  <2>1. runner' = [runner EXCEPT ![r] = [ru EXCEPT !.pc = "insert", !.hasLock = FALSE]]
    BY <1>1, <1>6, LockAsIs DEF ReadRecord, PCs
  <2> QED BY <1>1, <1>2, <2>1, SamePlace
<1> QED BY <1>3, <1>4, <1>5, <1>6

LEMMA InsertMoves ==
    ASSUME NEW r \in Runners, TypeOK, Paths, InsertPending(r) PROVE Moves(r)
<1>1. Grows(applied, record, applied', record') BY SameGrows DEF InsertPending, tables
<1>2. CASE record[runner[r].pos] = "none"
  <2>1. runner' = [runner EXCEPT ![r] = [runner[r] EXCEPT !.pc = "run", !.hasLock = TRUE]]
    BY <1>2 DEF InsertPending
  <2>2. runner[r].pc = "insert" BY DEF InsertPending, At
  <2> QED BY <1>1, <2>1, <2>2, SamePlace
<1>3. CASE record[runner[r].pos] # "none"
  <2>1. runner' = [runner EXCEPT ![r] = Idle] BY <1>3 DEF InsertPending
  <2> QED BY <1>1, <2>1, LeaveMoves
<1> QED BY <1>2, <1>3

LEMMA CommitsGrows ==
    ASSUME NEW d \in Data, record \in [Data -> Statuses], Commits(d), applied' = applied
    PROVE  /\ Grows(applied, record, applied', record')
           /\ record' \in [Data -> Statuses] /\ record'[d] = "applied"
           /\ \A e \in Data \ {d} : record'[e] = record[e]
  BY DEF Commits, Grows, Statuses

LEMMA CommitMoves ==
    ASSUME NEW r \in Runners, TypeOK, Paths, Commit(r) PROVE Moves(r)
<1>1. /\ runner[r].pc = "run" /\ runner[r].pos \in Data /\ record \in [Data -> Statuses]
      /\ Commits(runner[r].pos) /\ applied' = applied
  BY RunnerFacts DEF Commit, At, RunnerTyped
<1>2. Grows(applied, record, applied', record') /\ record'[runner[r].pos] # "none"
  BY <1>1, CommitsGrows
<1>3. runner' = [runner EXCEPT ![r] = Flushed(runner[r], runner[r].pos + 1)] BY DEF Commit
<1> QED BY <1>1, <1>2, <1>3, NextBatch

LEMMA ThrownMoves ==
    ASSUME NEW r \in Runners, TypeOK, Paths, Grows(applied, record, applied', record'),
           runner[r].pc = "run", Thrown(r)
    PROVE  Moves(r)
<1>0. runner[r] \in RunnerSet BY RunnerFacts
<1>1. CASE runner[r].hasLock
  <2>1. runner[r].hasLock = TRUE BY <1>0, <1>1 DEF RunnerSet
  <2>2. runner' = [runner EXCEPT ![r] = [runner[r] EXCEPT !.pc = "mark", !.hasLock = TRUE]]
    BY <1>0, <1>1, <2>1, LockAsIs DEF Thrown, PCs
  <2> QED BY <2>2, SamePlace
<1>2. CASE ~runner[r].hasLock
  <2>1. runner' = [runner EXCEPT ![r] = Idle] BY <1>2 DEF Thrown
  <2> QED BY <2>1, LeaveMoves
<1> QED BY <1>1, <1>2

LEMMA MarkGrows ==
    ASSUME NEW r \in Runners, TypeOK, Paths, MarkFailed(r)
    PROVE  Grows(applied, record, applied', record') /\ record' \in [Data -> Statuses]
<1>1. runner[r].pos \in Data /\ record \in [Data -> Statuses]
  BY RunnerFacts DEF MarkFailed, At, RunnerTyped
<1> QED BY <1>1 DEF MarkFailed, Grows, Statuses

LEMMA BaselineGrows ==
    ASSUME NEW r \in Runners, TypeOK, Paths, Baseline(r)
    PROVE  /\ Grows(applied, record, applied', record') /\ record' \in [Data -> Statuses]
           /\ \A d \in DataOf(runner[r].last) : record'[d] # "none"
<1>1. record \in [Data -> Statuses] BY RunnerFacts
<1>2. DataOf(runner[r].last) \subseteq Data BY DEF DataOf
<1> QED BY <1>1, <1>2 DEF Baseline, Grows, Statuses

LEMMA BaselineMoves ==
    ASSUME NEW r \in Runners, TypeOK, Paths, Baseline(r) PROVE Moves(r)
<1> DEFINE new == [runner[r] EXCEPT !.pc = "done"]
<1>1. /\ runner[r] \in RunnerSet /\ runner[r].pc = "baseline" /\ ~runner[r].hasLock
      /\ RunnerInv(runner[r], applied', record')
      /\ \A d \in DataOf(runner[r].last) : record'[d] # "none"
      /\ Grows(applied, record, applied', record')
  BY RunnerFacts, RunnerInvGrows, BaselineGrows DEF Baseline, At, RunnerTyped
<1>2. runner' = [runner EXCEPT ![r] = new] BY DEF Baseline
<1>3. RunnerTyped(new) BY <1>1 DEF RunnerTyped, RunnerSet, PCs
<1>4. RunnerInv(new, applied', record') BY <1>1 DEF RunnerInv, RunnerSet
<1> HIDE DEF new
<1> QED BY <1>1, <1>2, <1>3, <1>4 DEF Moves

LEMMA StepMoves ==
    ASSUME NEW r \in Runners, TypeOK, Paths, Step(r) \/ Fails(r) PROVE Moves(r)
<1>1. CASE Start(r) BY <1>1, StartMoves
<1>2. CASE Choose(r) BY <1>2, ChooseMoves
<1>3. CASE Deploy(r) \/ DeployFails(r) BY <1>3, DeployMoves
<1>4. CASE DataStep(r)
  <2>1. CASE ReadRecord(r) BY <2>1, ReadMoves
  <2>2. CASE InsertPending(r) BY <2>2, InsertMoves
  <2>3. CASE Commit(r) BY <2>3, CommitMoves
  <2>4. CASE MarkFailed(r)
    <3>1. runner' = [runner EXCEPT ![r] = Idle] BY <2>4 DEF MarkFailed
    <3> QED BY <2>4, <3>1, MarkGrows, LeaveMoves
  <2> QED BY <1>4, <2>1, <2>2, <2>3, <2>4 DEF DataStep
<1>5. CASE Baseline(r) BY <1>5, BaselineMoves
<1>6. CASE Succeed(r) BY <1>6, LeaveMoves, SameGrows DEF Succeed, tables
<1>7. CASE RunFails(r)
  <2>1. Grows(applied, record, applied', record') BY <1>7, SameGrows DEF RunFails, tables
  <2> QED BY <1>7, <2>1, ThrownMoves DEF RunFails, At
<1>8. CASE CommitUnheard(r)
  <2>1. /\ runner[r].pc = "run" /\ runner[r].pos \in Data /\ record \in [Data -> Statuses]
        /\ Commits(runner[r].pos) /\ applied' = applied /\ Thrown(r)
    BY <1>8, RunnerFacts DEF CommitUnheard, At, RunnerTyped
  <2> QED BY <2>1, CommitsGrows, ThrownMoves
<1>9. CASE Die(r) BY <1>9, LeaveMoves, SameGrows DEF Die, tables
<1> QED BY <1>1, <1>2, <1>3, <1>4, <1>5, <1>6, <1>7, <1>8, <1>9 DEF Step, Fails

TablesTyped ==
    /\ release \in DOMAIN Releases /\ inUse \in BOOLEAN
    /\ applied \subseteq Schema
    /\ begun \subseteq Schema /\ \A m, n \in begun : m = n
    /\ record \in [Data -> Statuses]
    /\ faults \in Nat
    /\ runs \in [Data -> Nat]
    /\ misplaced \subseteq Data /\ failedOnce \subseteq Data /\ baselined \subseteq Data
    /\ torn \in BOOLEAN

LEMMA TypesAre ==
    /\ TypeOK <=> /\ TablesTyped
                  /\ runner \in [Runners -> RunnerSet]
                  /\ \A q \in Runners : RunnerTyped(runner[q])
  BY DEF TypeOK, TablesTypeOK, TablesTyped, RunnerTyped, Statuses

LEMMA FaultTyped == ASSUME faults \in Nat, Fault PROVE faults' \in Nat
  BY DEF Fault

LEMMA CommitsTyped ==
    ASSUME NEW d \in Data, TablesTyped, Commits(d), applied' = applied
    PROVE  record' \in [Data -> Statuses] /\ runs' \in [Data -> Nat] /\ misplaced' \subseteq Data
  BY DEF Commits, TablesTyped, Statuses

LEMMA StepTables ==
    ASSUME NEW r \in Runners, TypeOK, Paths, Step(r) \/ Fails(r) PROVE TablesTyped'
<1>0. TablesTyped BY TypesAre
<1>1. runner[r] \in RunnerSet /\ RunnerTyped(runner[r]) BY RunnerFacts
<1>2. CASE Start(r) BY <1>0, <1>2 DEF Start, tables, history, TablesTyped
<1>3. CASE Choose(r)
  <2>1. torn' \in BOOLEAN BY <1>0, <1>3 DEF Choose, TablesTyped
  <2> QED BY <1>0, <1>3, <2>1 DEF Choose, tables, TablesTyped
<1>4. CASE Deploy(r)
  <2>1. CASE BeginNext(r)
    <3>1. begun' \subseteq Schema /\ \A m, n \in begun' : m = n
      <4>1. Pending(r) \subseteq Schema BY <1>1 DEF Pending, RunnerSet
      <4>2. \A m \in Schema : m \in Nat BY Places
      <4> HIDE DEF Pending
      <4>3. begun' = {m \in Pending(r) : \A n \in Pending(r) : m <= n} BY <2>1 DEF BeginNext
      <4>4. ASSUME NEW m \in begun', NEW n \in begun' PROVE m = n
        <5>1. m \in Nat /\ n \in Nat /\ m <= n /\ n <= m BY <4>1, <4>2, <4>3
        <5> QED BY <5>1
      <4> QED BY <4>1, <4>3, <4>4
    <3> QED BY <1>0, <2>1, <3>1 DEF BeginNext, history, TablesTyped
  <2>2. CASE FinishNext(r) BY <1>0, <2>2 DEF FinishNext, history, TablesTyped
  <2>3. CASE Lock(r) \/ Rejected(r) \/ Deployed(r)
    BY <1>0, <2>3 DEF Lock, Rejected, Deployed, tables, history, TablesTyped
  <2> QED BY <1>4, <2>1, <2>2, <2>3 DEF Deploy
<1>5. CASE ReadRecord(r) \/ InsertPending(r)
  BY <1>0, <1>5 DEF ReadRecord, InsertPending, tables, history, TablesTyped
<1>6. CASE Commit(r)
  <2>1. runner[r].pos \in Data BY <1>1, <1>6 DEF Commit, At, RunnerTyped
  <2>2. Commits(runner[r].pos) /\ applied' = applied BY <1>6 DEF Commit
  <2> QED BY <1>0, <1>6, <2>1, <2>2, CommitsTyped DEF Commit, TablesTyped
<1>7. CASE MarkFailed(r)
  <2>1. runner[r].pos \in Data BY <1>1, <1>7 DEF MarkFailed, At, RunnerTyped
  <2> QED BY <1>0, <1>7, <2>1, MarkGrows DEF MarkFailed, TablesTyped
<1>8. CASE Baseline(r)
  <2>1. baselined' \subseteq Data BY <1>0, <1>8 DEF Baseline, TablesTyped, DataOf
  <2> QED BY <1>0, <1>8, <2>1, BaselineGrows DEF Baseline, TablesTyped
<1>9. CASE Succeed(r) BY <1>0, <1>9 DEF Succeed, tables, history, TablesTyped
<1>10. CASE RunFails(r)
  <2>1. faults' \in Nat BY <1>0, <1>10, FaultTyped DEF RunFails, TablesTyped
  <2> QED BY <1>0, <1>10, <2>1 DEF RunFails, tables, history, TablesTyped
<1>11. CASE CommitUnheard(r)
  <2>1. runner[r].pos \in Data BY <1>1, <1>11 DEF CommitUnheard, At, RunnerTyped
  <2>2. Commits(runner[r].pos) /\ applied' = applied BY <1>11 DEF CommitUnheard
  <2>3. faults' \in Nat BY <1>0, <1>11, FaultTyped DEF CommitUnheard, TablesTyped
  <2> QED BY <1>0, <1>11, <2>1, <2>2, <2>3, CommitsTyped DEF CommitUnheard, TablesTyped
<1>12. CASE Die(r) \/ DeployFails(r)
  <2>1. faults' \in Nat BY <1>0, <1>12, FaultTyped DEF Die, DeployFails, TablesTyped
  <2> QED BY <1>0, <1>12, <2>1 DEF Die, DeployFails, tables, history, TablesTyped
<1> QED
  BY <1>2, <1>3, <1>4, <1>5, <1>6, <1>7, <1>8, <1>9, <1>10, <1>11, <1>12
  DEF Step, Fails, DataStep

LEMMA TypesAndPaths == Spec => [](TypeOK /\ Paths)
<1>1. Init => TypeOK /\ Paths
  <2> SUFFICES ASSUME Init PROVE TypeOK /\ Paths OBVIOUS
  <2>1. RunnerTyped(Idle) /\ RunnerInv(Idle, applied, record) BY IdleMoves
  <2>2. TablesTyped BY Shipped DEF Init, TablesInit, TablesTyped, Statuses
  <2>3. \A q \in Runners : runner[q] = Idle BY DEF Init, TablesInit
  <2>4. runner \in [Runners -> RunnerSet] BY <2>1 DEF Init, TablesInit, RunnerTyped
  <2> QED BY <2>1, <2>2, <2>3, <2>4, TypesAre DEF Paths
<1>2. TypeOK /\ Paths /\ [Next]_vars => (TypeOK /\ Paths)'
  <2> SUFFICES ASSUME TypeOK, Paths, [Next]_vars PROVE TypeOK' /\ Paths' OBVIOUS
  <2>1. ASSUME NEW r \in Runners, Step(r) \/ Fails(r) PROVE TypeOK' /\ Paths'
    <3>1. Moves(r) /\ TablesTyped' BY <2>1, StepMoves, StepTables
    <3>2. /\ runner' \in [Runners -> RunnerSet]
          /\ \A q \in Runners : RunnerTyped(runner'[q])
          /\ Paths'
      BY <3>1, MovesOn
    <3> QED BY <3>1, <3>2 DEF TypeOK, TablesTypeOK, TablesTyped, RunnerTyped, Statuses
  <2>2. CASE Upgrade
    <3>1. release' \in DOMAIN Releases
      BY <2>2, Shipped DEF Upgrade, TypeOK, TablesTypeOK
    <3> QED BY <2>2, <3>1 DEF Upgrade, tables, history, TypeOK, TablesTypeOK, Paths
  <2>3. CASE UNCHANGED vars
    BY <2>3 DEF vars, tables, history, TypeOK, TablesTypeOK, Paths
  <2> QED BY <2>1, <2>2, <2>3 DEF Next
<1> QED BY <1>1, <1>2, PTL DEF Spec

(* The types hold in every behaviour, and a runner at a data migration has a *)
(* place that is one.                                                        *)
THEOREM TypeCorrect == Spec => []TypeOK
  BY TypesAndPaths, PTL

-----------------------------------------------------------------------------
(* Once                                                                      *)

(* At the changes of a data migration that never failed there is one runner, *)
(* it has the row, and the row was not there before.                         *)
AtWork(r, d) == At(r, "run") /\ runner[r].pos = d

OnceInv ==
    \A d \in Data \ failedOnce :
        /\ record[d] # "failed"
        /\ runs[d] = 0 \/ (runs[d] = 1 /\ record[d] = "applied")
        /\ \A r \in Runners : AtWork(r, d) => runner[r].hasLock /\ record[d] = "none"
        /\ \A q, r \in Runners : AtWork(q, d) /\ AtWork(r, d) => q = r

LEMMA OthersStay ==
    ASSUME NEW r \in Runners, Moves(r), TypeOK
    PROVE  \A q \in Runners \ {r} : runner'[q] = runner[q]
  BY DEF Moves, TypeOK, TablesTypeOK

(* Steps after which their runner is not at the changes of a migration.      *)
LEMMA NotAtWork ==
    ASSUME NEW r \in Runners, TypeOK, Paths,
           Start(r) \/ Choose(r) \/ Deploy(r) \/ Commit(r) \/ MarkFailed(r) \/ Baseline(r)
             \/ Succeed(r) \/ Fails(r)
    PROVE  runner'[r].pc # "run"
<1>0. /\ runner \in [Runners -> RunnerSet] /\ RunnerTyped(runner[r])
      /\ runner[r] \in RunnerSet /\ RunnerInv(runner[r], applied, record)
      /\ runner[r].pc # "idle" => runner[r].last \in Migrations
      /\ record \in [Data -> Statuses]
  BY RunnerFacts DEF TypeOK, TablesTypeOK
<1>1. CASE Start(r) BY <1>0, <1>1 DEF Start, Idle
<1>2. CASE Choose(r)
  <2>1. 1 \in 1..(runner[r].last + 1) /\ runner[r].last \in Migrations
    BY <1>0, <1>2, Places DEF Choose, At
  <2>2. Flushed(runner[r], 1).pc # "run" BY <1>0, <2>1, FlushedIs
  <2>3. FastPath(runner[r]).pc # "run" BY <1>0 DEF FastPath, RunnerSet
  <2> QED BY <1>0, <1>2, <2>2, <2>3 DEF Choose
<1>3. CASE Deploy(r)
  <2>1. CASE Lock(r) BY <1>0, <2>1 DEF Lock, RunnerSet
  <2>2. CASE Rejected(r) BY <1>0, <2>2 DEF Rejected, Idle
  <2>3. CASE BeginNext(r) \/ FinishNext(r) BY <1>0, <2>3 DEF BeginNext, FinishNext, At
  <2>4. CASE Deployed(r) BY <1>0, <2>4 DEF Deployed, After, RunnerSet
  <2> QED BY <1>3, <2>1, <2>2, <2>3, <2>4 DEF Deploy
<1>4. CASE Commit(r)
  <2>1. /\ runner[r].pc = "run" /\ runner[r].pos \in Data
        /\ Commits(runner[r].pos) /\ applied' = applied
    BY <1>0, <1>4 DEF Commit, At, RunnerTyped
  <2>2. Grows(applied, record, applied', record') /\ record'[runner[r].pos] # "none"
    BY <1>0, <2>1, CommitsGrows
  <2>3. runner' = [runner EXCEPT ![r] = Flushed(runner[r], runner[r].pos + 1)]
    BY <1>4 DEF Commit
  <2>4. runner'[r].pc \in {"deploy", "read", "done"} BY <2>1, <2>2, <2>3, NextBatch
  <2> QED BY <2>4
<1>5. CASE MarkFailed(r) \/ Succeed(r) \/ DeployFails(r) \/ Die(r)
  BY <1>0, <1>5 DEF MarkFailed, Succeed, DeployFails, Die, Idle
<1>6. CASE Baseline(r) BY <1>0, <1>6 DEF Baseline, RunnerSet
<1>7. CASE RunFails(r) \/ CommitUnheard(r)
  BY <1>0, <1>7 DEF RunFails, CommitUnheard, Thrown, Idle, RunnerSet
<1> QED BY <1>1, <1>2, <1>3, <1>4, <1>5, <1>6, <1>7 DEF Fails

(* A step that leaves the records, or only adds to them, and takes nobody to *)
(* the changes of a migration.                                               *)
LEMMA OnceKept ==
    ASSUME NEW r \in Runners, OnceInv, TypeOK, Moves(r), runner'[r].pc # "run",
           record' = record, runs' = runs, failedOnce' = failedOnce
    PROVE  OnceInv'
<1>1. \A q \in Runners, d \in Data : AtWork(q, d)' => q # r /\ AtWork(q, d)
  BY OthersStay DEF AtWork, At
<1>2. \A q \in Runners \ {r} : runner'[q] = runner[q] BY OthersStay
<1> QED BY <1>1, <1>2 DEF OnceInv

(* The runner that committed was the only one at these changes.              *)
LEMMA OnceCommits ==
    ASSUME NEW r \in Runners, OnceInv, TypeOK, Moves(r), runner'[r].pc # "run",
           NEW d \in Data, AtWork(r, d), Commits(d), applied' = applied,
           failedOnce' = failedOnce
    PROVE  OnceInv'
<1>1. \A q \in Runners, e \in Data : AtWork(q, e)' => q # r /\ AtWork(q, e)
  BY OthersStay DEF AtWork, At
<1>2. \A q \in Runners \ {r} : runner'[q] = runner[q] BY OthersStay
<1>3. record \in [Data -> Statuses] /\ runs \in [Data -> Nat]
  BY TypesAre DEF TablesTyped
<1>4. /\ record'[d] = "applied" /\ \A e \in Data \ {d} : record'[e] = record[e]
      /\ runs'[d] = runs[d] + 1 /\ \A e \in Data \ {d} : runs'[e] = runs[e]
  BY <1>3 DEF Commits
<1>5. ASSUME NEW e \in Data \ failedOnce, e # d
      PROVE  /\ record'[e] # "failed"
             /\ runs'[e] = 0 \/ (runs'[e] = 1 /\ record'[e] = "applied")
             /\ \A q \in Runners : AtWork(q, e)' => runner'[q].hasLock /\ record'[e] = "none"
             /\ \A p, q \in Runners : AtWork(p, e)' /\ AtWork(q, e)' => p = q
  BY <1>1, <1>2, <1>4, <1>5 DEF OnceInv
<1>6. ASSUME d \notin failedOnce
      PROVE  /\ runs[d] = 0 /\ \A q \in Runners : ~AtWork(q, d)'
  BY <1>1, <1>6 DEF OnceInv
<1>7. ASSUME d \notin failedOnce
      PROVE  record'[d] # "failed" /\ runs'[d] = 1 /\ record'[d] = "applied"
  BY <1>4, <1>6, <1>7
<1>8. ASSUME NEW e \in Data \ failedOnce'
      PROVE  /\ record'[e] # "failed"
             /\ runs'[e] = 0 \/ (runs'[e] = 1 /\ record'[e] = "applied")
             /\ \A q \in Runners : AtWork(q, e)' => runner'[q].hasLock /\ record'[e] = "none"
             /\ \A p, q \in Runners : AtWork(p, e)' /\ AtWork(q, e)' => p = q
  <2>1. CASE e = d BY <1>6, <1>7, <1>8, <2>1
  <2>2. CASE e # d BY <1>5, <1>8, <2>2
  <2> QED BY <2>1, <2>2
<1> QED BY <1>8 DEF OnceInv

LEMMA OnceRead ==
    ASSUME NEW r \in Runners, OnceInv, TypeOK, Paths, ReadRecord(r) PROVE OnceInv'
<1>0. Moves(r) /\ record' = record /\ runs' = runs /\ failedOnce' = failedOnce
  BY ReadMoves DEF ReadRecord, tables, history
<1>1. /\ runner[r] \in RunnerSet /\ runner[r].pc = "read" /\ runner[r].pos \in Data
      /\ runner \in [Runners -> RunnerSet] /\ record \in [Data -> Statuses]
  BY RunnerFacts DEF ReadRecord, At, RunnerTyped, TypeOK, TablesTypeOK
<1>2. CASE record[runner[r].pos] = "applied"
  <2>1. Grows(applied, record, applied', record') /\ record'[runner[r].pos] # "none"
    BY <1>2, SameGrows DEF ReadRecord, tables
  <2>2. runner' = [runner EXCEPT ![r] = Flushed(runner[r], runner[r].pos + 1)]
    BY <1>2 DEF ReadRecord
  <2>3. runner'[r].pc # "run" BY <1>1, <2>1, <2>2, NextBatch
  <2> QED BY <1>0, <2>3, OnceKept
<1>3. CASE record[runner[r].pos] = "none"
  <2>1. runner'[r].pc = "insert" BY <1>1, <1>3 DEF ReadRecord, RunnerSet
  <2> QED BY <1>0, <2>1, OnceKept
<1>4. CASE record[runner[r].pos] = "failed"
  <2>1. runner[r].pos \in failedOnce BY <1>1, <1>4 DEF OnceInv
  <2>2. runner'[r].pos = runner[r].pos BY <1>1, <1>4 DEF ReadRecord, RunnerSet
  <2>3. \A q \in Runners, d \in Data \ failedOnce : AtWork(q, d)' => q # r /\ AtWork(q, d)
    BY <1>0, <2>1, <2>2, OthersStay DEF AtWork, At
  <2>4. \A q \in Runners \ {r} : runner'[q] = runner[q] BY <1>0, OthersStay
  <2> QED BY <1>0, <2>3, <2>4 DEF OnceInv
<1> QED BY <1>1, <1>2, <1>3, <1>4 DEF Statuses

LEMMA OnceInsert ==
    ASSUME NEW r \in Runners, OnceInv, TypeOK, Paths, InsertPending(r) PROVE OnceInv'
<1>0. Moves(r) /\ record' = record /\ runs' = runs /\ failedOnce' = failedOnce
  BY InsertMoves DEF InsertPending, tables, history
<1>1. runner[r] \in RunnerSet /\ runner \in [Runners -> RunnerSet] /\ runner[r].pc = "insert"
  BY RunnerFacts DEF TypeOK, TablesTypeOK, InsertPending, At
<1>2. CASE record[runner[r].pos] # "none"
  <2>1. runner'[r].pc # "run" BY <1>1, <1>2 DEF InsertPending, Idle
  <2> QED BY <1>0, <2>1, OnceKept
<1>3. CASE record[runner[r].pos] = "none"
  <2>1. runner'[r].pc = "run" /\ runner'[r].hasLock /\ runner'[r].pos = runner[r].pos
    BY <1>1, <1>3 DEF InsertPending, RunnerSet
  <2>2. \A q \in Runners \ {r} : runner'[q] = runner[q] BY <1>0, OthersStay
  <2>3. \A q \in Runners \ {r} : ~(AtWork(q, runner[r].pos) /\ runner[q].hasLock)
    BY DEF InsertPending, FreeFor, Holds, AtWork
  <2>4. ASSUME NEW d \in Data \ failedOnce, NEW q \in Runners, AtWork(q, d)'
        PROVE  /\ runner'[q].hasLock /\ record'[d] = "none"
               /\ \A p \in Runners : AtWork(p, d)' => p = q
    <3>1. CASE d = runner[r].pos
      <4>1. \A p \in Runners \ {r} : ~AtWork(p, d) BY <2>3, <2>4, <3>1 DEF OnceInv
      <4>2. \A p \in Runners : AtWork(p, d)' => p = r BY <2>2, <4>1 DEF AtWork, At
      <4> QED BY <1>0, <1>3, <2>1, <2>4, <3>1, <4>2
    <3>2. CASE d # runner[r].pos
      <4>1. \A p \in Runners : AtWork(p, d)' => p # r /\ AtWork(p, d)
        BY <2>1, <2>2, <3>2 DEF AtWork, At
      <4> QED BY <1>0, <2>2, <2>4, <4>1 DEF OnceInv
    <3> QED BY <3>1, <3>2
  <2> QED BY <1>0, <2>4 DEF OnceInv
<1> QED BY <1>2, <1>3

LEMMA OnceMark ==
    ASSUME NEW r \in Runners, OnceInv, TypeOK, Paths, MarkFailed(r) PROVE OnceInv'
<1>0. /\ runner[r].pos \in Data /\ record \in [Data -> Statuses]
      /\ runner'[r].pc # "run" /\ Moves(r)
  BY RunnerFacts, NotAtWork, StepMoves DEF MarkFailed, At, RunnerTyped, Step, DataStep
<1>1. \A q \in Runners, e \in Data : AtWork(q, e)' => q # r /\ AtWork(q, e)
  BY <1>0, OthersStay DEF AtWork, At
<1>2. \A q \in Runners \ {r} : runner'[q] = runner[q] BY <1>0, OthersStay
<1>3. /\ failedOnce' = failedOnce \cup {runner[r].pos} /\ runs' = runs
      /\ \A e \in Data \ failedOnce' : record'[e] = record[e]
  BY <1>0 DEF MarkFailed
<1> QED BY <1>1, <1>2, <1>3 DEF OnceInv

LEMMA OnceBaseline ==
    ASSUME NEW r \in Runners, OnceInv, TypeOK, Paths, Baseline(r) PROVE OnceInv'
<1>0. /\ record \in [Data -> Statuses] /\ runner'[r].pc # "run" /\ Moves(r)
      /\ runner[r].pc = "baseline"
  BY RunnerFacts, NotAtWork, BaselineMoves DEF Baseline, At
<1>1. \A q \in Runners, e \in Data : AtWork(q, e)' => q # r /\ AtWork(q, e)
  BY <1>0, OthersStay DEF AtWork, At
<1>2. \A q \in Runners \ {r} : runner'[q] = runner[q] BY <1>0, OthersStay
<1>3. /\ failedOnce' = failedOnce /\ runs' = runs
      /\ \A e \in Data : \/ record'[e] = record[e]
                         \/ record'[e] = "applied" /\ record[e] = "none" /\ FreeFor(r, e)
  BY <1>0 DEF Baseline, DataOf
<1>4. ASSUME NEW e \in Data \ failedOnce
      PROVE  /\ record'[e] # "failed"
             /\ runs'[e] = 0 \/ (runs'[e] = 1 /\ record'[e] = "applied")
             /\ \A q \in Runners : AtWork(q, e)' => runner'[q].hasLock /\ record'[e] = "none"
             /\ \A p, q \in Runners : AtWork(p, e)' /\ AtWork(q, e)' => p = q
  <2>1. CASE record'[e] = record[e] BY <1>1, <1>2, <1>3, <2>1 DEF OnceInv
  <2>2. CASE record'[e] = "applied" /\ record[e] = "none" /\ FreeFor(r, e)
    <3>1. \A q \in Runners \ {r} : ~AtWork(q, e)
      BY <2>2 DEF FreeFor, Holds, AtWork, OnceInv
    <3> QED BY <1>1, <1>3, <2>2, <3>1 DEF OnceInv
  <2> QED BY <1>3, <2>1, <2>2
<1> QED BY <1>3, <1>4 DEF OnceInv

LEMMA OnceStep == TypeOK /\ Paths /\ OnceInv /\ [Next]_vars => OnceInv'
<1> SUFFICES ASSUME TypeOK, Paths, OnceInv, [Next]_vars PROVE OnceInv' OBVIOUS
<1>1. ASSUME NEW r \in Runners, Step(r) \/ Fails(r) PROVE OnceInv'
  <2>0. Moves(r) BY <1>1, StepMoves
  <2>1. CASE Start(r) \/ Choose(r) \/ Deploy(r) \/ Succeed(r) \/ DeployFails(r)
             \/ RunFails(r) \/ Die(r)
    <3>1. runner'[r].pc # "run" BY <2>1, NotAtWork DEF Fails
    <3>2. record' = record /\ runs' = runs /\ failedOnce' = failedOnce
      BY <2>1 DEF Start, Choose, Deploy, Lock, Rejected, BeginNext, FinishNext, Deployed,
                  Succeed, DeployFails, RunFails, Die, tables, history
    <3> QED BY <2>0, <3>1, <3>2, OnceKept
  <2>2. CASE ReadRecord(r) BY <2>2, OnceRead
  <2>3. CASE InsertPending(r) BY <2>3, OnceInsert
  <2>4. CASE Commit(r) \/ CommitUnheard(r)
    <3>1. runner'[r].pc # "run" BY <2>4, NotAtWork DEF Fails
    <3>2. /\ runner[r].pos \in Data /\ AtWork(r, runner[r].pos) /\ Commits(runner[r].pos)
          /\ applied' = applied /\ failedOnce' = failedOnce
      BY <2>4, RunnerFacts DEF Commit, CommitUnheard, At, AtWork, RunnerTyped
    <3> QED BY <2>0, <3>1, <3>2, OnceCommits
  <2>5. CASE MarkFailed(r) BY <2>5, OnceMark
  <2>6. CASE Baseline(r) BY <2>6, OnceBaseline
  <2> QED BY <1>1, <2>1, <2>2, <2>3, <2>4, <2>5, <2>6 DEF Step, Fails, DataStep
<1>2. CASE Upgrade \/ UNCHANGED vars
  BY <1>2 DEF Upgrade, vars, tables, history, OnceInv, AtWork, At
<1> QED BY <1>1, <1>2 DEF Next

(* A data migration's changes are made once, unless it was marked failed.    *)
THEOREM OnceHolds == Spec => []OnceUnlessFailed
<1>1. Init => OnceInv
  BY DEF Init, TablesInit, OnceInv, AtWork, At, Idle
<1>2. OnceInv => OnceUnlessFailed
  BY DEF OnceInv, OnceUnlessFailed
<1> QED BY <1>1, <1>2, OnceStep, TypesAndPaths, PTL DEF Spec

-----------------------------------------------------------------------------
(* What a record means                                                       *)

(* A database in use has records, and all of those that a fast run would     *)
(* write; before that all runs are of one release.                           *)
DoneInv ==
    /\ inUse => \E d \in Data : record[d] # "none"
    /\ \A r \in Runners : inUse /\ runner[r].fast =>
          \A d \in DataOf(runner[r].last) : record[d] # "none"
    /\ ~inUse => \A r \in Runners : ~At(r, "idle") => runner[r].last = Releases[release]
    /\ AppliedMeansDone

(* A run stays on its path, and with its release, until it is over.          *)
LEMMA Keeps ==
    ASSUME NEW r \in Runners, TypeOK, Paths,
           Deploy(r) \/ DataStep(r) \/ Baseline(r) \/ Succeed(r) \/ Fails(r)
    PROVE  \/ runner'[r] = Idle
           \/ /\ runner'[r].last = runner[r].last /\ runner'[r].fast = runner[r].fast
              /\ runner[r].pc \notin {"idle", "count", "done"}
              /\ runner'[r].pc \notin {"idle", "count"}
<1>0. /\ runner \in [Runners -> RunnerSet] /\ RunnerTyped(runner[r])
      /\ runner[r] \in RunnerSet /\ RunnerInv(runner[r], applied, record)
      /\ record \in [Data -> Statuses]
  BY RunnerFacts DEF TypeOK, TablesTypeOK
<1>1. CASE Deploy(r)
  <2>1. CASE Lock(r) BY <1>0, <2>1 DEF Lock, At, RunnerSet
  <2>2. CASE Rejected(r) BY <1>0, <2>2 DEF Rejected
  <2>3. CASE BeginNext(r) \/ FinishNext(r) BY <1>0, <2>3 DEF BeginNext, FinishNext, At
  <2>4. CASE Deployed(r)
    <3>1. runner'[r].last = runner[r].last /\ runner'[r].fast = runner[r].fast
      BY <1>0, <2>4 DEF Deployed, RunnerSet
    <3>2. runner'[r].pc \notin {"idle", "count"} BY <1>0, <2>4 DEF Deployed, After, RunnerSet
    <3> QED BY <2>4, <3>1, <3>2 DEF Deployed, At
  <2> QED BY <1>1, <2>1, <2>2, <2>3, <2>4 DEF Deploy
<1>2. CASE ReadRecord(r)
  <2>0. runner[r].pc = "read" /\ runner[r].pos \in Data /\ ~runner[r].fast
    BY <1>0, <1>2 DEF ReadRecord, At, RunnerTyped, RunnerInv
  <2>1. CASE record[runner[r].pos] = "applied"
    <3>1. Grows(applied, record, applied', record') /\ record'[runner[r].pos] # "none"
      BY <1>2, <2>1, SameGrows DEF ReadRecord, tables
    <3>2. runner' = [runner EXCEPT ![r] = Flushed(runner[r], runner[r].pos + 1)]
      BY <1>2, <2>1 DEF ReadRecord
    <3>3. /\ runner'[r].pc \in {"deploy", "read", "done"}
          /\ runner'[r].last = runner[r].last /\ ~runner'[r].fast
      BY <2>0, <3>1, <3>2, NextBatch
    <3>4. runner' \in [Runners -> RunnerSet] BY <1>2, ReadMoves, MovesOn
    <3> QED BY <1>0, <2>0, <3>3, <3>4 DEF RunnerSet
  <2>2. CASE record[runner[r].pos] = "failed"
    BY <1>0, <1>2, <2>0, <2>2 DEF ReadRecord, RunnerSet
  <2>3. CASE record[runner[r].pos] = "none"
    BY <1>0, <1>2, <2>0, <2>3 DEF ReadRecord, RunnerSet
  <2> QED BY <1>0, <2>0, <2>1, <2>2, <2>3 DEF Statuses
<1>3. CASE InsertPending(r) BY <1>0, <1>3 DEF InsertPending, At, RunnerSet
<1>4. CASE Commit(r)
  <2>1. /\ runner[r].pc = "run" /\ runner[r].pos \in Data /\ ~runner[r].fast
        /\ Commits(runner[r].pos) /\ applied' = applied
    BY <1>0, <1>4 DEF Commit, At, RunnerTyped, RunnerInv
  <2>2. Grows(applied, record, applied', record') /\ record'[runner[r].pos] # "none"
    BY <1>0, <2>1, CommitsGrows
  <2>3. runner' = [runner EXCEPT ![r] = Flushed(runner[r], runner[r].pos + 1)]
    BY <1>4 DEF Commit
  <2>4. /\ runner'[r].pc \in {"deploy", "read", "done"}
        /\ runner'[r].last = runner[r].last /\ ~runner'[r].fast
    BY <2>1, <2>2, <2>3, NextBatch
  <2>5. runner' \in [Runners -> RunnerSet] BY <1>4, CommitMoves, MovesOn
  <2> QED BY <1>0, <2>1, <2>4, <2>5 DEF RunnerSet
<1>5. CASE MarkFailed(r) \/ Succeed(r) \/ DeployFails(r) \/ Die(r)
  BY <1>0, <1>5 DEF MarkFailed, Succeed, DeployFails, Die
<1>6. CASE Baseline(r) BY <1>0, <1>6 DEF Baseline, At, RunnerSet
<1>7. CASE RunFails(r) \/ CommitUnheard(r)
  BY <1>0, <1>7 DEF RunFails, CommitUnheard, Thrown, At, RunnerSet
<1> QED BY <1>1, <1>2, <1>3, <1>4, <1>5, <1>6, <1>7 DEF Fails, DataStep

LEMMA GrowsIs ==
    ASSUME NEW r, Moves(r)
    PROVE  \A d \in Data : record[d] # "none" => record'[d] # "none"
  BY DEF Moves, Grows

LEMMA AppliedKept ==
    ASSUME NEW r \in Runners, TypeOK, Paths, AppliedMeansDone,
           Deploy(r) \/ DataStep(r) \/ Start(r) \/ Choose(r) \/ Succeed(r) \/ Fails(r)
    PROVE  AppliedMeansDone'
<1>0. /\ record \in [Data -> Statuses] /\ runs \in [Data -> Nat]
      /\ runner[r].pc \in {"run", "mark"} => runner[r].pos \in Data
  BY RunnerFacts, TypesAre DEF TablesTyped, RunnerTyped
<1>1. CASE Commit(r) \/ CommitUnheard(r)
  <2>1. /\ runner[r].pos \in Data /\ Commits(runner[r].pos) /\ baselined' = baselined
    BY <1>0, <1>1 DEF Commit, CommitUnheard, At
  <2>2. /\ \A d \in Data \ {runner[r].pos} : record'[d] = record[d]
        /\ \A d \in Data : runs'[d] = IF d = runner[r].pos THEN runs[d] + 1 ELSE runs[d]
    BY <1>0, <2>1 DEF Commits
  <2> QED BY <1>0, <2>1, <2>2 DEF AppliedMeansDone
<1>2. CASE MarkFailed(r)
  <2>1. /\ runs' = runs /\ baselined' = baselined
        /\ \A d \in Data : record'[d] = "applied" => record[d] = "applied"
    BY <1>0, <1>2 DEF MarkFailed
  <2> QED BY <2>1 DEF AppliedMeansDone
<1>3. CASE record' = record /\ runs' = runs /\ baselined' = baselined
  BY <1>3 DEF AppliedMeansDone
<1> QED
  BY <1>1, <1>2, <1>3
  DEF Deploy, DataStep, Fails, Start, Choose, Succeed, Lock, Rejected, BeginNext, FinishNext,
      Deployed, ReadRecord, InsertPending, DeployFails, RunFails, Die, tables, history

(* Steps that keep the path, the release and whether the database is in use. *)
LEMMA DoneKept ==
    ASSUME NEW r \in Runners, TypeOK, Paths, DoneInv, Moves(r), AppliedMeansDone',
           inUse' = inUse, release' = release,
           \/ runner'[r] = Idle
           \/ /\ runner'[r].last = runner[r].last /\ runner'[r].fast = runner[r].fast
              /\ runner[r].pc # "idle"
    PROVE  DoneInv'
<1>1. \A q \in Runners \ {r} : runner'[q] = runner[q] BY OthersStay
<1>2. \A d \in Data : record[d] # "none" => record'[d] # "none" BY GrowsIs
<1>3. inUse' => \E d \in Data : record'[d] # "none" BY <1>2 DEF DoneInv
<1>4. ASSUME NEW q \in Runners, inUse', runner'[q].fast, NEW d \in DataOf(runner'[q].last)
      PROVE  record'[d] # "none"
  <2>1. runner'[q].last = runner[q].last /\ runner[q].fast BY <1>1, <1>4 DEF Idle
  <2>2. d \in Data BY <1>4 DEF DataOf
  <2> QED BY <1>2, <1>4, <2>1, <2>2 DEF DoneInv
<1>5. ASSUME ~inUse', NEW q \in Runners, ~At(q, "idle")'
      PROVE  runner'[q].last = Releases[release']
  BY <1>1, <1>5 DEF DoneInv, At, Idle
<1> QED BY <1>3, <1>4, <1>5 DEF DoneInv

LEMMA DoneStep == TypeOK /\ Paths /\ DoneInv /\ [Next]_vars => DoneInv'
<1> SUFFICES ASSUME TypeOK, Paths, DoneInv, [Next]_vars PROVE DoneInv' OBVIOUS
<1>1. ASSUME NEW r \in Runners, Step(r) \/ Fails(r) PROVE DoneInv'
  <2>0. /\ Moves(r) /\ runner[r] \in RunnerSet /\ runner \in [Runners -> RunnerSet]
        /\ RunnerInv(runner[r], applied, record)
        /\ runner[r].pc # "idle" =>
              runner[r].last \in Migrations /\ Releases[1] <= runner[r].last
    BY <1>1, StepMoves, RunnerFacts DEF TypeOK, TablesTypeOK
  <2>1. \A q \in Runners \ {r} : runner'[q] = runner[q] BY <2>0, OthersStay
  <2>2. \A d \in Data : record[d] # "none" => record'[d] # "none" BY <2>0, GrowsIs
  <2>3. CASE Deploy(r) \/ DataStep(r) \/ Fails(r)
    <3>1. AppliedMeansDone' BY <2>3, AppliedKept DEF DoneInv
    <3>2. inUse' = inUse /\ release' = release
      BY <2>3 DEF Deploy, DataStep, Fails, Lock, Rejected, BeginNext, FinishNext, Deployed,
                  ReadRecord, InsertPending, Commit, MarkFailed, DeployFails, RunFails,
                  CommitUnheard, Die
    <3> QED BY <2>0, <2>3, <3>1, <3>2, Keeps, DoneKept
  <2>4. CASE Start(r)
    <3>1. AppliedMeansDone' BY <2>4, AppliedKept DEF DoneInv
    <3>2. ~runner'[r].fast /\ runner'[r].last = Releases[release]
      BY <2>0, <2>4 DEF Start, Idle
    <3>3. inUse' = inUse /\ release' = release /\ record' = record BY <2>4 DEF Start, tables
    <3> QED BY <2>1, <3>1, <3>2, <3>3 DEF DoneInv, At
  <2>5. CASE Choose(r)
    <3>1. AppliedMeansDone' BY <2>5, AppliedKept DEF DoneInv
    <3>2. inUse' = inUse /\ release' = release /\ record' = record BY <2>5 DEF Choose, tables
    <3>3. runner'[r].last = runner[r].last /\ ~At(r, "idle")
      <4>0. runner[r].pc = "count" /\ 1 \in 1..(runner[r].last + 1) /\ runner[r].last \in Migrations
        BY <2>0, <2>5, Places DEF Choose, At
      <4>1. Flushed(runner[r], 1).last = runner[r].last BY <2>0, <4>0, FlushedIs
      <4>2. FastPath(runner[r]).last = runner[r].last BY <2>0 DEF FastPath, RunnerSet
      <4> QED BY <2>0, <2>5, <4>0, <4>1, <4>2 DEF Choose, At
    <3>4. runner'[r].fast => ~inUse
      <4>0. runner[r].pc = "count" /\ 1 \in 1..(runner[r].last + 1) /\ ~runner[r].fast
             /\ runner[r].last \in Migrations
        BY <2>0, <2>5, Places DEF Choose, At, RunnerInv
      <4>1. Fresh(runner[r]) => ~inUse BY DEF Fresh, DoneInv
      <4>2. ~Flushed(runner[r], 1).fast
        <5>1. Flushed(runner[r], 1).fast = runner[r].fast BY <2>0, <4>0, FlushedIs
        <5> QED BY <4>0, <5>1
      <4> QED BY <2>0, <2>5, <4>1, <4>2 DEF Choose
    <3> QED BY <2>1, <3>1, <3>2, <3>3, <3>4 DEF DoneInv, At
  <2>6. CASE Baseline(r)
    <3>1. \A d \in DataOf(runner[r].last) : record[d] = "none" => ~inUse
      <4>1. runner[r].fast BY <2>0, <2>6 DEF Baseline, At, RunnerInv
      <4> QED BY <4>1 DEF DoneInv
    <3>2. AppliedMeansDone'
      <4>1. \A d \in Data : record'[d] = "applied" =>
                \/ record[d] = "applied"
                \/ d \in DataOf(runner[r].last) /\ record[d] = "none"
        BY <2>6 DEF Baseline
      <4>2. runs' = runs /\ baselined \subseteq baselined' BY <2>6 DEF Baseline
      <4>3. \A d \in DataOf(runner[r].last) : record[d] = "none" => d \in baselined'
        BY <2>6, <3>1 DEF Baseline
      <4> QED BY <4>1, <4>2, <4>3 DEF AppliedMeansDone, DoneInv
    <3>3. inUse' = inUse /\ release' = release BY <2>6 DEF Baseline
    <3> QED BY <2>0, <2>6, <3>2, <3>3, Keeps, DoneKept
  <2>7. CASE Succeed(r)
    <3>1. AppliedMeansDone' BY <2>7, AppliedKept DEF DoneInv
    <3>2. /\ runner[r].pc = "done" /\ runner'[r] = Idle /\ inUse' /\ record' = record
          /\ \A d \in DataOf(runner[r].last) : record[d] # "none"
      BY <2>0, <2>7 DEF Succeed, At, tables, RunnerInv
    <3>3. \E d \in Data : record[d] # "none"
      <4>1. PICK d \in Data : d <= Releases[1] BY DataFromTheFirst
      <4>2. d \in Nat /\ Releases[1] \in Nat /\ runner[r].last \in Nat
        BY <2>0, <3>2, Places, Shipped
      <4>3. d <= runner[r].last BY <2>0, <3>2, <4>1, <4>2
      <4> QED BY <3>2, <4>1, <4>3 DEF DataOf
    <3>4. ASSUME NEW q \in Runners, runner'[q].fast, NEW d \in DataOf(runner'[q].last)
          PROVE  record[d] # "none"
      <4>1. q # r /\ runner'[q] = runner[q] BY <2>1, <3>2, <3>4 DEF Idle
      <4>2. CASE inUse BY <3>4, <4>1, <4>2 DEF DoneInv
      <4>3. CASE ~inUse
        <5>1. runner[q].pc # "idle" BY <3>4, <4>1, RunnerFacts DEF RunnerInv
        <5>2. runner[q].last = runner[r].last BY <3>2, <4>3, <5>1 DEF DoneInv, At
        <5> QED BY <3>2, <3>4, <4>1, <5>2
      <4> QED BY <4>2, <4>3
    <3> QED BY <3>1, <3>2, <3>3, <3>4 DEF DoneInv
  <2> QED BY <1>1, <2>3, <2>4, <2>5, <2>6, <2>7 DEF Step
<1>2. CASE Upgrade
  <2>1. /\ inUse' = inUse /\ record' = record /\ runner' = runner /\ runs' = runs
        /\ baselined' = baselined /\ (inUse \/ \A r \in Runners : At(r, "idle"))
    BY <1>2 DEF Upgrade, tables, history
  <2> QED BY <2>1 DEF DoneInv, AppliedMeansDone, At
<1>3. CASE UNCHANGED vars
  BY <1>3 DEF vars, tables, history, DoneInv, AppliedMeansDone, At
<1> QED BY <1>1, <1>2, <1>3 DEF Next

(* A record says "applied" only of changes that were made, or that an empty  *)
(* database did not need.                                                    *)
THEOREM AppliedHolds == Spec => []AppliedMeansDone
<1>1. Init => DoneInv
  BY DEF Init, TablesInit, DoneInv, AppliedMeansDone, At, Idle
<1>2. DoneInv => AppliedMeansDone
  BY DEF DoneInv
<1> QED BY <1>1, <1>2, DoneStep, TypesAndPaths, PTL DEF Spec

-----------------------------------------------------------------------------
(* In order                                                                  *)

Working(r) == runner[r].pc \notin {"idle", "count", "done"}

(* One runner deploys, only what is in its directory.  Unless a run was torn,*)
(* the schema is not past a migration that an interleaved run has before it, *)
(* and a fast run is beside one only when that has nothing to record.        *)
OneDeploys ==
    /\ \A r \in Runners : At(r, "deploying") => begun \subseteq runner[r].dir
    /\ \A q, r \in Runners : At(q, "deploying") /\ At(r, "deploying") => q = r

NoneOpen(r) == \A d \in DataOf(runner[r].last) : record[d] # "none"

NotMixed ==
    \A q, r \in Runners :
        Working(q) /\ runner[q].fast /\ Working(r) /\ ~runner[r].fast => NoneOpen(r)

NotAhead ==
    \A r \in Runners : Working(r) /\ ~runner[r].fast =>
        \A d \in DataOf(runner[r].last), m \in applied : record[d] = "none" => m < d

OrderInv == OneDeploys /\ (~torn => NotMixed /\ NotAhead /\ misplaced \subseteq failedOnce)

(* Steps that apply nothing, and keep the path or leave it.                  *)
LEMMA OrderKept ==
    ASSUME NEW r \in Runners, TypeOK, Paths, OrderInv, Moves(r),
           applied' = applied, begun' = begun, torn' = torn,
           ~torn => misplaced' \subseteq failedOnce',
           \/ runner'[r] = Idle
           \/ /\ runner'[r].last = runner[r].last /\ runner'[r].fast = runner[r].fast
              /\ runner[r].pc \notin {"idle", "count", "done"}
              /\ runner'[r].pc # "deploying"
           \/ runner'[r].pc = "count"
    PROVE  OrderInv'
<1>1. \A q \in Runners \ {r} : runner'[q] = runner[q] BY OthersStay
<1>2. \A d \in Data : record[d] # "none" => record'[d] # "none" BY GrowsIs
<1>3. ASSUME NEW q \in Runners, Working(q)'
      PROVE  /\ Working(q) /\ runner'[q].last = runner[q].last
             /\ runner'[q].fast = runner[q].fast
  BY <1>1, <1>3 DEF Working, Idle
<1>4. ASSUME NEW q \in Runners, At(q, "deploying")' PROVE q # r /\ At(q, "deploying")
  BY <1>1, <1>4 DEF At, Idle
<1>5. OneDeploys' BY <1>1, <1>4 DEF OrderInv, OneDeploys
<1>6. ASSUME ~torn PROVE NotMixed'
  <2>1. \A q \in Runners : NoneOpen(q) /\ Working(q)' => NoneOpen(q)'
    BY <1>2, <1>3 DEF NoneOpen, DataOf
  <2> QED BY <1>3, <1>6, <2>1 DEF OrderInv, NotMixed
<1>7. ASSUME ~torn PROVE NotAhead'
  BY <1>2, <1>3, <1>7 DEF OrderInv, NotAhead, DataOf
<1> QED BY <1>5, <1>6, <1>7 DEF OrderInv

LEMMA OrderDeploy ==
    ASSUME NEW r \in Runners, TypeOK, Paths, OrderInv, Deploy(r) PROVE OrderInv'
<1>0. /\ Moves(r) /\ runner[r] \in RunnerSet /\ runner \in [Runners -> RunnerSet]
      /\ RunnerInv(runner[r], applied, record)
      /\ runner[r].pc # "idle" => runner[r].last \in Migrations
  BY DeployMoves, RunnerFacts DEF TypeOK, TablesTypeOK
<1>1. CASE Rejected(r) \/ Deployed(r)
  <2>1. /\ applied' = applied /\ begun' = begun /\ torn' = torn
        /\ misplaced' = misplaced /\ failedOnce' = failedOnce
    BY <1>1 DEF Rejected, Deployed, tables, history
  <2>2. ~torn => misplaced' \subseteq failedOnce' BY <2>1 DEF OrderInv
  <2>3. runner'[r].pc # "deploying" BY <1>0, <1>1 DEF Rejected, Deployed, After, RunnerSet, Idle
  <2> QED BY <1>0, <1>1, <2>1, <2>2, <2>3, Keeps, OrderKept
<1>2. CASE Lock(r)
  <2>1. /\ applied' = applied /\ begun' = {} /\ torn' = torn /\ record' = record
        /\ misplaced' = misplaced /\ failedOnce' = failedOnce
    BY <1>2 DEF Lock, tables, history
  <2>2. \A q \in Runners \ {r} : runner'[q] = runner[q] /\ ~At(q, "deploying")
    BY <1>0, <1>2, OthersStay DEF Lock, Deploying
  <2>3. /\ runner'[r].last = runner[r].last /\ runner'[r].fast = runner[r].fast
        /\ Working(r)
    BY <1>0, <1>2 DEF Lock, At, Working, RunnerSet
  <2>4. OneDeploys' BY <2>1, <2>2 DEF OneDeploys, At
  <2>5. \A q \in Runners : Working(q)' =>
            /\ Working(q) /\ runner'[q].last = runner[q].last /\ runner'[q].fast = runner[q].fast
    BY <2>2, <2>3 DEF Working
  <2>6. NotMixed => NotMixed' BY <2>1, <2>5 DEF NotMixed, NoneOpen
  <2>7. NotAhead => NotAhead' BY <2>1, <2>5 DEF NotAhead
  <2> QED BY <2>1, <2>4, <2>6, <2>7 DEF OrderInv
<1>3. CASE BeginNext(r)
  <2>1. /\ applied' = applied /\ torn' = torn /\ record' = record /\ runner' = runner
        /\ misplaced' = misplaced /\ failedOnce' = failedOnce
        /\ At(r, "deploying") /\ begun' \subseteq runner[r].dir
    BY <1>3 DEF BeginNext, history, Pending
  <2>2. OneDeploys' BY <2>1 DEF OrderInv, OneDeploys, At
  <2>3. NotMixed => NotMixed' BY <2>1 DEF NotMixed, NoneOpen, Working
  <2>4. NotAhead => NotAhead' BY <2>1 DEF NotAhead, Working
  <2> QED BY <2>1, <2>2, <2>3, <2>4 DEF OrderInv
<1>4. CASE FinishNext(r)
  <2>1. /\ applied' = applied \cup begun /\ begun' = {} /\ torn' = torn /\ record' = record
        /\ runner' = runner /\ misplaced' = misplaced /\ failedOnce' = failedOnce
        /\ At(r, "deploying") /\ begun \subseteq runner[r].dir
    BY <1>4 DEF FinishNext, history, OrderInv, OneDeploys
  <2>2. OneDeploys' BY <2>1 DEF OrderInv, OneDeploys, At
  <2>3. NotMixed => NotMixed' BY <2>1 DEF NotMixed, NoneOpen, Working
  <2>4. ASSUME NotMixed, NotAhead, NEW q \in Runners, Working(q), ~runner[q].fast,
               NEW d \in DataOf(runner[q].last), NEW m \in applied', record[d] = "none"
        PROVE  m < d
    <3>1. CASE m \in applied BY <2>4, <3>1 DEF NotAhead
    <3>2. CASE m \in begun
      <4>1. Working(r) BY <2>1 DEF Working, At
      <4>2. ~runner[r].fast BY <2>4, <4>1 DEF NotMixed, NoneOpen
      <4>3. OnPath(runner[r], applied, record) BY <1>0, <2>1, <4>2 DEF RunnerInv, At
      <4>4. m \in Schema /\ m < runner[r].pos BY <2>1, <3>2, <4>3 DEF OnPath, Before
      <4>5. d \in Data /\ ~(d < runner[r].pos) BY <2>4, <4>3 DEF OnPath, DataOf
      <4>6. runner[r].pos \in Nat /\ m \in Nat /\ d \in Nat
        BY <1>0, <4>4, <4>5, Places DEF RunnerSet
      <4> QED BY <4>4, <4>5, <4>6
    <3> QED BY <2>1, <2>4, <3>1, <3>2
  <2>5. NotMixed /\ NotAhead => NotAhead' BY <2>1, <2>4 DEF NotAhead, Working
  <2> QED BY <2>1, <2>2, <2>3, <2>5 DEF OrderInv
<1> QED BY <1>1, <1>2, <1>3, <1>4 DEF Deploy

(* The first run of a data migration is on the schema before it.             *)
LEMMA OrderCommits ==
    ASSUME NEW r \in Runners, TypeOK, Paths, OnceInv, OrderInv, At(r, "run"),
           Commits(runner[r].pos), ~torn
    PROVE  misplaced' \subseteq failedOnce
<1> DEFINE d == runner[r].pos
<1>1. /\ runner[r] \in RunnerSet /\ d \in Data /\ RunnerInv(runner[r], applied, record)
      /\ applied \subseteq Schema
  BY RunnerFacts DEF At, RunnerTyped
<1>2. ~runner[r].fast /\ OnPath(runner[r], applied, record)
  BY <1>1 DEF RunnerInv, At
<1>3. Before(d) \subseteq applied /\ d \in DataOf(runner[r].last)
  BY <1>1, <1>2 DEF OnPath, At, DataOf
<1>4. ASSUME d \notin failedOnce PROVE applied = Before(d)
  <2>1. record[d] = "none" BY <1>1, <1>4 DEF OnceInv, AtWork
  <2>2. Working(r) BY DEF Working, At
  <2>3. \A m \in applied : m < d BY <1>2, <1>3, <2>1, <2>2 DEF OrderInv, NotAhead
  <2> QED BY <1>1, <1>3, <2>3 DEF Before
<1>5. misplaced \subseteq failedOnce BY DEF OrderInv
<1> QED BY <1>4, <1>5 DEF Commits

LEMMA OrderChoose ==
    ASSUME NEW r \in Runners, TypeOK, Paths, OrderInv, Choose(r) PROVE OrderInv'
<1>0. /\ Moves(r) /\ runner[r] \in RunnerSet /\ runner \in [Runners -> RunnerSet]
      /\ RunnerInv(runner[r], applied, record) /\ runner[r].pc = "count"
      /\ runner[r].last \in Migrations /\ applied \subseteq Schema
  BY ChooseMoves, RunnerFacts DEF TypeOK, TablesTypeOK, Choose, At
<1>1. /\ applied' = applied /\ begun' = begun /\ record' = record
      /\ misplaced' = misplaced /\ failedOnce' = failedOnce
  BY DEF Choose, tables
<1>2. \A q \in Runners \ {r} : runner'[q] = runner[q] BY <1>0, OthersStay
<1>3. 1 \in 1..(runner[r].last + 1) /\ ~runner[r].fast BY <1>0, Places DEF RunnerInv
<1>4. CASE Fresh(runner[r])
  <2>1. /\ runner'[r].fast /\ runner'[r].pc \in {"deploy", "baseline"}
        /\ torn' = (torn \/ Beside(r, FALSE))
    BY <1>0, <1>4 DEF Choose, FastPath, RunnerSet
  <2>2. OneDeploys' BY <1>1, <1>2, <2>1 DEF OrderInv, OneDeploys, At
  <2>3. ASSUME ~torn', NEW q \in Runners, Working(q)', ~runner'[q].fast PROVE FALSE
    <3>1. q # r /\ runner'[q] = runner[q] BY <1>2, <2>1, <2>3
    <3>2. runner[q].fast = FALSE BY <1>0, <2>3, <3>1 DEF RunnerSet
    <3> QED BY <2>1, <2>3, <3>1, <3>2 DEF Beside, Working
  <2>4. ~torn' => NotMixed' /\ NotAhead' BY <2>3 DEF NotMixed, NotAhead
  <2> QED BY <1>1, <2>1, <2>2, <2>4 DEF OrderInv
<1>5. CASE ~Fresh(runner[r])
  <2> DEFINE open == {d \in DataOf(runner[r].last) : record[d] = "none"}
  <2>1. /\ runner' = [runner EXCEPT ![r] = Flushed(runner[r], 1)]
        /\ torn' = (torn \/ (\E d \in open : Ahead(d) \/ Beside(r, TRUE)))
    BY <1>5 DEF Choose
  <2>2. /\ Flushed(runner[r], 1).pc \in {"deploy", "read", "done"}
        /\ Flushed(runner[r], 1).last = runner[r].last
        /\ Flushed(runner[r], 1).fast = runner[r].fast
    BY <1>0, <1>3, FlushedIs
  <2>3. /\ runner'[r].pc # "deploying" /\ runner'[r].last = runner[r].last
        /\ ~runner'[r].fast
    BY <1>0, <1>3, <2>1, <2>2
  <2>4. OneDeploys' BY <1>1, <1>2, <2>3 DEF OrderInv, OneDeploys, At
  <2>5. ASSUME ~torn', NEW d \in open PROVE ~Ahead(d) /\ ~Beside(r, TRUE)
    BY <2>1, <2>5
  <2>6. ASSUME ~torn', NEW p \in Runners, NEW q \in Runners, Working(p)', runner'[p].fast,
               Working(q)', ~runner'[q].fast, NEW d \in DataOf(runner'[q].last)
        PROVE  record'[d] # "none"
    <3>1. p # r /\ runner'[p] = runner[p] /\ Working(p)
      BY <1>2, <2>3, <2>6 DEF Working
    <3>2. CASE q = r
      <4>1. runner[p].fast = TRUE BY <1>0, <2>6, <3>1 DEF RunnerSet
      <4>2. Beside(r, TRUE) BY <3>1, <4>1 DEF Beside, Working
      <4>3. d \notin open BY <2>5, <2>6, <4>2
      <4> QED BY <1>1, <2>3, <2>6, <3>2, <4>3
    <3>3. CASE q # r
      <4>1. runner'[q] = runner[q] /\ Working(q) BY <1>2, <2>6, <3>3 DEF Working
      <4>2. NotMixed BY <2>1, <2>6 DEF OrderInv
      <4> QED BY <1>1, <2>6, <3>1, <4>1, <4>2 DEF NotMixed, NoneOpen
    <3> QED BY <3>2, <3>3
  <2>7. ASSUME ~torn', NEW q \in Runners, Working(q)', ~runner'[q].fast,
               NEW d \in DataOf(runner'[q].last), NEW m \in applied, record[d] = "none"
        PROVE  m < d
    <3>1. CASE q = r
      <4>1. d \in open BY <2>3, <2>7, <3>1
      <4>2. ~(m > d) /\ m # d /\ m \in Nat /\ d \in Nat
        BY <1>0, <2>5, <2>7, <4>1, Places DEF Ahead, DataOf
      <4> QED BY <4>2
    <3>2. CASE q # r
      <4>1. runner'[q] = runner[q] /\ Working(q) BY <1>2, <2>7, <3>2 DEF Working
      <4>2. NotAhead BY <2>1, <2>7 DEF OrderInv
      <4> QED BY <2>7, <4>1, <4>2 DEF NotAhead
    <3> QED BY <3>1, <3>2
  <2>8. ~torn' => NotMixed' BY <2>6 DEF NotMixed, NoneOpen
  <2>9. ~torn' => NotAhead' BY <1>1, <2>7 DEF NotAhead
  <2> QED BY <1>1, <2>1, <2>4, <2>8, <2>9 DEF OrderInv
<1> QED BY <1>4, <1>5

LEMMA OrderStep == TypeOK /\ Paths /\ OnceInv /\ OrderInv /\ [Next]_vars => OrderInv'
<1> SUFFICES ASSUME TypeOK, Paths, OnceInv, OrderInv, [Next]_vars PROVE OrderInv' OBVIOUS
<1>1. ASSUME NEW r \in Runners, Step(r) \/ Fails(r) PROVE OrderInv'
  <2>0. /\ Moves(r) /\ runner[r] \in RunnerSet /\ runner \in [Runners -> RunnerSet]
    BY <1>1, StepMoves, RunnerFacts DEF TypeOK, TablesTypeOK
  <2>1. CASE Choose(r) BY <2>1, OrderChoose
  <2>2. CASE Deploy(r) BY <2>2, OrderDeploy
  <2>3. CASE Start(r)
    <3>1. runner'[r].pc = "count" BY <2>0, <2>3 DEF Start, Idle
    <3>2. /\ applied' = applied /\ begun' = begun /\ torn' = torn
          /\ ~torn => misplaced' \subseteq failedOnce'
      BY <2>3 DEF Start, tables, history, OrderInv
    <3> QED BY <2>0, <3>1, <3>2, OrderKept
  <2>4. CASE DataStep(r) \/ Baseline(r) \/ Succeed(r) \/ Fails(r)
    <3>1. applied' = applied /\ begun' = begun /\ torn' = torn
      BY <2>4 DEF DataStep, Fails, ReadRecord, InsertPending, Commit, MarkFailed, Baseline,
                  Succeed, DeployFails, RunFails, CommitUnheard, Die, tables, history
    <3>2. ~torn => misplaced' \subseteq failedOnce'
      <4>1. CASE Commit(r) \/ CommitUnheard(r)
        <5>1. At(r, "run") /\ Commits(runner[r].pos) /\ failedOnce' = failedOnce
          BY <4>1 DEF Commit, CommitUnheard
        <5> QED BY <5>1, OrderCommits
      <4>2. CASE misplaced' = misplaced /\ failedOnce \subseteq failedOnce'
        BY <4>2 DEF OrderInv
      <4> QED
        BY <2>4, <4>1, <4>2
        DEF DataStep, Fails, ReadRecord, InsertPending, MarkFailed, Baseline, Succeed,
            DeployFails, RunFails, Die, history
    <3>3. runner'[r].pc # "deploying"
      <4>1. RunnerTyped(runner'[r]) /\ runner' \in [Runners -> RunnerSet]
        BY <2>0, MovesOn
      <4>2. CASE ReadRecord(r)
        <5>0. runner[r].pc = "read" /\ runner[r].pos \in Data /\ record \in [Data -> Statuses]
          BY <4>2, RunnerFacts DEF ReadRecord, At, RunnerTyped
        <5>1. CASE record[runner[r].pos] = "applied"
          <6>1. Grows(applied, record, applied', record') /\ record'[runner[r].pos] # "none"
            BY <4>2, <5>1, SameGrows DEF ReadRecord, tables
          <6>2. runner' = [runner EXCEPT ![r] = Flushed(runner[r], runner[r].pos + 1)]
            BY <4>2, <5>1 DEF ReadRecord
          <6>3. runner'[r].pc \in {"deploy", "read", "done"} BY <5>0, <6>1, <6>2, NextBatch
          <6> QED BY <6>3
        <5>2. CASE record[runner[r].pos] = "failed"
          BY <2>0, <4>2, <5>2 DEF ReadRecord, RunnerSet
        <5>3. CASE record[runner[r].pos] = "none"
          BY <2>0, <4>2, <5>3 DEF ReadRecord, RunnerSet
        <5> QED BY <5>0, <5>1, <5>2, <5>3 DEF Statuses
      <4>3. CASE InsertPending(r) BY <2>0, <4>3 DEF InsertPending, RunnerSet, Idle
      <4>4. CASE Commit(r)
        <5>1. /\ runner[r].pc = "run" /\ runner[r].pos \in Data /\ record \in [Data -> Statuses]
              /\ Commits(runner[r].pos) /\ applied' = applied
          BY <4>4, RunnerFacts DEF Commit, At, RunnerTyped
        <5>2. Grows(applied, record, applied', record') /\ record'[runner[r].pos] # "none"
          BY <5>1, CommitsGrows
        <5>3. runner' = [runner EXCEPT ![r] = Flushed(runner[r], runner[r].pos + 1)]
          BY <4>4 DEF Commit
        <5>4. runner'[r].pc \in {"deploy", "read", "done"} BY <5>1, <5>2, <5>3, NextBatch
        <5> QED BY <5>4
      <4>5. CASE MarkFailed(r) \/ Succeed(r) \/ DeployFails(r) \/ Die(r)
        BY <2>0, <4>5 DEF MarkFailed, Succeed, DeployFails, Die, Idle
      <4>6. CASE Baseline(r) BY <2>0, <4>6 DEF Baseline, RunnerSet
      <4>7. CASE RunFails(r) \/ CommitUnheard(r)
        BY <2>0, <4>7 DEF RunFails, CommitUnheard, Thrown, Idle, RunnerSet
      <4> QED BY <2>4, <4>2, <4>3, <4>4, <4>5, <4>6, <4>7 DEF DataStep, Fails
    <3> QED BY <2>0, <2>4, <3>1, <3>2, <3>3, Keeps, OrderKept
  <2> QED BY <1>1, <2>1, <2>2, <2>3, <2>4 DEF Step
<1>2. CASE Upgrade \/ UNCHANGED vars
  BY <1>2 DEF Upgrade, vars, tables, history, OrderInv, OneDeploys, NotMixed, NotAhead,
              NoneOpen, Working, At
<1> QED BY <1>1, <1>2 DEF Next

(* A data migration that never failed runs on the schema of the migrations   *)
(* before it, unless an interleaved run began where a fast one was not over. *)
THEOREM InOrderHolds == Spec => []InOrder
<1>1. Init => OnceInv /\ OrderInv
  BY DEF Init, TablesInit, OnceInv, AtWork, OrderInv, OneDeploys, NotMixed, NotAhead,
         Working, At, Idle
<1>2. OrderInv => InOrder
  BY DEF OrderInv, InOrder
<1> QED BY <1>1, <1>2, OnceStep, OrderStep, TypesAndPaths, PTL DEF Spec
=============================================================================
