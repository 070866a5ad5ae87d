-------------------------- MODULE ActionStoreProofs --------------------------
(***************************************************************************)
(* Proofs about ActionStore, for every set of actions, workers, processes, *)
(* keys, laws and classes: type correctness, the one executor of an action, *)
(* that no action runs twice; that the ledger and the rows agree, no verdict *)
(* lies, no irreversible effect precedes its human and a running server can *)
(* seal; and that the store implements ActionLifecycle.                    *)
(***************************************************************************)
EXTENDS ActionStore, TLAPS

---------------------------------------------------------------------------
(* Type correctness.                                                       *)

\* A worker past the door holds an action; what it will close on is known; the
\* boot loop is inside its three passes and leads to a booted server.
HoldingPCs == {"prepared", "note", "ready", "operating", "running", "returned",
               "deciding", "resume", "claiming", "claimed"}
GoodRecord(r) ==
  /\ r.pc \in HoldingPCs \/ r.then = "ready" => r.act \in Actions
  /\ r.pc = "returned" => r.out \in TerminalStates
  /\ r.pc \in {"recover", "recovering"} => r.pass \in 1..3 /\ r.then = "booted"
  /\ r.pc = "note" => r.then # "booted"

WorkersOK ==
  /\ wk \in [Workers -> WorkerRecords]
  /\ \A w \in Workers : GoodRecord(wk[w])

TypeInv == RowsType /\ ApprovalsType /\ ProcsType /\ WorldType /\ WorkersOK

LEMMA HomeType == \A w \in Workers : Home(w) \in Procs
BY DEF Home, Workers, Procs

LEMMA IdleGood == IdleWk \in WorkerRecords /\ GoodRecord(IdleWk)
<1>1. {} \in SUBSET Actions /\ FALSE \in BOOLEAN
  OBVIOUS
<1>2. IdleWk \in WorkerRecords
  BY <1>1 DEF IdleWk, WorkerRecords, PCs
<1>3. GoodRecord(IdleWk)
  BY DEF IdleWk, GoodRecord, HoldingPCs
<1> QED BY <1>2, <1>3

\* One worker moves to a good record, the others stay.
LEMMA OneMoves ==
  ASSUME WorkersOK, NEW w \in Workers, NEW r \in WorkerRecords, GoodRecord(r),
         wk' = [wk EXCEPT ![w] = r]
  PROVE  WorkersOK'
BY DEF WorkersOK

LEMMA ReturnsGood ==
  ASSUME WorkersOK, ProcsType, NEW w \in Workers, Return(w)
  PROVE  WorkersOK' /\ phase' \in [Procs -> {"down", "booting", "up"}]
         /\ lock' \in Procs \cup {None} /\ ink' = ink /\ plaw' = plaw
<1>1. WorkersOK'
  BY OneMoves, IdleGood DEF Return
<1> QED BY <1>1 DEF Return, ProcsType

\* The updates the actions make, on one good record.
LEMMA Jump ==
  ASSUME NEW r \in WorkerRecords, GoodRecord(r),
         NEW x \in PCs \ {"returned", "recover", "recovering", "note"},
         x \in HoldingPCs => r.act \in Actions
  PROVE  LET q == [r EXCEPT !.pc = x] IN q \in WorkerRecords /\ GoodRecord(q)
BY DEF WorkerRecords, GoodRecord

LEMMA JumpAct ==
  ASSUME NEW r \in WorkerRecords, GoodRecord(r), NEW a \in Actions,
         NEW x \in {"prepared", "resume", "operating"}
  PROVE  LET q == [r EXCEPT !.pc = x, !.act = a]
         IN  q \in WorkerRecords /\ GoodRecord(q)
BY DEF WorkerRecords, GoodRecord, PCs

LEMMA JumpDecide ==
  ASSUME NEW r \in WorkerRecords, GoodRecord(r), NEW a \in Actions,
         NEW verb \in {"approved", "rejected"}, NEW late \in BOOLEAN
  PROVE  LET q == [r EXCEPT !.pc = "deciding", !.act = a, !.verb = verb, !.late = late]
         IN  q \in WorkerRecords /\ GoodRecord(q)
BY ZenonT(60) DEF WorkerRecords, GoodRecord, PCs

LEMMA JumpReturned ==
  ASSUME NEW r \in WorkerRecords, GoodRecord(r), r.act \in Actions,
         NEW out \in TerminalStates
  PROVE  LET q == [r EXCEPT !.pc = "returned", !.out = out]
         IN  q \in WorkerRecords /\ GoodRecord(q)
BY ZenonT(60) DEF WorkerRecords, GoodRecord, PCs

LEMMA JumpNote ==
  ASSUME NEW r \in WorkerRecords, GoodRecord(r), r.act \in Actions,
         NEW then \in {"idle", "ready"}
  PROVE  LET q == [r EXCEPT !.pc = "note", !.then = then]
         IN  q \in WorkerRecords /\ GoodRecord(q)
BY DEF WorkerRecords, GoodRecord, PCs

LEMMA JumpTodo ==
  ASSUME NEW r \in WorkerRecords, GoodRecord(r), NEW t \in SUBSET Actions,
         NEW x \in {r.pc, "recovering", "sweep", "ready"},
         x = "recovering" => r.pc \in {"recover", "recovering"},
         x = "ready" => r.act \in Actions
  PROVE  LET q == [r EXCEPT !.pc = x, !.todo = t]
         IN  q \in WorkerRecords /\ GoodRecord(q)
BY ZenonT(60) DEF WorkerRecords, GoodRecord, PCs, HoldingPCs

LEMMA DropTodo ==
  ASSUME NEW r \in WorkerRecords, GoodRecord(r), NEW t \in SUBSET Actions
  PROVE  LET q == [r EXCEPT !.todo = t] IN q \in WorkerRecords /\ GoodRecord(q)
BY DEF WorkerRecords, GoodRecord

LEMMA JumpPass ==
  ASSUME NEW r \in WorkerRecords, GoodRecord(r), NEW n \in 0..3,
         NEW x \in {"recover", "collect"}, x = "recover" => n \in 1..3 /\ r.then = "booted"
  PROVE  LET q == [r EXCEPT !.pc = x, !.pass = n]
         IN  q \in WorkerRecords /\ GoodRecord(q)
BY DEF WorkerRecords, GoodRecord, PCs, HoldingPCs

LEMMA BootRecord ==
  LET q == [IdleWk EXCEPT !.pc = "prune", !.then = "booted"]
  IN  q \in WorkerRecords /\ GoodRecord(q)
<1> DEFINE q == [IdleWk EXCEPT !.pc = "prune", !.then = "booted"]
<1>1. q \in WorkerRecords
  BY IdleGood DEF WorkerRecords, PCs
<1>2. q.pc = "prune" /\ q.then = "booted"
  BY IdleGood DEF WorkerRecords
<1>3. GoodRecord(q)
  BY <1>2 DEF GoodRecord, HoldingPCs
<1> QED BY <1>1, <1>3

LEMMA InitType == Init => TypeInv
<1> SUFFICES ASSUME Init PROVE TypeInv
  OBVIOUS
<1>1. RowsType /\ ApprovalsType /\ ProcsType /\ WorldType
  BY StoreAssumption DEF Init, RowsType, ApprovalsType, ProcsType, WorldType,
     EffectClasses, StoredStates, ApprovalStatuses
<1>2. WorkersOK
  BY IdleGood DEF Init, WorkersOK
<1> QED BY <1>1, <1>2 DEF TypeInv

LEMMA AppendGood ==
  ASSUME RowsType, ProcsType, NEW p \in Procs, NEW a \in Actions,
         NEW o \in TerminalStates, AppendReceipt(p, a, o)
  PROVE  receipts' \in Seq(Receipts)
BY DEF RowsType, ProcsType, AppendReceipt, Receipt, Receipts

LEMMA CloseExpiredType ==
  ASSUME TypeInv, NEW p \in Procs, NEW a \in Actions, CloseExpired(p, a)
  PROVE  RowsType' /\ ApprovalsType' /\ WorldType' /\ active' = active
         /\ retired' = retired /\ law' = law
<1>1. receipts' \in Seq(Receipts)
  BY AppendGood DEF TypeInv, CloseExpired, TerminalStates
<1> QED
  BY <1>1 DEF TypeInv, CloseExpired, RowsType, ApprovalsType, WorldType, keys, world,
     StoredStates, TerminalStates, ApprovalStatuses

\* What the server's own steps do to the types.
LEMMA ServerStepType ==
  ASSUME TypeInv, NEW w \in ServerWorkers, ServerStep(w)
  PROVE  TypeInv'
<1> w \in Workers /\ Home(w) = Server /\ Server \in Procs
  BY DEF Workers, Home, Procs
<1> wk[w] \in WorkerRecords /\ GoodRecord(wk[w])
  BY DEF TypeInv, WorkersOK
<1> USE DEF TypeInv
<1>1. CASE Boot(w)
  <2>1. WorkersOK'
    BY <1>1, OneMoves, BootRecord DEF Boot
  <2>2. RowsType' /\ ApprovalsType' /\ ProcsType' /\ WorldType'
    BY <1>1 DEF Boot, RowsType, ApprovalsType, ProcsType, WorldType, approvals, keys, procs, world
  <2> QED BY <2>1, <2>2
<1>2. CASE RecoverCollect(w)
  <2>1. WorkersOK'
    <3> DEFINE q == [wk[w] EXCEPT !.pc = "recovering", !.todo = {a \in Actions : Eligible(wk[w].pass, a)}]
    <3>1. q \in WorkerRecords /\ GoodRecord(q)
      BY <1>2, JumpTodo DEF RecoverCollect, GoodRecord, HoldingPCs, PCs
    <3>2. wk' = [wk EXCEPT ![w] = q]
      BY <1>2 DEF RecoverCollect, WorkersOK
    <3> QED BY <3>1, <3>2, OneMoves
  <2>2. RowsType' /\ ApprovalsType' /\ ProcsType' /\ WorldType'
    BY <1>2 DEF RecoverCollect, RowsType, ApprovalsType, ProcsType, WorldType, approvals, keys, procs, world
  <2> QED BY <2>1, <2>2
<1>3. CASE RecoverNext(w)
  <2>1. WorkersOK'
    <3> DEFINE x == IF wk[w].pass < 3 THEN "recover" ELSE "collect"
               n == IF wk[w].pass < 3 THEN wk[w].pass + 1 ELSE 0
               q == [wk[w] EXCEPT !.pc = x, !.pass = n]
    <3>1. wk[w].pass \in 1..3 /\ wk[w].then = "booted"
      BY <1>3 DEF RecoverNext, GoodRecord
    <3>2. /\ n \in 0..3 /\ x \in {"recover", "collect"}
          /\ x = "recover" => n \in 1..3 /\ wk[w].then = "booted"
      BY <3>1
    <3>3. q \in WorkerRecords /\ GoodRecord(q)
      BY <3>2, JumpPass
    <3>4. wk' = [wk EXCEPT ![w] = q]
      BY <1>3 DEF RecoverNext, WorkersOK
    <3> QED BY <3>3, <3>4, OneMoves
  <2>2. RowsType' /\ ApprovalsType' /\ ProcsType' /\ WorldType'
    BY <1>3 DEF RecoverNext, RowsType, ApprovalsType, ProcsType, WorldType, approvals, keys, procs, world
  <2> QED BY <2>1, <2>2
<1>4. CASE \E a \in Actions : closeCrashOrphan(w, a)
  <2> PICK a \in Actions : closeCrashOrphan(w, a)
    BY <1>4
  <2>1. WorkersOK'
    <3> DEFINE q == [wk[w] EXCEPT !.todo = wk[w].todo \ {a}]
    <3>1. wk[w].todo \ {a} \in SUBSET Actions
      BY DEF WorkerRecords
    <3>2. q \in WorkerRecords /\ GoodRecord(q)
      BY <3>1, DropTodo
    <3>3. wk' = [wk EXCEPT ![w] = q]
      BY DEF closeCrashOrphan, WorkersOK
    <3> QED BY <3>2, <3>3, OneMoves
  <2>2. RecoveryTarget[wk[w].pass] \in TerminalStates
    <3>1. wk[w].pass \in 1..3
      BY DEF closeCrashOrphan, GoodRecord
    <3> QED BY <3>1 DEF RecoveryTarget, TerminalStates
  <2>3. RowsType'
    <3>1. CASE Eligible(wk[w].pass, a)
      BY <3>1, <2>2, AppendGood DEF closeCrashOrphan, RowsType, StoredStates
    <3>2. CASE ~Eligible(wk[w].pass, a)
      BY <3>2 DEF closeCrashOrphan, RowsType
    <3> QED BY <3>1, <3>2
  <2>4. ApprovalsType' /\ ProcsType' /\ WorldType'
    BY DEF closeCrashOrphan, ApprovalsType, ProcsType, WorldType, approvals, keys, procs, world
  <2> QED BY <2>1, <2>3, <2>4
<1>5. CASE \E a \in Actions : Postpone(w, a)
  <2> PICK a \in Actions : Postpone(w, a)
    BY <1>5
  <2>1. WorkersOK'
    <3> DEFINE q == [wk[w] EXCEPT !.todo = wk[w].todo \ {a}]
    <3>1. wk[w].todo \ {a} \in SUBSET Actions
      BY DEF WorkerRecords
    <3>2. q \in WorkerRecords /\ GoodRecord(q)
      BY <3>1, DropTodo
    <3>3. wk' = [wk EXCEPT ![w] = q]
      BY DEF Postpone, WorkersOK
    <3> QED BY <3>2, <3>3, OneMoves
  <2>2. RowsType' /\ ApprovalsType' /\ ProcsType'
    BY DEF Postpone, RowsType, ApprovalsType, ProcsType, approvals, keys, procs
  <2>3. WorldType'
    BY StoreAssumption DEF Postpone, WorldType, world
  <2> QED BY <2>1, <2>2, <2>3
<1>6. CASE CollectExpired(w)
  <2>1. WorkersOK'
    <3> DEFINE q == [wk[w] EXCEPT !.pc = "sweep", !.todo = {a \in Actions : status[a] = "PENDING" /\ overdue[a]}]
    <3>1. q \in WorkerRecords /\ GoodRecord(q)
      BY <1>6, JumpTodo DEF CollectExpired, GoodRecord, HoldingPCs, PCs
    <3>2. wk' = [wk EXCEPT ![w] = q]
      BY <1>6 DEF CollectExpired, WorkersOK
    <3> QED BY ZenonT(60), <3>1, <3>2, OneMoves
  <2>2. RowsType' /\ ApprovalsType' /\ ProcsType' /\ WorldType'
    BY <1>6 DEF CollectExpired, RowsType, ApprovalsType, ProcsType, WorldType, approvals, keys, procs, world
  <2> QED BY <2>1, <2>2
<1>7. CASE SweepDone(w) \/ SweepAborts(w)
  <2>1. EndSweep(w)
    BY <1>7 DEF SweepDone, SweepAborts
  <2>2. WorkersOK'
    <3>1. CASE wk[w].then = "ready"
      <4> DEFINE q == [wk[w] EXCEPT !.pc = "ready", !.todo = {}]
      <4>1. q \in WorkerRecords /\ GoodRecord(q)
        BY <3>1, JumpTodo DEF GoodRecord
      <4>2. wk' = [wk EXCEPT ![w] = q]
        BY <2>1, <3>1 DEF EndSweep, WorkersOK
      <4> QED BY <4>1, <4>2, OneMoves
    <3>2. CASE wk[w].then # "ready"
      <4>1. wk' = [wk EXCEPT ![w] = IdleWk]
        BY <2>1, <3>2 DEF EndSweep, WorkersOK
      <4> QED BY <4>1, OneMoves, IdleGood
    <3> QED BY <3>1, <3>2
  <2>3. RowsType' /\ ApprovalsType' /\ ProcsType' /\ WorldType'
    BY <2>1 DEF EndSweep, RowsType, ApprovalsType, ProcsType, WorldType, approvals, keys, world
  <2> QED BY <2>2, <2>3
<1>8. CASE \E a \in Actions : sweepExpiredOne(w, a)
  <2> PICK a \in Actions : sweepExpiredOne(w, a)
    BY <1>8
  <2>1. WorkersOK'
    <3> DEFINE q == [wk[w] EXCEPT !.todo = wk[w].todo \ {a}]
    <3>1. wk[w].todo \ {a} \in SUBSET Actions
      BY DEF WorkerRecords
    <3>2. q \in WorkerRecords /\ GoodRecord(q)
      BY <3>1, DropTodo
    <3>3. wk' = [wk EXCEPT ![w] = q]
      BY DEF sweepExpiredOne, WorkersOK
    <3> QED BY <3>2, <3>3, OneMoves
  <2>2. RowsType' /\ ApprovalsType' /\ ProcsType' /\ WorldType'
    <3>1. CASE CloseExpired(Server, a)
      BY <3>1, CloseExpiredType DEF sweepExpiredOne, ProcsType, procs
    <3>2. CASE ~CloseExpired(Server, a)
      BY <3>2 DEF sweepExpiredOne, RowsType, ApprovalsType, ProcsType, WorldType, approvals, keys, procs, world
    <3> QED BY <3>1, <3>2
  <2> QED BY <2>1, <2>2
<1>9. CASE Prune(w)
  <2>1. WorkersOK'
    <3> DEFINE x == IF wk[w].then = "booted" THEN "recover" ELSE "collect"
               n == IF wk[w].then = "booted" THEN 1 ELSE 0
               q == [wk[w] EXCEPT !.pc = x, !.pass = n]
    <3>1. /\ n \in 0..3 /\ x \in {"recover", "collect"}
          /\ x = "recover" => n \in 1..3 /\ wk[w].then = "booted"
      OBVIOUS
    <3>2. q \in WorkerRecords /\ GoodRecord(q)
      BY <3>1, JumpPass
    <3>3. wk' = [wk EXCEPT ![w] = q]
      BY <1>9 DEF Prune, WorkersOK
    <3> QED BY <3>2, <3>3, OneMoves
  <2>2. RowsType' /\ ApprovalsType' /\ ProcsType' /\ WorldType'
    BY ZenonT(60), <1>9 DEF Prune, RowsType, ApprovalsType, ProcsType, WorldType, keys, procs, world
  <2> QED BY <2>1, <2>2
<1>10. CASE \E a \in Actions, c \in Classes : Prepare(w, a, c)
  <2> PICK a \in Actions, c \in Classes : Prepare(w, a, c)
    BY <1>10
  <2>1. WorkersOK'
    <3> DEFINE q == [wk[w] EXCEPT !.pc = "prepared", !.act = a]
    <3>1. q \in WorkerRecords /\ GoodRecord(q)
      BY JumpAct
    <3>2. wk' = [wk EXCEPT ![w] = q]
      BY DEF Prepare, WorkersOK
    <3> QED BY <3>1, <3>2, OneMoves
  <2>2. RowsType' /\ ApprovalsType' /\ ProcsType' /\ WorldType'
    BY StoreAssumption DEF Prepare, RowsType, ApprovalsType, ProcsType, WorldType, approvals, keys, procs, world
  <2> QED BY <2>1, <2>2
<1>11. CASE RecordRefusal(w)
  <2>0. wk[w].act \in Actions
    BY <1>11 DEF RecordRefusal, GoodRecord, HoldingPCs
  <2>1. WorkersOK'
    <3> DEFINE q == [wk[w] EXCEPT !.pc = "note", !.then = "idle"]
    <3>1. q \in WorkerRecords /\ GoodRecord(q)
      BY <2>0, JumpNote
    <3>2. wk' = [wk EXCEPT ![w] = q]
      BY <1>11 DEF RecordRefusal, Noted, WorkersOK
    <3> QED BY <3>1, <3>2, OneMoves
  <2>2. RowsType'
    <3>1. PICK v \in Refusals(class[wk[w].act]) :
            state' = [state EXCEPT ![wk[w].act] = v] /\ AppendReceipt(Server, wk[w].act, v)
      BY <1>11 DEF RecordRefusal
    <3>2. v \in TerminalStates
      BY DEF Refusals, TerminalStates
    <3> QED BY <1>11, <2>0, <3>1, <3>2, AppendGood DEF RecordRefusal, RowsType, StoredStates
  <2>3. ApprovalsType' /\ ProcsType' /\ WorldType'
    BY <1>11 DEF RecordRefusal, Noted, ApprovalsType, ProcsType, WorldType, approvals, keys, procs, world
  <2> QED BY <2>1, <2>2, <2>3
<1>12. CASE RecordAuthorized(w)
  <2>0. wk[w].act \in Actions
    BY <1>12 DEF RecordAuthorized, GoodRecord, HoldingPCs
  <2>1. WorkersOK'
    <3> DEFINE q == [wk[w] EXCEPT !.pc = "note", !.then = "ready"]
    <3>1. q \in WorkerRecords /\ GoodRecord(q)
      BY <2>0, JumpNote
    <3>2. wk' = [wk EXCEPT ![w] = q]
      BY <1>12 DEF RecordAuthorized, Noted, WorkersOK
    <3> QED BY <3>1, <3>2, OneMoves
  <2>2. RowsType'
    BY <1>12 DEF RecordAuthorized, RowsType, StoredStates
  <2>3. ApprovalsType' /\ ProcsType' /\ WorldType'
    BY <1>12 DEF RecordAuthorized, Noted, ApprovalsType, ProcsType, WorldType, approvals, keys, procs, world
  <2> QED BY <2>1, <2>2, <2>3
<1>13. CASE Park(w)
  <2>0. wk[w].act \in Actions
    BY <1>13 DEF Park, GoodRecord, HoldingPCs
  <2>1. WorkersOK'
    <3> DEFINE q == [wk[w] EXCEPT !.pc = "note", !.then = "idle"]
    <3>1. q \in WorkerRecords /\ GoodRecord(q)
      BY <2>0, JumpNote
    <3>2. wk' = [wk EXCEPT ![w] = q]
      BY <1>13 DEF Park, Noted, WorkersOK
    <3> QED BY <3>1, <3>2, OneMoves
  <2>2. RowsType'
    BY <1>13 DEF Park, RowsType, StoredStates
  <2>3. ApprovalsType' /\ ProcsType' /\ WorldType'
    BY <1>13 DEF Park, Noted, ApprovalsType, ProcsType, WorldType, ApprovalStatuses, keys, procs, world
  <2> QED BY <2>1, <2>2, <2>3
<1>14. CASE RecordFails(w)
  <2>1. Return(w)
    BY <1>14 DEF RecordFails
  <2> QED BY <1>14, <2>1, ReturnsGood DEF RecordFails, RowsType, ApprovalsType, ProcsType, WorldType, approvals, keys, world
<1>15. CASE \E due \in BOOLEAN : NoteWrite(w, due)
  <2> PICK due \in BOOLEAN : NoteWrite(w, due)
    BY <1>15
  <2>1. CASE due
    <3> DEFINE q == [wk[w] EXCEPT !.pc = "prune"]
    <3>1. q \in WorkerRecords /\ GoodRecord(q)
      BY Jump DEF PCs, HoldingPCs
    <3>2. wk' = [wk EXCEPT ![w] = q]
      BY <2>1 DEF NoteWrite, Goto, WorkersOK
    <3>3. WorkersOK'
      BY <3>1, <3>2, OneMoves
    <3> QED BY <2>1, <3>3 DEF NoteWrite, RowsType, ApprovalsType, ProcsType, WorldType, approvals, keys, procs, world
  <2>2. CASE ~due /\ wk[w].then = "idle"
    <3>1. Return(w)
      BY <2>2 DEF NoteWrite
    <3> QED BY <3>1, ReturnsGood DEF NoteWrite, RowsType, ApprovalsType, ProcsType, WorldType, approvals, keys, world
  <2>3. CASE ~due /\ wk[w].then # "idle"
    <3> DEFINE q == [wk[w] EXCEPT !.pc = "ready"]
    <3>1. wk[w].then = "ready" /\ wk[w].act \in Actions
      BY <2>3 DEF NoteWrite, GoodRecord, WorkerRecords, HoldingPCs
    <3>2. q \in WorkerRecords /\ GoodRecord(q)
      BY <3>1, Jump DEF PCs
    <3>3. wk' = [wk EXCEPT ![w] = q]
      BY <2>3, <3>1 DEF NoteWrite, Goto, WorkersOK
    <3>4. WorkersOK'
      BY <3>2, <3>3, OneMoves
    <3> QED BY <2>3, <3>4 DEF NoteWrite, RowsType, ApprovalsType, ProcsType, WorldType, approvals, keys, procs, world
  <2> QED BY <2>1, <2>2, <2>3
<1> QED
  BY <1>1, <1>2, <1>3, <1>4, <1>5, <1>6, <1>7, <1>8, <1>9, <1>10, <1>11, <1>12, <1>13,
     <1>14, <1>15 DEF ServerStep

\* Execution, decisions and the claim.
LEMMA ExecStepType ==
  ASSUME TypeInv, NEW w \in Workers, ExecStep(w)
  PROVE  TypeInv'
<1> Home(w) \in Procs
  BY HomeType
<1> wk[w] \in WorkerRecords /\ GoodRecord(wk[w])
  BY DEF TypeInv, WorkersOK
<1> USE DEF TypeInv
<1>1. CASE Dispatch(w)
  <2>0. wk[w].act \in Actions
    BY <1>1 DEF Dispatch, GoodRecord, HoldingPCs
  <2>1. WorkersOK'
    <3> DEFINE q == [wk[w] EXCEPT !.pc = "running"]
    <3>1. q \in WorkerRecords /\ GoodRecord(q)
      BY <2>0, Jump DEF PCs
    <3>2. wk' = [wk EXCEPT ![w] = q]
      BY <1>1 DEF Dispatch, Goto, WorkersOK
    <3> QED BY <3>1, <3>2, OneMoves
  <2>2. RowsType' /\ ApprovalsType' /\ ProcsType' /\ WorldType'
    BY <1>1, <2>0 DEF Dispatch, RowsType, ApprovalsType, ProcsType, WorldType, approvals, keys, procs, world
  <2> QED BY <2>1, <2>2
<1>2. CASE Deliver(w)
  BY <1>2 DEF Deliver, WorkersOK, RowsType, ApprovalsType, ProcsType, WorldType, approvals, keys, procs, world
<1>3. CASE ToolReturns(w)
  <2>0. wk[w].act \in Actions
    BY <1>3 DEF ToolReturns, GoodRecord, HoldingPCs
  <2>1. WorkersOK'
    <3>1. PICK err \in PossibleErrors(delivered[wk[w].act]) :
            wk' = [wk EXCEPT ![w].pc = "returned", ![w].out = CloseStateAfterRun(err)]
      BY <1>3 DEF ToolReturns
    <3> DEFINE out == CloseStateAfterRun(err)
               q == [wk[w] EXCEPT !.pc = "returned", !.out = out]
    <3>2. out \in TerminalStates
      BY DEF CloseStateAfterRun, TerminalStates
    <3>3. q \in WorkerRecords /\ GoodRecord(q)
      BY <2>0, <3>2, JumpReturned
    <3>4. wk' = [wk EXCEPT ![w] = q]
      BY <3>1 DEF WorkersOK
    <3> QED BY <3>3, <3>4, OneMoves
  <2>2. RowsType' /\ ApprovalsType' /\ ProcsType' /\ WorldType'
    BY <1>3 DEF ToolReturns, RowsType, ApprovalsType, ProcsType, WorldType, approvals, keys, procs, world
  <2> QED BY <2>1, <2>2
<1>4. CASE Close(w)
  <2>0. wk[w].act \in Actions
    BY <1>4 DEF Close, GoodRecord, HoldingPCs
  <2>1. wk[w].out \in TerminalStates
    BY <1>4 DEF Close, GoodRecord
  <2>2. RowsType'
    BY <1>4, <2>0, <2>1, AppendGood DEF Close, RowsType, StoredStates
  <2>3. Return(w)
    BY <1>4 DEF Close
  <2> QED BY <1>4, <2>2, <2>3, ReturnsGood DEF Close, ApprovalsType, ProcsType, WorldType, approvals, keys, world
<1>5. CASE CloseRefused(w)
  <2>1. Return(w)
    BY <1>5 DEF CloseRefused
  <2> QED BY <1>5, <2>1, ReturnsGood DEF CloseRefused, RowsType, ApprovalsType, ProcsType, WorldType, approvals, keys, world
<1>6. CASE DecideRefused(w)
  <2>1. Return(w)
    BY <1>6 DEF DecideRefused
  <2> QED BY <1>6, <2>1, ReturnsGood DEF DecideRefused, RowsType, ApprovalsType, ProcsType, WorldType, approvals, keys, world
<1>7. CASE ResumeRefused(w)
  <2>1. Return(w)
    BY <1>7 DEF ResumeRefused
  <2> QED BY <1>7, <2>1, ReturnsGood DEF ResumeRefused, RowsType, ApprovalsType, ProcsType, WorldType, approvals, keys, world
<1>8. CASE \E a \in Actions, verb \in {"approved", "rejected"} : BeginDecide(w, a, verb)
  <2> PICK a \in Actions, verb \in {"approved", "rejected"} : BeginDecide(w, a, verb)
    BY <1>8
  <2>1. WorkersOK'
    <3> DEFINE q == [wk[w] EXCEPT !.pc = "deciding", !.act = a, !.verb = verb, !.late = overdue[a]]
    <3>1. overdue[a] \in BOOLEAN
      BY DEF ApprovalsType
    <3>2. q \in WorkerRecords /\ GoodRecord(q)
      BY <3>1, JumpDecide
    <3>3. wk' = [wk EXCEPT ![w] = q]
      BY DEF BeginDecide, WorkersOK
    <3> QED BY <3>2, <3>3, OneMoves
  <2>2. RowsType' /\ ApprovalsType' /\ ProcsType' /\ WorldType'
    BY DEF BeginDecide, RowsType, ApprovalsType, ProcsType, WorldType, approvals, keys, procs, world
  <2> QED BY <2>1, <2>2
<1>9. CASE ExpiredTouch(w)
  <2>0. wk[w].act \in Actions
    BY <1>9 DEF ExpiredTouch, GoodRecord, HoldingPCs
  <2>1. CloseExpired(Home(w), wk[w].act) /\ Return(w)
    BY <1>9 DEF ExpiredTouch
  <2> QED BY <2>0, <2>1, CloseExpiredType, ReturnsGood DEF ProcsType
<1>10. CASE \E d \in Actions : Approve(w, d)
  <2> PICK d \in Actions : Approve(w, d)
    BY <1>10
  <2>0. wk[w].act \in Actions
    BY DEF Approve, DecisionAct, GoodRecord, HoldingPCs
  <2>1. WorkersOK'
    <3> DEFINE q == [wk[w] EXCEPT !.pc = "resume"]
    <3>1. q \in WorkerRecords /\ GoodRecord(q)
      BY <2>0, Jump DEF PCs
    <3>2. wk' = [wk EXCEPT ![w] = q]
      BY DEF Approve, Goto, WorkersOK
    <3> QED BY <3>1, <3>2, OneMoves
  <2>2. receipts' \in Seq(Receipts)
    BY AppendGood DEF Approve, TerminalStates
  <2>3. RowsType'
    BY <2>0, <2>2 DEF Approve, RowsType, StoredStates, TerminalStates
  <2>4. ApprovalsType' /\ ProcsType' /\ WorldType'
    BY <2>0 DEF Approve, DecisionAct, ApprovalsType, ApprovalStatuses, ProcsType, WorldType, keys, procs, world
  <2> QED BY <2>1, <2>3, <2>4
<1>11. CASE \E d \in Actions : Reject(w, d)
  <2> PICK d \in Actions : Reject(w, d)
    BY <1>11
  <2>0. wk[w].act \in Actions
    BY DEF Reject, DecisionAct, GoodRecord, HoldingPCs
  <2>1. Return(w)
    BY DEF Reject
  <2>2. Receipt(Home(w), d, "SUCCEEDED") \in Receipts
        /\ Receipt(Home(w), wk[w].act, "REJECTED") \in Receipts
    BY <2>0 DEF Receipt, Receipts, ProcsType, TerminalStates
  <2>3. receipts' \in Seq(Receipts)
    BY <2>2 DEF Reject, RowsType
  <2>4. RowsType'
    BY <2>0, <2>3 DEF Reject, RowsType, StoredStates, TerminalStates
  <2>5. ApprovalsType' /\ WorldType'
    BY <2>0 DEF Reject, DecisionAct, ApprovalsType, ApprovalStatuses, WorldType, world
  <2> QED BY <2>1, <2>4, <2>5, ReturnsGood DEF Reject, ProcsType, keys
<1>12. CASE ResumeRead(w)
  <2>0. wk[w].act \in Actions
    BY <1>12 DEF ResumeRead, GoodRecord, HoldingPCs
  <2>1. WorkersOK'
    <3> DEFINE q == [wk[w] EXCEPT !.pc = "claiming"]
    <3>1. q \in WorkerRecords /\ GoodRecord(q)
      BY <2>0, Jump DEF PCs
    <3>2. wk' = [wk EXCEPT ![w] = q]
      BY <1>12 DEF ResumeRead, Goto, WorkersOK
    <3> QED BY <3>1, <3>2, OneMoves
  <2>2. RowsType' /\ ApprovalsType' /\ ProcsType' /\ WorldType'
    BY <1>12 DEF ResumeRead, RowsType, ApprovalsType, ProcsType, WorldType, approvals, keys, procs, world
  <2> QED BY <2>1, <2>2
<1>13. CASE Claim(w)
  <2>0. wk[w].act \in Actions
    BY <1>13 DEF Claim, GoodRecord, HoldingPCs
  <2>1. WorkersOK'
    <3> DEFINE q == [wk[w] EXCEPT !.pc = "claimed"]
    <3>1. q \in WorkerRecords /\ GoodRecord(q)
      BY <2>0, Jump DEF PCs
    <3>2. wk' = [wk EXCEPT ![w] = q]
      BY <1>13 DEF Claim, Goto, WorkersOK
    <3> QED BY <3>1, <3>2, OneMoves
  <2>2. RowsType' /\ ApprovalsType' /\ ProcsType' /\ WorldType'
    BY <1>13, <2>0 DEF Claim, RowsType, ApprovalsType, ProcsType, WorldType, keys, procs, world
  <2> QED BY <2>1, <2>2
<1> QED
  BY <1>1, <1>2, <1>3, <1>4, <1>5, <1>6, <1>7, <1>8, <1>9, <1>10, <1>11, <1>12, <1>13
  DEF ExecStep

\* Operator commands.
LEMMA CLIStepType ==
  ASSUME TypeInv, NEW c \in CLIs, CLIStep(c)
  PROVE  TypeInv'
<1> c \in Workers /\ c \in Procs /\ Home(c) = c
  BY StoreAssumption DEF Workers, Procs, Home
<1> wk[c] \in WorkerRecords /\ GoodRecord(wk[c])
  BY DEF TypeInv, WorkersOK
<1> USE DEF TypeInv
<1>1. CASE StartCLI(c)
  BY <1>1 DEF StartCLI, WorkersOK, RowsType, ApprovalsType, ProcsType, WorldType, approvals, keys, world
<1>2. CASE \E a \in Actions : BeginExecute(c, a)
  <2> PICK a \in Actions : BeginExecute(c, a)
    BY <1>2
  <2>1. WorkersOK'
    <3> DEFINE q == [wk[c] EXCEPT !.pc = "resume", !.act = a]
    <3>1. q \in WorkerRecords /\ GoodRecord(q)
      BY JumpAct
    <3>2. wk' = [wk EXCEPT ![c] = q]
      BY DEF BeginExecute, WorkersOK
    <3> QED BY <3>1, <3>2, OneMoves
  <2>2. RowsType' /\ ApprovalsType' /\ ProcsType' /\ WorldType'
    BY DEF BeginExecute, RowsType, ApprovalsType, ProcsType, WorldType, approvals, keys, procs, world
  <2> QED BY <2>1, <2>2
<1>3. CASE \E a \in Actions, exclusive \in BOOLEAN : BeginOperate(c, a, exclusive)
  <2> PICK a \in Actions, exclusive \in BOOLEAN : BeginOperate(c, a, exclusive)
    BY <1>3
  <2>1. WorkersOK'
    <3> DEFINE q == [wk[c] EXCEPT !.pc = "operating", !.act = a]
    <3>1. q \in WorkerRecords /\ GoodRecord(q)
      BY JumpAct
    <3>2. wk' = [wk EXCEPT ![c] = q]
      BY DEF BeginOperate, WorkersOK
    <3> QED BY <3>1, <3>2, OneMoves
  <2>2. RowsType' /\ ApprovalsType' /\ ProcsType' /\ WorldType'
    BY DEF BeginOperate, RowsType, StoredStates, ApprovalsType, ProcsType, WorldType, approvals, keys, world
  <2> QED BY <2>1, <2>2
<1>4. CASE Operate(c)
  <2>0. wk[c].act \in Actions
    BY <1>4 DEF Operate, GoodRecord, HoldingPCs
  <2>1. WorkersOK'
    <3>1. PICK out \in {"SUCCEEDED", "FAILED"} :
            wk' = [wk EXCEPT ![c].pc = "returned", ![c].out = out]
      BY <1>4 DEF Operate
    <3> DEFINE q == [wk[c] EXCEPT !.pc = "returned", !.out = out]
    <3>2. q \in WorkerRecords /\ GoodRecord(q)
      BY <2>0, JumpReturned DEF TerminalStates
    <3>3. wk' = [wk EXCEPT ![c] = q]
      BY <3>1 DEF WorkersOK
    <3> QED BY <3>2, <3>3, OneMoves
  <2>2. RowsType' /\ ApprovalsType' /\ ProcsType' /\ WorldType'
    BY <1>4, <2>0 DEF Operate, RowsType, ApprovalsType, ProcsType, WorldType, approvals, keys, procs, world
  <2> QED BY <2>1, <2>2
<1>5. CASE RotateFails(c)
  <2>0. wk[c].act \in Actions
    BY <1>5 DEF RotateFails, GoodRecord, HoldingPCs
  <2>1. WorkersOK'
    <3>1. PICK out \in {"SUCCEEDED", "FAILED"} :
            wk' = [wk EXCEPT ![c].pc = "returned", ![c].out = out]
      BY <1>5 DEF RotateFails
    <3> DEFINE q == [wk[c] EXCEPT !.pc = "returned", !.out = out]
    <3>2. q \in WorkerRecords /\ GoodRecord(q)
      BY <2>0, JumpReturned DEF TerminalStates
    <3>3. wk' = [wk EXCEPT ![c] = q]
      BY <3>1 DEF WorkersOK
    <3> QED BY <3>2, <3>3, OneMoves
  <2>2. RowsType' /\ ApprovalsType' /\ ProcsType' /\ WorldType'
    BY <1>5, <2>0 DEF RotateFails, RowsType, ApprovalsType, ProcsType, WorldType, approvals, keys, procs, world
  <2> QED BY <2>1, <2>2
<1>6. CASE \E k \in Keys : RotateKey(c, k)
  <2>0. wk[c].act \in Actions
    BY <1>6 DEF RotateKey, GoodRecord, HoldingPCs
  <2>1. WorkersOK'
    <3>1. PICK out \in {"SUCCEEDED", "FAILED"} :
            wk' = [wk EXCEPT ![c].pc = "returned", ![c].out = out]
      BY <1>6 DEF RotateKey
    <3> DEFINE q == [wk[c] EXCEPT !.pc = "returned", !.out = out]
    <3>2. q \in WorkerRecords /\ GoodRecord(q)
      BY <2>0, JumpReturned DEF TerminalStates
    <3>3. wk' = [wk EXCEPT ![c] = q]
      BY <3>1 DEF WorkersOK
    <3> QED BY <3>2, <3>3, OneMoves
  <2>2. RowsType' /\ ApprovalsType' /\ ProcsType' /\ WorldType'
    BY <1>6, <2>0 DEF RotateKey, RowsType, ApprovalsType, ProcsType, WorldType, approvals, keys, procs, world
  <2> QED BY <2>1, <2>2
<1> QED
  BY <1>1, <1>2, <1>3, <1>4, <1>5, <1>6 DEF CLIStep

LEMMA NextType == TypeInv /\ [Next]_vars => TypeInv'
<1> SUFFICES ASSUME TypeInv, [Next]_vars PROVE TypeInv'
  OBVIOUS
<1> USE DEF TypeInv
<1>1. CASE \E p \in Procs : Crash(p)
  <2> PICK p \in Procs : Crash(p)
    BY <1>1
  <2>1. WorkersOK'
    BY IdleGood DEF Crash, WorkersOK
  <2>2. RowsType' /\ ApprovalsType' /\ ProcsType' /\ WorldType'
    BY StoreAssumption DEF Crash, RowsType, ApprovalsType, ProcsType, WorldType, approvals, keys, world
  <2> QED BY <2>1, <2>2
<1>2. CASE \E a \in Actions : Expire(a)
  BY <1>2 DEF Expire, WorkersOK, RowsType, ApprovalsType, ProcsType, WorldType, keys, procs, world
<1>3. CASE EditConfig
  BY <1>3 DEF EditConfig, WorkersOK, RowsType, ApprovalsType, ProcsType, WorldType, approvals, keys, procs, world
<1>4. CASE UNCHANGED vars
  BY <1>4 DEF vars, WorkersOK, RowsType, ApprovalsType, ProcsType, WorldType, approvals, keys, procs, world
<1> QED
  BY <1>1, <1>2, <1>3, <1>4, ServerStepType, ExecStepType, CLIStepType DEF Next

\* Every column, program counter and process variable keeps its type, for every
\* number of workers, processes, actions, keys and laws.
THEOREM TypeCorrect == Spec => []TypeOK
<1>1. TypeInv => TypeOK
  BY DEF TypeInv, TypeOK, WorkersOK
<1> QED BY <1>1, InitType, NextType, PTL DEF Spec

---------------------------------------------------------------------------
(* Steps that neither clear nor run an action.                             *)

\* The worker neither takes a cleared action nor prepares one; what it picks up,
\* if anything, is an action that exists.
QuietWorker(v) ==
  /\ Committed(v)' => Committed(v) /\ wk'[v].act = wk[v].act
  /\ AboutToRun(v)' => AboutToRun(v)
  /\ wk'[v].pc = "prepared" => wk[v].pc = "prepared"
  /\ wk'[v].act = wk[v].act \/ wk'[v].act = None
       \/ (wk'[v].pc # "prepared" /\ wk'[v].act \in Actions /\ state[wk'[v].act] # "unborn")

\* The row moves forward, and its parameters appear only with its birth.
QuietRow(a) ==
  /\ state[a] # "unborn" => state'[a] # "unborn"
  /\ state[a] \notin {"unborn", "PENDING_APPROVAL"} =>
       state'[a] \notin {"unborn", "PENDING_APPROVAL"}
  /\ params'[a] => /\ params[a] \/ state[a] = "unborn"
                   /\ state'[a] \in {"PENDING_APPROVAL", "APPROVED"}
  /\ state'[a] = "unborn" => status'[a] = "none"
  /\ state[a] = "unborn" /\ state'[a] # "unborn" =>
       \A v \in Workers : wk[v].pc = "prepared" /\ wk[v].act = a => wk'[v].pc # "prepared"

LEMMA QuietStep ==
  ASSUME TypeInv, TypeInv', SingleExecutor, ran' = ran,
         \A v \in Workers : QuietWorker(v),
         \A a \in Actions : QuietRow(a)
  PROVE  SingleExecutor'
<1>0. /\ \A v \in Workers : wk[v].pc = "prepared" => wk[v].act \in Actions
      /\ \A v \in Workers : Committed(v) => wk[v].act \in Actions
      /\ \A v \in Workers : Committed(v)' => wk'[v].act \in Actions
      /\ \A v \in Workers : wk'[v].pc = "prepared" => wk'[v].act \in Actions
  BY DEF TypeInv, WorkersOK, GoodRecord, HoldingPCs, Committed, AboutToRun
<1>1. ASSUME NEW a \in Actions
      PROVE  /\ ran'[a] \in {0, 1}
             /\ state'[a] \in {"unborn", "PENDING_APPROVAL"} \/ params'[a] => ran'[a] = 0
             /\ params'[a] => state'[a] \in {"PENDING_APPROVAL", "APPROVED"}
             /\ state'[a] = "unborn" => status'[a] = "none"
  BY <1>1 DEF SingleExecutor, QuietRow
<1>2. ASSUME NEW w \in Workers
      PROVE  /\ wk'[w].pc = "prepared" => state'[wk'[w].act] = "unborn"
             /\ Committed(w)' => /\ state'[wk'[w].act] \notin {"unborn", "PENDING_APPROVAL"}
                                 /\ ~params'[wk'[w].act]
             /\ AboutToRun(w)' => ran'[wk'[w].act] = 0
  <2>1. ASSUME wk'[w].pc = "prepared" PROVE state'[wk'[w].act] = "unborn"
    BY <1>0, <2>1, StoreAssumption DEF SingleExecutor, QuietRow, QuietWorker
  <2>2. ASSUME Committed(w)'
        PROVE  /\ state'[wk'[w].act] \notin {"unborn", "PENDING_APPROVAL"}
               /\ ~params'[wk'[w].act]
    BY <1>0, <2>2 DEF SingleExecutor, QuietRow, QuietWorker
  <2>3. ASSUME AboutToRun(w)' PROVE ran'[wk'[w].act] = 0
    <3>1. Committed(w)'
      BY <2>3 DEF Committed
    <3> QED BY <2>3, <3>1 DEF SingleExecutor, QuietWorker
  <2> QED BY <2>1, <2>2, <2>3
<1>3. ASSUME NEW v \in Workers, NEW w \in Workers, v # w, wk'[v].act = wk'[w].act
      PROVE  wk'[w].pc # "prepared" /\ ~(Committed(v)' /\ Committed(w)')
  <2>1. ~(Committed(v)' /\ Committed(w)')
    BY <1>3 DEF SingleExecutor, QuietWorker
  <2>2. ASSUME wk'[w].pc = "prepared" PROVE FALSE
    <3>1. wk[w].pc = "prepared" /\ wk'[w].act = wk[w].act /\ wk[w].act \in Actions
      BY <1>0, <2>2, StoreAssumption DEF QuietWorker
    <3>2. state[wk[w].act] = "unborn"
      BY <3>1 DEF SingleExecutor
    <3>3. wk'[v].act = wk[v].act
      BY <1>3, <3>1, <3>2, StoreAssumption DEF QuietWorker
    <3> QED BY <1>3, <3>1, <3>3 DEF SingleExecutor
  <2> QED BY <2>1, <2>2
<1> QED BY <1>1, <1>2, <1>3 DEF SingleExecutor

\* Helpers for the quiet steps.
LEMMA OneWorker ==
  ASSUME TypeInv, NEW w \in Workers, NEW q, wk' = [wk EXCEPT ![w] = q]
  PROVE  wk'[w] = q /\ \A v \in Workers \ {w} : wk'[v] = wk[v]
BY DEF TypeInv, WorkersOK

LEMMA SameQuiet ==
  ASSUME NEW v \in Workers, wk'[v] = wk[v]
  PROVE  QuietWorker(v)
BY DEF QuietWorker, Committed, AboutToRun

LEMMA OneQuiet ==
  ASSUME TypeInv, NEW w \in Workers, NEW q, wk' = [wk EXCEPT ![w] = q], QuietWorker(w)
  PROVE  \A v \in Workers : QuietWorker(v)
BY OneWorker, SameQuiet

LEMMA IdleQuiet ==
  ASSUME NEW v \in Workers, wk'[v] = IdleWk
  PROVE  QuietWorker(v)
<1>1. IdleWk.pc = "idle" /\ IdleWk.act = None /\ IdleWk.then = "idle"
  BY DEF IdleWk
<1> QED BY <1>1 DEF QuietWorker, Committed, AboutToRun

LEMMA ReturnQuiet ==
  ASSUME TypeInv, NEW w \in Workers, Return(w)
  PROVE  \A v \in Workers : QuietWorker(v)
<1>1. wk' = [wk EXCEPT ![w] = IdleWk]
  BY DEF Return
<1>2. QuietWorker(w)
  BY <1>1, OneWorker, IdleQuiet
<1> QED BY <1>1, <1>2, OneQuiet

\* Any field but the program counter may move without disturbing a worker.
LEMMA RowsStill ==
  ASSUME SingleExecutor, state' = state, status' = status, params' = params
  PROVE  \A a \in Actions : QuietRow(a)
BY DEF SingleExecutor, QuietRow

\* An ended row is no longer anybody's to run.
LEMMA CloseExpiredQuiet ==
  ASSUME SingleExecutor, TypeInv, NEW p, NEW b \in Actions, CloseExpired(p, b)
  PROVE  \A a \in Actions : QuietRow(a)
BY DEF SingleExecutor, QuietRow, CloseExpired, TypeInv, RowsType, ApprovalsType

LEMMA ServerStepSafe ==
  ASSUME TypeInv, TypeInv', SingleExecutor, NEW w \in ServerWorkers, ServerStep(w)
  PROVE  SingleExecutor'
<1> w \in Workers
  BY DEF Workers
<1> wk[w] \in WorkerRecords
  BY DEF TypeInv, WorkersOK
<1>1. CASE Boot(w)
  <2>1. \A v \in Workers : QuietWorker(v)
    <3> DEFINE q == [IdleWk EXCEPT !.pc = "prune", !.then = "booted"]
    <3>1. wk' = [wk EXCEPT ![w] = q]
      BY <1>1 DEF Boot, TypeInv, WorkersOK
    <3>2. wk'[w] = q
      BY <3>1, OneWorker
    <3>3. q.pc = "prune" /\ q.then = "booted" /\ q.act = None
      BY DEF IdleWk
    <3> HIDE DEF q
    <3>4. QuietWorker(w)
      BY <1>1, <3>2, <3>3 DEF QuietWorker, Committed, AboutToRun, Boot
    <3> QED BY <3>1, <3>4, OneQuiet
  <2>2. \A a \in Actions : QuietRow(a)
    BY <1>1, RowsStill DEF Boot, approvals
  <2>3. ran' = ran
    BY <1>1 DEF Boot, world
  <2> QED BY <2>1, <2>2, <2>3, QuietStep
<1>2. CASE RecoverCollect(w)
  <2>1. \A v \in Workers : QuietWorker(v)
    <3> DEFINE q == [wk[w] EXCEPT !.pc = "recovering", !.todo = {a \in Actions : Eligible(wk[w].pass, a)}]
    <3>1. wk' = [wk EXCEPT ![w] = q]
      BY <1>2 DEF RecoverCollect, TypeInv, WorkersOK
    <3>2. wk'[w] = q
      BY <3>1, OneWorker
    <3>3. q.pc = "recovering" /\ q.act = wk[w].act /\ q.then = wk[w].then
      BY DEF WorkerRecords
    <3> HIDE DEF q
    <3>4. QuietWorker(w)
      BY <1>2, <3>2, <3>3 DEF QuietWorker, Committed, AboutToRun, RecoverCollect
    <3> QED BY <3>1, <3>4, OneQuiet
  <2>2. \A a \in Actions : QuietRow(a)
    BY <1>2, RowsStill DEF RecoverCollect, approvals
  <2>3. ran' = ran
    BY <1>2 DEF RecoverCollect, world
  <2> QED BY <2>1, <2>2, <2>3, QuietStep
<1>3. CASE RecoverNext(w)
  <2>1. \A v \in Workers : QuietWorker(v)
    <3> DEFINE q == [wk[w] EXCEPT !.pc = IF wk[w].pass < 3 THEN "recover" ELSE "collect",
                                !.pass = IF wk[w].pass < 3 THEN @ + 1 ELSE 0]
    <3>0. wk[w].then = "booted"
      BY <1>3 DEF RecoverNext, TypeInv, WorkersOK, GoodRecord
    <3>1. wk' = [wk EXCEPT ![w] = q]
      BY <1>3 DEF RecoverNext, TypeInv, WorkersOK
    <3>2. wk'[w] = q
      BY <3>1, OneWorker
    <3>3. q.pc \in {"recover", "collect"} /\ q.act = wk[w].act /\ q.then = wk[w].then
      BY DEF WorkerRecords
    <3> HIDE DEF q
    <3>4. QuietWorker(w)
      BY <1>3, <3>2, <3>3, <3>0 DEF QuietWorker, Committed, AboutToRun, RecoverNext
    <3> QED BY <3>1, <3>4, OneQuiet
  <2>2. \A a \in Actions : QuietRow(a)
    BY <1>3, RowsStill DEF RecoverNext, approvals
  <2>3. ran' = ran
    BY <1>3 DEF RecoverNext, world
  <2> QED BY <2>1, <2>2, <2>3, QuietStep
<1>4. CASE \E a \in Actions : closeCrashOrphan(w, a)
  <2> PICK b \in Actions : closeCrashOrphan(w, b)
    BY <1>4
  <2>1. \A v \in Workers : QuietWorker(v)
    <3> DEFINE q == [wk[w] EXCEPT !.todo = @ \ {b}]
    <3>1. wk' = [wk EXCEPT ![w] = q]
      BY DEF closeCrashOrphan, TypeInv, WorkersOK
    <3>2. wk'[w] = q
      BY <3>1, OneWorker
    <3>3. q.pc = wk[w].pc /\ q.act = wk[w].act /\ q.then = wk[w].then
      BY DEF WorkerRecords
    <3> HIDE DEF q
    <3>4. QuietWorker(w)
      BY <3>2, <3>3 DEF QuietWorker, Committed, AboutToRun, closeCrashOrphan
    <3> QED BY <3>1, <3>4, OneQuiet
  <2>2. \A a \in Actions : QuietRow(a)
    <3>1. CASE ~Eligible(wk[w].pass, b)
      BY <3>1, RowsStill DEF closeCrashOrphan, approvals
    <3>2. CASE Eligible(wk[w].pass, b)
      <4>1. RecoveryTarget[wk[w].pass] \in {"OUTCOME_UNKNOWN", "FAILED"}
        BY DEF closeCrashOrphan, TypeInv, WorkersOK, GoodRecord, RecoveryTarget
      <4>2. state[b] \notin {"unborn", "PENDING_APPROVAL"} /\ ~params[b]
        BY <3>2 DEF Eligible, SingleExecutor, StoredStates, TerminalStates
      <4> QED BY <3>2, <4>1, <4>2 DEF closeCrashOrphan, QuietRow, SingleExecutor, TypeInv, RowsType, approvals
    <3> QED BY <3>1, <3>2
  <2>3. ran' = ran
    BY DEF closeCrashOrphan, world
  <2> QED BY <2>1, <2>2, <2>3, QuietStep
<1>5. CASE \E a \in Actions : Postpone(w, a)
  <2> PICK b \in Actions : Postpone(w, b)
    BY <1>5
  <2>1. \A v \in Workers : QuietWorker(v)
    <3> DEFINE q == [wk[w] EXCEPT !.todo = @ \ {b}]
    <3>1. wk' = [wk EXCEPT ![w] = q]
      BY DEF Postpone, TypeInv, WorkersOK
    <3>2. wk'[w] = q
      BY <3>1, OneWorker
    <3>3. q.pc = wk[w].pc /\ q.act = wk[w].act /\ q.then = wk[w].then
      BY DEF WorkerRecords
    <3> HIDE DEF q
    <3>4. QuietWorker(w)
      BY <3>2, <3>3 DEF QuietWorker, Committed, AboutToRun, Postpone
    <3> QED BY <3>1, <3>4, OneQuiet
  <2>2. \A a \in Actions : QuietRow(a)
    BY RowsStill DEF Postpone, approvals
  <2>3. ran' = ran
    BY DEF Postpone, world
  <2> QED BY <2>1, <2>2, <2>3, QuietStep
<1>6. CASE CollectExpired(w)
  <2>1. \A v \in Workers : QuietWorker(v)
    <3> DEFINE q == [wk[w] EXCEPT !.pc = "sweep", !.todo = {a \in Actions : status[a] = "PENDING" /\ overdue[a]}]
    <3>1. wk' = [wk EXCEPT ![w] = q]
      BY <1>6 DEF CollectExpired, TypeInv, WorkersOK
    <3>2. wk'[w] = q
      BY <3>1, OneWorker
    <3>3. q.pc = "sweep" /\ q.act = wk[w].act /\ q.then = wk[w].then
      BY DEF WorkerRecords
    <3> HIDE DEF q
    <3>4. QuietWorker(w)
      BY <1>6, <3>2, <3>3 DEF QuietWorker, Committed, AboutToRun, CollectExpired
    <3> QED BY <3>1, <3>4, OneQuiet
  <2>2. \A a \in Actions : QuietRow(a)
    BY <1>6, RowsStill DEF CollectExpired, approvals
  <2>3. ran' = ran
    BY <1>6 DEF CollectExpired, world
  <2> QED BY <2>1, <2>2, <2>3, QuietStep
<1>7. CASE SweepDone(w) \/ SweepAborts(w)
  <2>0. EndSweep(w)
    BY <1>7 DEF SweepDone, SweepAborts
  <2>1. \A v \in Workers : QuietWorker(v)
    <3>1. CASE wk[w].then = "ready"
      <4> DEFINE q == [wk[w] EXCEPT !.pc = "ready", !.todo = {}]
      <4>1. wk' = [wk EXCEPT ![w] = q]
        BY <2>0, <3>1 DEF EndSweep, TypeInv, WorkersOK
      <4>2. wk'[w] = q
        BY <4>1, OneWorker
      <4>3. q.act = wk[w].act /\ q.pc = "ready" /\ q.then = wk[w].then
        BY DEF WorkerRecords
      <4> HIDE DEF q
      <4>4. QuietWorker(w)
        BY <2>0, <3>1, <4>2, <4>3 DEF QuietWorker, Committed, AboutToRun, EndSweep
      <4> QED BY <4>1, <4>4, OneQuiet
    <3>2. CASE wk[w].then # "ready"
      <4>1. wk' = [wk EXCEPT ![w] = IdleWk]
        BY <2>0, <3>2 DEF EndSweep, TypeInv, WorkersOK
      <4> QED BY <4>1, OneWorker, IdleQuiet, OneQuiet
    <3> QED BY <3>1, <3>2
  <2>2. \A a \in Actions : QuietRow(a)
    BY <2>0, RowsStill DEF EndSweep, approvals
  <2>3. ran' = ran
    BY <2>0 DEF EndSweep, world
  <2> QED BY <2>1, <2>2, <2>3, QuietStep
<1>8. CASE \E a \in Actions : sweepExpiredOne(w, a)
  <2> PICK b \in Actions : sweepExpiredOne(w, b)
    BY <1>8
  <2>1. \A v \in Workers : QuietWorker(v)
    <3> DEFINE q == [wk[w] EXCEPT !.todo = @ \ {b}]
    <3>1. wk' = [wk EXCEPT ![w] = q]
      BY DEF sweepExpiredOne, TypeInv, WorkersOK
    <3>2. wk'[w] = q
      BY <3>1, OneWorker
    <3>3. q.pc = wk[w].pc /\ q.act = wk[w].act /\ q.then = wk[w].then
      BY DEF WorkerRecords
    <3> HIDE DEF q
    <3>4. QuietWorker(w)
      BY <3>2, <3>3 DEF QuietWorker, Committed, AboutToRun, sweepExpiredOne
    <3> QED BY <3>1, <3>4, OneQuiet
  <2>2. \A a \in Actions : QuietRow(a)
    <3>1. CASE CloseExpired(Home(w), b)
      BY <3>1, CloseExpiredQuiet
    <3>2. CASE ~CloseExpired(Home(w), b)
      BY <3>2, RowsStill DEF sweepExpiredOne, approvals
    <3> QED BY <3>1, <3>2
  <2>3. ran' = ran
    BY DEF sweepExpiredOne, CloseExpired, world
  <2> QED BY <2>1, <2>2, <2>3, QuietStep
<1>9. CASE Prune(w)
  <2>1. \A v \in Workers : QuietWorker(v)
    <3> DEFINE q == [wk[w] EXCEPT !.pc = IF wk[w].then = "booted" THEN "recover" ELSE "collect",
                                !.pass = IF wk[w].then = "booted" THEN 1 ELSE 0]
    <3>1. wk' = [wk EXCEPT ![w] = q]
      BY <1>9 DEF Prune, TypeInv, WorkersOK
    <3>2. wk'[w] = q
      BY <3>1, OneWorker
    <3>3. q.pc \in {"recover", "collect"} /\ (q.pc = "collect" => wk[w].then # "booted") /\ q.act = wk[w].act /\ q.then = wk[w].then
      BY DEF WorkerRecords
    <3> HIDE DEF q
    <3>4. QuietWorker(w)
      BY <1>9, <3>2, <3>3 DEF QuietWorker, Committed, AboutToRun, Prune
    <3> QED BY <3>1, <3>4, OneQuiet
  <2>2. \A a \in Actions : QuietRow(a)
    <3> PICK gone \in SUBSET Prunable :
          /\ state' = [a \in Actions |-> IF a \in gone THEN "pruned" ELSE state[a]]
          /\ status' = [a \in Actions |-> IF a \in gone THEN "none" ELSE status[a]]
          /\ params' = [a \in Actions |-> IF a \in gone THEN FALSE ELSE params[a]]
      BY <1>9 DEF Prune
    <3>1. \A a \in gone : state[a] \in TerminalStates
      BY DEF Prunable, Terminal
    <3> QED BY <3>1 DEF QuietRow, SingleExecutor, TerminalStates
  <2>3. ran' = ran
    BY <1>9 DEF Prune, world
  <2> QED BY <2>1, <2>2, <2>3, QuietStep
<1>10. CASE \E a \in Actions, c \in Classes : Prepare(w, a, c)
  <2> PICK a \in Actions, c \in Classes : Prepare(w, a, c)
    BY <1>10
  <2> DEFINE q == [wk[w] EXCEPT !.pc = "prepared", !.act = a]
  <2>1. wk' = [wk EXCEPT ![w] = q]
    BY DEF Prepare, TypeInv, WorkersOK
  <2>2. wk'[w] = q /\ \A v \in Workers \ {w} : wk'[v] = wk[v]
    BY <2>1, OneWorker
  <2>3. q.pc = "prepared" /\ q.act = a
    BY DEF WorkerRecords
  <2> HIDE DEF q
  <2>4. state' = state /\ status' = status /\ params' = params /\ ran' = ran
    BY DEF Prepare, approvals, world
  <2>5. state[a] = "unborn" /\ \A v \in Workers : wk[v].act # a
    BY DEF Prepare, Fresh
  <2>6. ~Committed(w)' /\ ~AboutToRun(w)'
    BY <2>2, <2>3 DEF Committed, AboutToRun
  <2>7. \A v \in Workers \ {w} : (Committed(v)' <=> Committed(v)) /\ (AboutToRun(v)' <=> AboutToRun(v))
    BY <2>2 DEF Committed, AboutToRun
  <2> QED BY <2>2, <2>3, <2>4, <2>5, <2>6, <2>7 DEF SingleExecutor
<1>11. CASE RecordRefusal(w)
  <2>1. \A v \in Workers : QuietWorker(v)
    <3> DEFINE q == [wk[w] EXCEPT !.pc = "note", !.then = "idle"]
    <3>1. wk' = [wk EXCEPT ![w] = q]
      BY <1>11 DEF RecordRefusal, TypeInv, WorkersOK, Noted
    <3>2. wk'[w] = q
      BY <3>1, OneWorker
    <3>3. q.act = wk[w].act /\ q.pc = "note" /\ q.then = "idle"
      BY DEF WorkerRecords
    <3> HIDE DEF q
    <3>4. QuietWorker(w)
      BY <1>11, <3>2, <3>3 DEF QuietWorker, Committed, AboutToRun, RecordRefusal
    <3> QED BY <3>1, <3>4, OneQuiet
  <2>2. \A a \in Actions : QuietRow(a)
    <3>0. wk[w].act \in Actions /\ wk[w].pc = "prepared"
      BY <1>11 DEF RecordRefusal, TypeInv, WorkersOK, GoodRecord, HoldingPCs
    <3>1. /\ state[wk[w].act] = "unborn" /\ ~params[wk[w].act] /\ status[wk[w].act] = "none"
          /\ \A v \in Workers : wk[v].act = wk[w].act => v = w
      BY <3>0 DEF SingleExecutor
    <3>2. wk'[w].pc = "note"
      BY <1>11 DEF RecordRefusal, Noted, TypeInv, WorkersOK, WorkerRecords
    <3>3. PICK v \in {"DENIED", "SHADOWED"} : state' = [state EXCEPT ![wk[w].act] = v]
      BY <1>11 DEF RecordRefusal, Refusals
    <3>4. params' = params /\ status' = status
      BY <1>11 DEF RecordRefusal, approvals
    <3> QED BY <3>0, <3>1, <3>2, <3>3, <3>4 DEF QuietRow, SingleExecutor, TypeInv, RowsType
  <2>3. ran' = ran
    BY <1>11 DEF RecordRefusal, world
  <2> QED BY <2>1, <2>2, <2>3, QuietStep
<1>12. CASE Park(w)
  <2>1. \A v \in Workers : QuietWorker(v)
    <3> DEFINE q == [wk[w] EXCEPT !.pc = "note", !.then = "idle"]
    <3>1. wk' = [wk EXCEPT ![w] = q]
      BY <1>12 DEF Park, TypeInv, WorkersOK, Noted
    <3>2. wk'[w] = q
      BY <3>1, OneWorker
    <3>3. q.act = wk[w].act /\ q.pc = "note" /\ q.then = "idle"
      BY DEF WorkerRecords
    <3> HIDE DEF q
    <3>4. QuietWorker(w)
      BY <1>12, <3>2, <3>3 DEF QuietWorker, Committed, AboutToRun, Park
    <3> QED BY <3>1, <3>4, OneQuiet
  <2>2. \A a \in Actions : QuietRow(a)
    <3>0. wk[w].act \in Actions /\ wk[w].pc = "prepared"
      BY <1>12 DEF Park, TypeInv, WorkersOK, GoodRecord, HoldingPCs
    <3>1. /\ state[wk[w].act] = "unborn" /\ ~params[wk[w].act] /\ status[wk[w].act] = "none"
          /\ \A v \in Workers : wk[v].act = wk[w].act => v = w
      BY <3>0 DEF SingleExecutor
    <3>2. wk'[w].pc = "note"
      BY <1>12 DEF Park, Noted, TypeInv, WorkersOK, WorkerRecords
    <3> QED BY <1>12, <3>0, <3>1, <3>2 DEF Park, QuietRow, SingleExecutor, TypeInv, RowsType, ApprovalsType
  <2>3. ran' = ran
    BY <1>12 DEF Park, world
  <2> QED BY <2>1, <2>2, <2>3, QuietStep
<1>13. CASE RecordAuthorized(w)
  <2> DEFINE b == wk[w].act
  <2> DEFINE q == [wk[w] EXCEPT !.pc = "note", !.then = "ready"]
  <2>0. b \in Actions /\ wk[w].pc = "prepared"
    BY <1>13 DEF RecordAuthorized, TypeInv, WorkersOK, GoodRecord, HoldingPCs
  <2>1. wk' = [wk EXCEPT ![w] = q]
    BY <1>13 DEF RecordAuthorized, Noted, TypeInv, WorkersOK
  <2>2. wk'[w] = q /\ \A v \in Workers \ {w} : wk'[v] = wk[v]
    BY <2>1, OneWorker
  <2>3. q.pc = "note" /\ q.act = b /\ q.then = "ready"
    BY DEF WorkerRecords
  <2>4. /\ state[b] = "unborn" /\ ran[b] = 0 /\ ~params[b]
        /\ \A v \in Workers \ {w} : wk[v].act # b
    BY <2>0 DEF SingleExecutor
  <2>5. /\ state' = [state EXCEPT ![b] = "AUTHORIZED"] /\ status' = status
        /\ params' = params /\ ran' = ran
    BY <1>13 DEF RecordAuthorized, approvals, world
  <2>6. state \in [Actions -> StoredStates \cup {"unborn", "pruned"}]
    BY DEF TypeInv, RowsType
  <2>8. \A v \in Workers \ {w} : (Committed(v)' <=> Committed(v)) /\ (AboutToRun(v)' <=> AboutToRun(v))
    BY <2>2 DEF Committed, AboutToRun
  <2> HIDE DEF q, b
  <2> QED
    BY <2>0, <2>2, <2>3, <2>4, <2>5, <2>6, <2>8 DEF SingleExecutor
<1>14. CASE RecordFails(w)
  <2>1. Return(w)
    BY <1>14 DEF RecordFails
  <2>2. \A a \in Actions : QuietRow(a)
    BY <1>14, RowsStill DEF RecordFails, approvals
  <2>3. ran' = ran
    BY <1>14 DEF RecordFails, world
  <2> QED BY <2>1, <2>2, <2>3, ReturnQuiet, QuietStep
<1>15. CASE \E due \in BOOLEAN : NoteWrite(w, due)
  <2> PICK due \in BOOLEAN : NoteWrite(w, due)
    BY <1>15
  <2>1. \A v \in Workers : QuietWorker(v)
    <3>1. CASE Return(w)
      BY <3>1, ReturnQuiet
    <3>2. ASSUME NEW x \in {"prune", wk[w].then}, Goto(w, x), x # "idle" PROVE QuietWorker(w)
      <4> DEFINE q == [wk[w] EXCEPT !.pc = x]
      <4>1. wk'[w] = q
        BY <3>2, OneWorker DEF Goto, TypeInv, WorkersOK
      <4>2. q.act = wk[w].act /\ q.pc = x /\ q.then = wk[w].then
        BY DEF WorkerRecords
      <4>3. wk[w].pc = "note" /\ wk[w].then \in {"idle", "ready"}
        BY DEF NoteWrite, TypeInv, WorkersOK, GoodRecord, WorkerRecords
      <4> HIDE DEF q
      <4> QED BY <3>2, <4>1, <4>2, <4>3 DEF QuietWorker, Committed, AboutToRun
    <3>3. \A x : Goto(w, x) => \A v \in Workers \ {w} : wk'[v] = wk[v]
      BY DEF Goto, TypeInv, WorkersOK
    <3> QED BY <3>1, <3>2, <3>3, SameQuiet DEF NoteWrite
  <2>2. \A a \in Actions : QuietRow(a)
    BY RowsStill DEF NoteWrite, approvals
  <2>3. ran' = ran
    BY DEF NoteWrite, world
  <2> QED BY <2>1, <2>2, <2>3, QuietStep
<1> QED
  BY <1>1, <1>2, <1>3, <1>4, <1>5, <1>6, <1>7, <1>8, <1>9, <1>10, <1>11, <1>12, <1>13,
     <1>14, <1>15 DEF ServerStep

LEMMA ExecStepSafe ==
  ASSUME TypeInv, TypeInv', SingleExecutor, NEW w \in Workers, ExecStep(w)
  PROVE  SingleExecutor'
<1> wk[w] \in WorkerRecords
  BY DEF TypeInv, WorkersOK
<1>1. CASE Dispatch(w)
  <2> DEFINE b == wk[w].act
  <2>0. b \in Actions /\ AboutToRun(w) /\ Committed(w)
    BY <1>1 DEF Dispatch, AboutToRun, Committed, TypeInv, WorkersOK, GoodRecord, HoldingPCs
  <2>1. /\ wk'[w].pc = "running" /\ wk'[w].act = b
        /\ \A v \in Workers \ {w} : wk'[v] = wk[v]
    <3> DEFINE q == [wk[w] EXCEPT !.pc = "running"]
    <3>1. wk' = [wk EXCEPT ![w] = q]
      BY <1>1 DEF Dispatch, Goto, TypeInv, WorkersOK
    <3>2. q.pc = "running" /\ q.act = wk[w].act
      BY DEF WorkerRecords
    <3> QED BY <3>1, <3>2, OneWorker
  <2>2. ~AboutToRun(w)' /\ wk'[w].pc # "prepared"
    BY <2>1 DEF AboutToRun
  <2>3. \A v \in Workers \ {w} : (Committed(v)' <=> Committed(v)) /\ (AboutToRun(v)' <=> AboutToRun(v))
    BY <2>1 DEF Committed, AboutToRun
  <2>4. /\ ran[b] = 0 /\ state[b] \notin {"unborn", "PENDING_APPROVAL"} /\ ~params[b]
        /\ \A v \in Workers \ {w} : Committed(v) => wk[v].act # b
    BY <2>0 DEF SingleExecutor
  <2>5. ran' = [ran EXCEPT ![b] = 1] /\ state' = state /\ status' = status /\ params' = params
    BY <1>1, <2>0, <2>4 DEF Dispatch, TypeInv, WorldType, approvals
  <2>6. ran \in [Actions -> Nat] /\ \A v \in Workers : AboutToRun(v) => Committed(v)
    BY DEF TypeInv, WorldType, Committed
  <2> HIDE DEF b
  <2> QED BY <2>0, <2>1, <2>2, <2>3, <2>4, <2>5, <2>6 DEF SingleExecutor
<1>2. CASE Deliver(w)
  <2>1. wk' = wk /\ ran' = ran
    BY <1>2 DEF Deliver
  <2>2. \A a \in Actions : QuietRow(a)
    BY <1>2, RowsStill DEF Deliver, approvals
  <2> QED BY <2>1, <2>2, SameQuiet, QuietStep
<1>3. CASE ToolReturns(w)
  <2>1. \A v \in Workers : QuietWorker(v)
    <3>0. PICK err \in PossibleErrors(delivered[wk[w].act]) :
            wk' = [wk EXCEPT ![w].pc = "returned", ![w].out = CloseStateAfterRun(err)]
      BY <1>3 DEF ToolReturns
    <3> DEFINE q == [wk[w] EXCEPT !.pc = "returned", !.out = CloseStateAfterRun(err)]
    <3>1. wk' = [wk EXCEPT ![w] = q]
      BY <3>0 DEF TypeInv, WorkersOK
    <3>2. wk'[w] = q
      BY <3>1, OneWorker
    <3>3. q.act = wk[w].act /\ q.then = wk[w].then /\ q.pc = "returned"
      BY DEF WorkerRecords
    <3> HIDE DEF q
    <3>4. QuietWorker(w)
      BY <1>3, <3>2, <3>3 DEF QuietWorker, Committed, AboutToRun, ToolReturns
    <3> QED BY <3>1, <3>4, OneQuiet
  <2>2. \A a \in Actions : QuietRow(a)
    BY <1>3, RowsStill DEF ToolReturns, approvals
  <2>3. ran' = ran
    BY <1>3 DEF ToolReturns, world
  <2> QED BY <2>1, <2>2, <2>3, QuietStep
<1>4. CASE Close(w)
  <2> DEFINE b == wk[w].act
  <2>1. Return(w) /\ ran' = ran
    BY <1>4 DEF Close, world
  <2>2. /\ b \in Actions /\ wk[w].out \in TerminalStates
        /\ state[b] \notin {"unborn", "PENDING_APPROVAL"} /\ ~params[b]
    BY <1>4 DEF Close, TypeInv, WorkersOK, GoodRecord, HoldingPCs, SingleExecutor, Committed
  <2>3. \A a \in Actions : QuietRow(a)
    BY <1>4, <2>2 DEF Close, QuietRow, SingleExecutor, TypeInv, RowsType, TerminalStates, approvals
  <2> QED BY <2>1, <2>3, ReturnQuiet, QuietStep
<1>5. CASE CloseRefused(w)
  <2>1. Return(w) /\ ran' = ran
    BY <1>5 DEF CloseRefused, world
  <2>2. \A a \in Actions : QuietRow(a)
    BY <1>5, RowsStill DEF CloseRefused, approvals
  <2> QED BY <2>1, <2>2, ReturnQuiet, QuietStep
<1>6. CASE DecideRefused(w)
  <2>1. Return(w) /\ ran' = ran
    BY <1>6 DEF DecideRefused, world
  <2>2. \A a \in Actions : QuietRow(a)
    BY <1>6, RowsStill DEF DecideRefused, approvals
  <2> QED BY <2>1, <2>2, ReturnQuiet, QuietStep
<1>7. CASE ResumeRefused(w)
  <2>1. Return(w) /\ ran' = ran
    BY <1>7 DEF ResumeRefused, world
  <2>2. \A a \in Actions : QuietRow(a)
    BY <1>7, RowsStill DEF ResumeRefused, approvals
  <2> QED BY <2>1, <2>2, ReturnQuiet, QuietStep
<1>8. CASE \E a \in Actions, verb \in {"approved", "rejected"} : BeginDecide(w, a, verb)
  <2> PICK b \in Actions, verb \in {"approved", "rejected"} : BeginDecide(w, b, verb)
    BY <1>8
  <2>1. \A v \in Workers : QuietWorker(v)
    <3> DEFINE q == [wk[w] EXCEPT !.pc = "deciding", !.act = b, !.verb = verb, !.late = overdue[b]]
    <3>1. wk' = [wk EXCEPT ![w] = q]
      BY DEF BeginDecide, TypeInv, WorkersOK
    <3>2. wk'[w] = q
      BY <3>1, OneWorker
    <3>3. q.pc = "deciding" /\ q.act = b
      BY DEF WorkerRecords
    <3> HIDE DEF q
    <3>4. QuietWorker(w)
      BY <3>2, <3>3 DEF QuietWorker, Committed, AboutToRun, BeginDecide, SingleExecutor
    <3> QED BY <3>1, <3>4, OneQuiet
  <2>2. \A a \in Actions : QuietRow(a)
    BY RowsStill DEF BeginDecide, approvals
  <2>3. ran' = ran
    BY DEF BeginDecide, world
  <2> QED BY <2>1, <2>2, <2>3, QuietStep
<1>9. CASE ExpiredTouch(w)
  <2>1. wk[w].act \in Actions
    BY <1>9 DEF ExpiredTouch, TypeInv, WorkersOK, GoodRecord, HoldingPCs
  <2>2. CloseExpired(Home(w), wk[w].act) /\ Return(w) /\ ran' = ran
    BY <1>9 DEF ExpiredTouch, CloseExpired, world
  <2> QED BY <2>1, <2>2, CloseExpiredQuiet, ReturnQuiet, QuietStep
<1>10. CASE \E d \in Actions : Approve(w, d)
  <2> PICK d \in Actions : Approve(w, d)
    BY <1>10
  <2> DEFINE b == wk[w].act
  <2>0. /\ b \in Actions /\ wk[w].pc = "deciding" /\ state[b] = "PENDING_APPROVAL"
        /\ state[d] = "unborn" /\ \A v \in Workers : wk[v].act # d
    BY DEF Approve, DecisionAct, Fresh, TypeInv, WorkersOK, GoodRecord, HoldingPCs
  <2>1. \A v \in Workers : QuietWorker(v)
    <3> DEFINE q == [wk[w] EXCEPT !.pc = "resume"]
    <3>1. wk' = [wk EXCEPT ![w] = q]
      BY DEF Approve, TypeInv, WorkersOK, Goto
    <3>2. wk'[w] = q
      BY <3>1, OneWorker
    <3>3. q.act = wk[w].act /\ q.then = wk[w].then /\ q.pc = "resume"
      BY DEF WorkerRecords
    <3> HIDE DEF q
    <3>4. QuietWorker(w)
      BY <3>2, <3>3 DEF QuietWorker, Committed, AboutToRun, Approve
    <3> QED BY <3>1, <3>4, OneQuiet
  <2>2. \A a \in Actions : QuietRow(a)
    <3>1. ~params[d]
      BY <2>0 DEF SingleExecutor
    <3> QED BY <2>0, <3>1 DEF Approve, QuietRow, SingleExecutor, TypeInv, RowsType, ApprovalsType
  <2>3. ran' = ran
    BY DEF Approve, world
  <2> QED BY <2>1, <2>2, <2>3, QuietStep
<1>11. CASE \E d \in Actions : Reject(w, d)
  <2> PICK d \in Actions : Reject(w, d)
    BY <1>11
  <2> DEFINE b == wk[w].act
  <2>0. /\ b \in Actions /\ wk[w].pc = "deciding" /\ state[b] = "PENDING_APPROVAL"
        /\ state[d] = "unborn" /\ \A v \in Workers : wk[v].act # d
    BY DEF Reject, DecisionAct, Fresh, TypeInv, WorkersOK, GoodRecord, HoldingPCs
  <2>1. Return(w) /\ ran' = ran
    BY DEF Reject, world
  <2>2. \A a \in Actions : QuietRow(a)
    <3>1. ~params[d]
      BY <2>0 DEF SingleExecutor
    <3> QED BY <2>0, <3>1 DEF Reject, QuietRow, SingleExecutor, TypeInv, RowsType, ApprovalsType
  <2> QED BY <2>1, <2>2, ReturnQuiet, QuietStep
<1>12. CASE ResumeRead(w)
  <2>1. \A v \in Workers : QuietWorker(v)
    <3> DEFINE q == [wk[w] EXCEPT !.pc = "claiming"]
    <3>1. wk' = [wk EXCEPT ![w] = q]
      BY <1>12 DEF ResumeRead, TypeInv, WorkersOK, Goto
    <3>2. wk'[w] = q
      BY <3>1, OneWorker
    <3>3. q.act = wk[w].act /\ q.then = wk[w].then /\ q.pc = "claiming"
      BY DEF WorkerRecords
    <3> HIDE DEF q
    <3>4. QuietWorker(w)
      BY <1>12, <3>2, <3>3 DEF QuietWorker, Committed, AboutToRun, ResumeRead
    <3> QED BY <3>1, <3>4, OneQuiet
  <2>2. \A a \in Actions : QuietRow(a)
    BY <1>12, RowsStill DEF ResumeRead, approvals
  <2>3. ran' = ran
    BY <1>12 DEF ResumeRead, world
  <2> QED BY <2>1, <2>2, <2>3, QuietStep
<1>13. CASE Claim(w)
  <2> DEFINE b == wk[w].act
  <2>0. /\ b \in Actions /\ wk[w].pc = "claiming"
        /\ params[b] /\ state[b] = "APPROVED"
    BY <1>13 DEF Claim, TypeInv, WorkersOK, GoodRecord, HoldingPCs
  <2>1. /\ wk'[w].pc = "claimed" /\ wk'[w].act = b
        /\ \A v \in Workers \ {w} : wk'[v] = wk[v]
    <3> DEFINE q == [wk[w] EXCEPT !.pc = "claimed"]
    <3>1. wk' = [wk EXCEPT ![w] = q]
      BY <1>13 DEF Claim, Goto, TypeInv, WorkersOK
    <3>2. q.pc = "claimed" /\ q.act = wk[w].act
      BY DEF WorkerRecords
    <3> QED BY <3>1, <3>2, OneWorker
  <2>2. \A v \in Workers \ {w} : (Committed(v)' <=> Committed(v)) /\ (AboutToRun(v)' <=> AboutToRun(v))
    BY <2>1 DEF Committed, AboutToRun
  <2>3. /\ ran[b] = 0 /\ \A v \in Workers : wk[v].act = b => ~Committed(v) /\ wk[v].pc # "prepared"
    BY <2>0 DEF SingleExecutor
  <2>4. /\ params' = [params EXCEPT ![b] = FALSE] /\ params \in [Actions -> BOOLEAN]
        /\ state' = state /\ status' = status /\ ran' = ran
    BY <1>13 DEF Claim, TypeInv, ApprovalsType, world
  <2> HIDE DEF b
  <2> QED BY <2>0, <2>1, <2>2, <2>3, <2>4 DEF SingleExecutor
<1> QED
  BY <1>1, <1>2, <1>3, <1>4, <1>5, <1>6, <1>7, <1>8, <1>9, <1>10, <1>11, <1>12, <1>13
  DEF ExecStep

LEMMA CLIStepSafe ==
  ASSUME TypeInv, TypeInv', SingleExecutor, NEW c \in CLIs, CLIStep(c)
  PROVE  SingleExecutor'
<1> c \in Workers
  BY DEF Workers
<1> wk[c] \in WorkerRecords
  BY DEF TypeInv, WorkersOK
<1>1. CASE StartCLI(c)
  <2>1. wk' = wk /\ ran' = ran
    BY <1>1 DEF StartCLI, world
  <2>2. \A a \in Actions : QuietRow(a)
    BY <1>1, RowsStill DEF StartCLI, approvals
  <2> QED BY <2>1, <2>2, SameQuiet, QuietStep
<1>2. CASE \E a \in Actions : BeginExecute(c, a)
  <2> PICK b \in Actions : BeginExecute(c, b)
    BY <1>2
  <2>1. \A v \in Workers : QuietWorker(v)
    <3> DEFINE q == [wk[c] EXCEPT !.pc = "resume", !.act = b]
    <3>1. wk' = [wk EXCEPT ![c] = q]
      BY DEF BeginExecute, TypeInv, WorkersOK
    <3>2. wk'[c] = q
      BY <3>1, OneWorker
    <3>3. q.pc = "resume" /\ q.act = b
      BY DEF WorkerRecords
    <3> HIDE DEF q
    <3>4. QuietWorker(c)
      BY <3>2, <3>3 DEF QuietWorker, Committed, AboutToRun, BeginExecute, SingleExecutor
    <3> QED BY <3>1, <3>4, OneQuiet
  <2>2. \A a \in Actions : QuietRow(a)
    BY RowsStill DEF BeginExecute, approvals
  <2>3. ran' = ran
    BY DEF BeginExecute, world
  <2> QED BY <2>1, <2>2, <2>3, QuietStep
<1>3. CASE \E a \in Actions, exclusive \in BOOLEAN : BeginOperate(c, a, exclusive)
  <2> PICK b \in Actions, exclusive \in BOOLEAN : BeginOperate(c, b, exclusive)
    BY <1>3
  <2>0. state[b] = "unborn" /\ \A v \in Workers : wk[v].act # b
    BY DEF BeginOperate, Fresh
  <2>1. /\ wk'[c].pc = "operating" /\ wk'[c].act = b
        /\ \A v \in Workers \ {c} : wk'[v] = wk[v]
    <3> DEFINE q == [wk[c] EXCEPT !.pc = "operating", !.act = b]
    <3>1. wk' = [wk EXCEPT ![c] = q]
      BY DEF BeginOperate, TypeInv, WorkersOK
    <3>2. q.pc = "operating" /\ q.act = b
      BY DEF WorkerRecords
    <3> QED BY ZenonT(60), <3>1, <3>2, OneWorker
  <2>2. \A v \in Workers \ {c} : (Committed(v)' <=> Committed(v)) /\ (AboutToRun(v)' <=> AboutToRun(v))
    BY <2>1 DEF Committed, AboutToRun
  <2>3. ran[b] = 0 /\ ~params[b]
    BY <2>0 DEF SingleExecutor
  <2>4. /\ state' = [state EXCEPT ![b] = "AUTHORIZED"]
        /\ state \in [Actions -> StoredStates \cup {"unborn", "pruned"}]
        /\ params' = params /\ status' = status /\ ran' = ran
    BY DEF BeginOperate, TypeInv, RowsType, approvals, world
  <2> QED BY <2>0, <2>1, <2>2, <2>3, <2>4 DEF SingleExecutor
<1>4. CASE Operate(c)
  <2> DEFINE b == wk[c].act
  <2>0. b \in Actions /\ AboutToRun(c) /\ Committed(c)
    BY <1>4 DEF Operate, AboutToRun, Committed, TypeInv, WorkersOK, GoodRecord, HoldingPCs
  <2>1. /\ wk'[c].pc = "returned" /\ wk'[c].act = b
        /\ \A v \in Workers \ {c} : wk'[v] = wk[v]
    <3>0. PICK out \in {"SUCCEEDED", "FAILED"} :
            wk' = [wk EXCEPT ![c].pc = "returned", ![c].out = out]
      BY <1>4 DEF Operate
    <3> DEFINE q == [wk[c] EXCEPT !.pc = "returned", !.out = out]
    <3>1. wk' = [wk EXCEPT ![c] = q]
      BY <3>0 DEF TypeInv, WorkersOK
    <3>2. q.pc = "returned" /\ q.act = wk[c].act
      BY DEF WorkerRecords
    <3> QED BY <3>1, <3>2, OneWorker
  <2>2. ~AboutToRun(c)' /\ wk'[c].pc # "prepared"
    BY <2>1 DEF AboutToRun
  <2>3. \A v \in Workers \ {c} : (Committed(v)' <=> Committed(v)) /\ (AboutToRun(v)' <=> AboutToRun(v))
    BY <2>1 DEF Committed, AboutToRun
  <2>4. /\ ran[b] = 0 /\ state[b] \notin {"unborn", "PENDING_APPROVAL"} /\ ~params[b]
        /\ \A v \in Workers \ {c} : Committed(v) => wk[v].act # b
    BY <2>0 DEF SingleExecutor
  <2>5. ran' = [ran EXCEPT ![b] = 1] /\ state' = state /\ status' = status /\ params' = params
    BY <1>4, <2>0, <2>4 DEF Operate, TypeInv, WorldType, approvals
  <2>6. ran \in [Actions -> Nat] /\ \A v \in Workers : AboutToRun(v) => Committed(v)
    BY DEF TypeInv, WorldType, Committed
  <2> HIDE DEF b
  <2> QED BY <2>0, <2>1, <2>2, <2>3, <2>4, <2>5, <2>6 DEF SingleExecutor
<1>5. CASE \E k \in Keys : RotateKey(c, k)
  <2> DEFINE b == wk[c].act
  <2>0. b \in Actions /\ AboutToRun(c) /\ Committed(c)
    BY <1>5 DEF RotateKey, AboutToRun, Committed, TypeInv, WorkersOK, GoodRecord, HoldingPCs
  <2>1. /\ wk'[c].pc = "returned" /\ wk'[c].act = b
        /\ \A v \in Workers \ {c} : wk'[v] = wk[v]
    <3>0. PICK out \in {"SUCCEEDED", "FAILED"} :
            wk' = [wk EXCEPT ![c].pc = "returned", ![c].out = out]
      BY <1>5 DEF RotateKey
    <3> DEFINE q == [wk[c] EXCEPT !.pc = "returned", !.out = out]
    <3>1. wk' = [wk EXCEPT ![c] = q]
      BY <3>0 DEF TypeInv, WorkersOK
    <3>2. q.pc = "returned" /\ q.act = wk[c].act
      BY DEF WorkerRecords
    <3> QED BY <3>1, <3>2, OneWorker
  <2>2. ~AboutToRun(c)' /\ wk'[c].pc # "prepared"
    BY <2>1 DEF AboutToRun
  <2>3. \A v \in Workers \ {c} : (Committed(v)' <=> Committed(v)) /\ (AboutToRun(v)' <=> AboutToRun(v))
    BY <2>1 DEF Committed, AboutToRun
  <2>4. /\ ran[b] = 0 /\ state[b] \notin {"unborn", "PENDING_APPROVAL"} /\ ~params[b]
        /\ \A v \in Workers \ {c} : Committed(v) => wk[v].act # b
    BY <2>0 DEF SingleExecutor
  <2>5. ran' = [ran EXCEPT ![b] = 1] /\ state' = state /\ status' = status /\ params' = params
    BY <1>5, <2>0, <2>4 DEF RotateKey, TypeInv, WorldType, approvals
  <2>6. ran \in [Actions -> Nat] /\ \A v \in Workers : AboutToRun(v) => Committed(v)
    BY DEF TypeInv, WorldType, Committed
  <2> HIDE DEF b
  <2> QED BY <2>0, <2>1, <2>2, <2>3, <2>4, <2>5, <2>6 DEF SingleExecutor
<1>6. CASE RotateFails(c)
  <2>1. \A v \in Workers : QuietWorker(v)
    <3> DEFINE q == [wk[c] EXCEPT !.pc = "returned", !.out = "FAILED"]
    <3>1. wk' = [wk EXCEPT ![c] = q]
      BY <1>6 DEF RotateFails, TypeInv, WorkersOK
    <3>2. wk'[c] = q
      BY <3>1, OneWorker
    <3>3. q.pc = "returned" /\ q.act = wk[c].act
      BY DEF WorkerRecords
    <3> HIDE DEF q
    <3>4. QuietWorker(c)
      BY <1>6, <3>2, <3>3 DEF QuietWorker, Committed, AboutToRun, RotateFails
    <3> QED BY <3>1, <3>4, OneQuiet
  <2>2. \A a \in Actions : QuietRow(a)
    BY <1>6, RowsStill DEF RotateFails, approvals
  <2>3. ran' = ran
    BY <1>6 DEF RotateFails, world
  <2> QED BY <2>1, <2>2, <2>3, QuietStep
<1> QED
  BY <1>1, <1>2, <1>3, <1>4, <1>5, <1>6 DEF CLIStep

LEMMA NextSafe == TypeInv /\ TypeInv' /\ SingleExecutor /\ [Next]_vars => SingleExecutor'
<1> SUFFICES ASSUME TypeInv, TypeInv', SingleExecutor, [Next]_vars PROVE SingleExecutor'
  OBVIOUS
<1>1. CASE \E p \in Procs : Crash(p)
  <2> PICK p \in Procs : Crash(p)
    BY <1>1
  <2>1. \A v \in Workers : wk'[v] = IdleWk \/ wk'[v] = wk[v]
    BY DEF Crash
  <2>2. \A v \in Workers : QuietWorker(v)
    BY <2>1, IdleQuiet, SameQuiet
  <2>3. \A a \in Actions : QuietRow(a)
    BY RowsStill DEF Crash, approvals
  <2>4. ran' = ran
    BY DEF Crash, world
  <2> QED BY <2>2, <2>3, <2>4, QuietStep
<1>2. CASE (\E a \in Actions : Expire(a)) \/ EditConfig \/ UNCHANGED vars
  <2>1. wk' = wk /\ ran' = ran /\ state' = state /\ status' = status /\ params' = params
    BY <1>2 DEF Expire, EditConfig, vars, approvals, world
  <2> QED BY <2>1, RowsStill, SameQuiet, QuietStep
<1> QED
  BY <1>1, <1>2, ServerStepSafe, ExecStepSafe, CLIStepSafe DEF Next

LEMMA InitSafe == Init => SingleExecutor
<1> SUFFICES ASSUME Init PROVE SingleExecutor
  OBVIOUS
<1>1. IdleWk.pc = "idle" /\ IdleWk.then = "idle"
  BY DEF IdleWk
<1>2. \A w \in Workers : wk[w].pc = "idle" /\ ~Committed(w) /\ ~AboutToRun(w)
  BY <1>1 DEF Init, Committed, AboutToRun
<1> QED BY <1>2 DEF Init, SingleExecutor

\* The single-executor discipline is an invariant.
THEOREM OneExecutor == Spec => []SingleExecutor
BY InitType, NextType, InitSafe, NextSafe, PTL DEF Spec

\* No action is dispatched twice, whatever commands, crashes, recoveries and
\* re-executions happen, for any number of processes, workers and actions.
THEOREM RunsAtMostOnce == Spec => []AtMostOnce
<1>1. SingleExecutor => AtMostOnce
  BY DEF SingleExecutor, AtMostOnce
<1> QED BY <1>1, OneExecutor, PTL

---------------------------------------------------------------------------
(* The ledger and the rows: the inductive invariant.                       *)

\* The action may still be closed by whoever holds it, or a boot gave the only
\* verdict that stays true whatever the tool does.
Open(a) == state[a] \in {"AUTHORIZED", "APPROVED"} \/ Outcomes(a) = {"OUTCOME_UNKNOWN"}

\* No human is needed, or one has decided.
Humanly(a) == Ceiling # NoCeiling /\ NeedsHuman(class[a]) => proof[a] # None

\* A call that may invoke a tool of the registry, or is inside one.
Executing(w) == Committed(w) /\ wk[w].pc \notin {"operating", "returned"}

\* What the row, the approval and the world know of an action.
RowOK(a) ==
  /\ delivered[a] => ran[a] = 1 /\ Humanly(a) /\ "FAILED" \notin Outcomes(a)
  /\ status[a] = "APPROVED" => proof[a] # None
  /\ proof[a] # None => "SUCCEEDED" \in Outcomes(proof[a])

\* What a worker in the middle of a call may rely on.
HeldOK(w) ==
  /\ wk[w].pc # "idle" => phase[Home(w)] # "down"
  /\ Committed(w) => /\ Open(wk[w].act)
                     /\ status[wk[w].act] # "none" => plaw[Home(w)] = pin[wk[w].act]
  /\ Executing(w) => Humanly(wk[w].act)
  /\ wk[w].pc = "running" => ran[wk[w].act] = 1
  /\ wk[w].pc = "returned" => /\ wk[w].out = "SUCCEEDED" => ran[wk[w].act] = 1
                              /\ wk[w].out = "FAILED" => ~delivered[wk[w].act]
                              /\ wk[w].out \in {"SUCCEEDED", "FAILED", "OUTCOME_UNKNOWN"}

\* The profile lock: a server that is not down holds it, with live ink.
SealOK ==
  /\ active \notin retired
  /\ phase[Server] # "down" => lock = Server /\ ink[Server] = active

LedgerInv ==
  /\ LedgerMatchesRows /\ SealOK
  /\ \A a \in Actions : RowOK(a)
  /\ \A w \in Workers : HeldOK(w)

---------------------------------------------------------------------------
(* Receipts.                                                               *)

Heard(rs, a) == {rs[i].outcome : i \in {j \in DOMAIN rs : rs[j].act = a}}
Unique(rs) == \A i, j \in DOMAIN rs : rs[i].act = rs[j].act => i = j

\* One more link of the chain adds its outcome to its action and to no other.
LEMMA AppendHeard ==
  ASSUME NEW rs \in Seq(Receipts), NEW r \in Receipts
  PROVE  /\ Append(rs, r) \in Seq(Receipts)
         /\ Heard(Append(rs, r), r.act) = Heard(rs, r.act) \cup {r.outcome}
         /\ \A b \in Actions : b # r.act => Heard(Append(rs, r), b) = Heard(rs, b)
         /\ Unique(rs) /\ Heard(rs, r.act) = {} => Unique(Append(rs, r))
<1> DEFINE n == Len(rs)
           qs == Append(rs, r)
<1>1. /\ qs \in Seq(Receipts) /\ n \in Nat
      /\ DOMAIN rs = 1..n /\ DOMAIN qs = 1..(n + 1)
      /\ \A i \in 1..n : qs[i] = rs[i]
      /\ qs[n + 1] = r
  OBVIOUS
<1> HIDE DEF n, qs
<1>2. Heard(qs, r.act) = Heard(rs, r.act) \cup {r.outcome}
  <2>1. ASSUME NEW o \in Heard(qs, r.act) PROVE o \in Heard(rs, r.act) \cup {r.outcome}
    <3>1. PICK i \in 1..(n + 1) : qs[i].act = r.act /\ o = qs[i].outcome
      BY <1>1, <2>1 DEF Heard
    <3>2. CASE i = n + 1
      BY <1>1, <3>1, <3>2
    <3>3. CASE i \in 1..n
      BY <1>1, <3>1, <3>3 DEF Heard
    <3> QED BY <1>1, <3>2, <3>3
  <2>2. ASSUME NEW o \in Heard(rs, r.act) PROVE o \in Heard(qs, r.act)
    <3>1. PICK i \in 1..n : rs[i].act = r.act /\ o = rs[i].outcome
      BY <1>1, <2>2 DEF Heard
    <3>2. i \in 1..(n + 1) /\ qs[i].act = r.act /\ o = qs[i].outcome
      BY <1>1, <3>1
    <3> QED BY <1>1, <3>2 DEF Heard
  <2>3. r.outcome \in Heard(qs, r.act)
    <3>1. n + 1 \in DOMAIN qs /\ qs[n + 1].act = r.act
      BY <1>1
    <3> QED BY <1>1, <3>1 DEF Heard
  <2> QED BY <2>1, <2>2, <2>3
<1>3. ASSUME NEW b \in Actions, b # r.act PROVE Heard(qs, b) = Heard(rs, b)
  <2>1. {j \in DOMAIN qs : qs[j].act = b} = {j \in DOMAIN rs : rs[j].act = b}
    BY <1>1, <1>3
  <2>2. \A j \in DOMAIN rs : qs[j] = rs[j]
    BY <1>1
  <2> QED BY <2>1, <2>2 DEF Heard
<1>4. ASSUME Unique(rs), Heard(rs, r.act) = {} PROVE Unique(qs)
  <2>1. \A i \in 1..n : rs[i].act # r.act
    BY <1>1, <1>4 DEF Heard
  <2> QED BY <1>1, <1>4, <2>1 DEF Unique
<1> QED BY <1>1, <1>2, <1>3, <1>4 DEF qs

LEMMA OutcomesHeard ==
  /\ \A a : Outcomes(a) = Heard(receipts, a) /\ Outcomes(a)' = Heard(receipts', a)
  /\ LedgerMatchesRows => Unique(receipts)
BY DEF Outcomes, Heard, Unique, LedgerMatchesRows

---------------------------------------------------------------------------
(* What a step does to the rows: the kinds of step of the store.           *)

\* One receipt for the action, with this outcome.
Sealed(a, o) == \E r \in Receipts : r.act = a /\ r.outcome = o /\ receipts' = Append(receipts, r)

Still == UNCHANGED <<state, class, status, pin, proof, receipts>>
Names(a) ==
  /\ state[a] = "unborn"
  /\ \A b \in Actions \ {a} : class'[b] = class[b]
  /\ UNCHANGED <<state, status, pin, proof, receipts>>
Clears(a) ==
  /\ state[a] = "unborn" /\ state' = [state EXCEPT ![a] = "AUTHORIZED"]
  /\ UNCHANGED <<class, status, pin, proof, receipts>>
Parks(a) ==
  /\ state[a] = "unborn" /\ state' = [state EXCEPT ![a] = "PENDING_APPROVAL"]
  /\ status' = [status EXCEPT ![a] = "PENDING"]
  /\ \A b \in Actions \ {a} : pin'[b] = pin[b]
  /\ UNCHANGED <<class, proof, receipts>>
Refuses(a, o) ==
  /\ state[a] = "unborn" /\ o \in {"DENIED", "SHADOWED"}
  /\ state' = [state EXCEPT ![a] = o] /\ Sealed(a, o)
  /\ UNCHANGED <<class, status, pin, proof>>
Ends(a, o) ==
  /\ state[a] \in {"AUTHORIZED", "APPROVED"} /\ o \in {"SUCCEEDED", "FAILED", "OUTCOME_UNKNOWN"}
  /\ state' = [state EXCEPT ![a] = o] /\ Sealed(a, o)
  /\ UNCHANGED <<class, status, pin, proof>>
Lapses(a) ==
  /\ state[a] = "PENDING_APPROVAL" /\ status[a] = "PENDING"
  /\ state' = [state EXCEPT ![a] = "REJECTED"]
  /\ status' = [status EXCEPT ![a] = "EXPIRED"] /\ Sealed(a, "REJECTED")
  /\ UNCHANGED <<class, pin, proof>>
Grants(a, d) ==
  /\ state[a] = "PENDING_APPROVAL" /\ state[d] = "unborn" /\ status[a] = "PENDING"
  /\ state' = [state EXCEPT ![a] = "APPROVED", ![d] = "SUCCEEDED"]
  /\ status' = [status EXCEPT ![a] = "APPROVED"] /\ proof' = [proof EXCEPT ![a] = d]
  /\ Sealed(d, "SUCCEEDED")
  /\ UNCHANGED <<class, pin>>
Declines(a, d) ==
  /\ state[a] = "PENDING_APPROVAL" /\ state[d] = "unborn" /\ status[a] = "PENDING"
  /\ state' = [state EXCEPT ![a] = "REJECTED", ![d] = "SUCCEEDED"]
  /\ status' = [status EXCEPT ![a] = "REJECTED"] /\ proof' = [proof EXCEPT ![a] = d]
  /\ \E r, q \in Receipts :
       /\ r.act = d /\ r.outcome = "SUCCEEDED" /\ q.act = a /\ q.outcome = "REJECTED"
       /\ receipts' = Append(Append(receipts, r), q)
  /\ UNCHANGED <<class, pin>>
Forgets(gone) ==
  /\ \A a \in gone : state[a] \in TerminalStates
  /\ state' = [a \in Actions |-> IF a \in gone THEN "pruned" ELSE state[a]]
  /\ status' = [a \in Actions |-> IF a \in gone THEN "none" ELSE status[a]]
  /\ UNCHANGED <<class, pin, proof, receipts>>

\* What no step ever does to a row: a verdict is final and survives the row, a
\* row that exists keeps its class, its pin and its human.
RowFacts(a) ==
  /\ Outcomes(a) \subseteq Outcomes(a)'
  /\ state[a] \in TerminalStates \cup {"pruned"} =>
       Outcomes(a)' = Outcomes(a) /\ state'[a] \in {state[a], "pruned"}
  /\ state[a] \in {"AUTHORIZED", "APPROVED"} =>
       state'[a] \in {state[a], "SUCCEEDED", "FAILED", "OUTCOME_UNKNOWN"}
  /\ state[a] # "unborn" => /\ state'[a] # "unborn"
                            /\ class'[a] = class[a] /\ pin'[a] = pin[a]
                            /\ status[a] = "none" => status'[a] = "none"
                            /\ proof[a] # None => proof'[a] # None
  /\ status'[a] = "APPROVED" => status[a] = "APPROVED" \/ proof'[a] # None
  /\ status[a] = "APPROVED" /\ proof[a] # None => proof'[a] # None
  /\ proof'[a] # None => proof'[a] = proof[a] \/ "SUCCEEDED" \in Outcomes(proof[a])'

LEMMA SealedOutcomes ==
  ASSUME TypeInv, LedgerMatchesRows, NEW a \in Actions, NEW o, Sealed(a, o),
         state[a] \notin TerminalStates \cup {"pruned"}
  PROVE  /\ Outcomes(a) = {} /\ Outcomes(a)' = {o} /\ Unique(receipts')
         /\ \A b \in Actions \ {a} : Outcomes(b)' = Outcomes(b)
<1>1. PICK r \in Receipts : r.act = a /\ r.outcome = o /\ receipts' = Append(receipts, r)
  BY DEF Sealed
<1>2. Outcomes(a) = {}
  BY DEF LedgerMatchesRows, Terminal
<1>3. receipts \in Seq(Receipts)
  BY DEF TypeInv, RowsType
<1> QED BY SMTT(40), <1>1, <1>2, <1>3, AppendHeard, OutcomesHeard

\* A row and the ledger agree on it.
RowMatches(a) ==
  IF state[a] = "pruned" THEN Outcomes(a) # {}
  ELSE Outcomes(a) = IF Terminal(a) THEN {state[a]} ELSE {}

LEMMA MatchesRows ==
  /\ LedgerMatchesRows => \A a \in Actions : RowMatches(a)
  /\ Unique(receipts') /\ (\A a \in Actions : RowMatches(a)') => LedgerMatchesRows'
BY DEF LedgerMatchesRows, RowMatches, Unique

\* Every kind of step keeps the rows and the ledger in agreement.
LEMMA StillFacts ==
  ASSUME LedgerMatchesRows, Still
  PROVE  LedgerMatchesRows' /\ \A a \in Actions : RowFacts(a)
<1>1. \A a : Outcomes(a)' = Outcomes(a)
  BY DEF Still, Outcomes
<1>2. LedgerMatchesRows'
  BY <1>1 DEF LedgerMatchesRows, Still, Terminal
<1> QED BY <1>1, <1>2 DEF RowFacts, Still

LEMMA NamesFacts ==
  ASSUME LedgerMatchesRows, NEW n \in Actions, Names(n)
  PROVE  LedgerMatchesRows' /\ \A a \in Actions : RowFacts(a)
<1>1. \A a : Outcomes(a)' = Outcomes(a)
  BY DEF Names, Outcomes
<1>2. LedgerMatchesRows'
  BY <1>1 DEF LedgerMatchesRows, Names, Terminal
<1> QED BY <1>1, <1>2 DEF RowFacts, Names

LEMMA ClearsFacts ==
  ASSUME TypeInv, LedgerMatchesRows, NEW n \in Actions, Clears(n)
  PROVE  LedgerMatchesRows' /\ \A a \in Actions : RowFacts(a)
<1>1. \A a : Outcomes(a)' = Outcomes(a)
  BY DEF Clears, Outcomes
<1>2. Unique(receipts')
  BY OutcomesHeard DEF Clears
<1>3. ASSUME NEW a \in Actions PROVE RowMatches(a)' /\ RowFacts(a)
  <2>1. RowMatches(a)
    BY MatchesRows
  <2> QED BY <1>1, <2>1 DEF RowMatches, RowFacts, Terminal, TerminalStates, Clears, TypeInv, RowsType
<1> QED BY <1>2, <1>3, MatchesRows

LEMMA ParksFacts ==
  ASSUME TypeInv, LedgerMatchesRows, NEW n \in Actions, Parks(n)
  PROVE  LedgerMatchesRows' /\ \A a \in Actions : RowFacts(a)
<1>1. \A a : Outcomes(a)' = Outcomes(a)
  BY DEF Parks, Outcomes
<1>2. Unique(receipts')
  BY OutcomesHeard DEF Parks
<1>3. ASSUME NEW a \in Actions PROVE RowMatches(a)' /\ RowFacts(a)
  <2>1. RowMatches(a)
    BY MatchesRows
  <2> QED BY <1>1, <2>1 DEF RowMatches, RowFacts, Terminal, TerminalStates, Parks, TypeInv, RowsType, ApprovalsType
<1> QED BY <1>2, <1>3, MatchesRows

LEMMA RefusesFacts ==
  ASSUME TypeInv, LedgerMatchesRows, NEW n \in Actions, NEW o, Refuses(n, o)
  PROVE  LedgerMatchesRows' /\ \A a \in Actions : RowFacts(a)
<1>1. /\ Outcomes(n) = {} /\ Outcomes(n)' = {o} /\ Unique(receipts')
      /\ \A b \in Actions \ {n} : Outcomes(b)' = Outcomes(b)
  BY SealedOutcomes DEF Refuses, TerminalStates
<1>2. ASSUME NEW a \in Actions PROVE RowMatches(a)' /\ RowFacts(a)
  <2>1. RowMatches(a)
    BY MatchesRows
  <2> QED BY <1>1, <2>1 DEF RowMatches, RowFacts, Terminal, TerminalStates, Refuses, TypeInv, RowsType
<1> QED BY <1>1, <1>2, MatchesRows

LEMMA EndsFacts ==
  ASSUME TypeInv, LedgerMatchesRows, NEW n \in Actions, NEW o, Ends(n, o)
  PROVE  /\ LedgerMatchesRows' /\ \A a \in Actions : RowFacts(a)
         /\ Outcomes(n)' = {o} /\ \A b \in Actions \ {n} : Outcomes(b)' = Outcomes(b)
<1>1. /\ Outcomes(n) = {} /\ Outcomes(n)' = {o} /\ Unique(receipts')
      /\ \A b \in Actions \ {n} : Outcomes(b)' = Outcomes(b)
  BY SealedOutcomes DEF Ends, TerminalStates
<1>2. ASSUME NEW a \in Actions PROVE RowMatches(a)' /\ RowFacts(a)
  <2>1. RowMatches(a)
    BY MatchesRows
  <2> QED BY <1>1, <2>1 DEF RowMatches, RowFacts, Terminal, TerminalStates, Ends, TypeInv, RowsType
<1> QED BY <1>1, <1>2, MatchesRows

LEMMA LapsesFacts ==
  ASSUME TypeInv, LedgerMatchesRows, NEW n \in Actions, Lapses(n)
  PROVE  LedgerMatchesRows' /\ \A a \in Actions : RowFacts(a)
<1>1. /\ Outcomes(n) = {} /\ Outcomes(n)' = {"REJECTED"} /\ Unique(receipts')
      /\ \A b \in Actions \ {n} : Outcomes(b)' = Outcomes(b)
  BY SealedOutcomes DEF Lapses, TerminalStates
<1>2. ASSUME NEW a \in Actions PROVE RowMatches(a)' /\ RowFacts(a)
  <2>1. RowMatches(a)
    BY MatchesRows
  <2>2. /\ state'[n] = "REJECTED" /\ status'[n] = "EXPIRED"
        /\ \A b \in Actions \ {n} : state'[b] = state[b] /\ status'[b] = status[b]
    BY DEF Lapses, TypeInv, RowsType, ApprovalsType
  <2>3. RowMatches(a)'
    BY <1>1, <2>1, <2>2 DEF RowMatches, Terminal, TerminalStates
  <2>4. RowFacts(a)
    BY <1>1, <2>2 DEF RowFacts, Lapses, TerminalStates
  <2> QED BY <2>3, <2>4
<1> QED BY <1>1, <1>2, MatchesRows

LEMMA GrantsFacts ==
  ASSUME TypeInv, LedgerMatchesRows, NEW n \in Actions, NEW d \in Actions, Grants(n, d)
  PROVE  LedgerMatchesRows' /\ \A a \in Actions : RowFacts(a)
<1>1. /\ Outcomes(d) = {} /\ Outcomes(d)' = {"SUCCEEDED"} /\ Unique(receipts')
      /\ \A b \in Actions \ {d} : Outcomes(b)' = Outcomes(b)
  BY SealedOutcomes DEF Grants, TerminalStates
<1>2. ASSUME NEW a \in Actions PROVE RowMatches(a)' /\ RowFacts(a)
  <2>1. RowMatches(a)
    BY MatchesRows
  <2>2. None # d
    BY StoreAssumption
  <2>3. /\ state'[n] = "APPROVED" /\ status'[n] = "APPROVED" /\ proof'[n] = d /\ state'[d] = "SUCCEEDED"
        /\ n # d /\ \A b \in Actions \ {n, d} : state'[b] = state[b]
        /\ \A b \in Actions \ {n} : status'[b] = status[b] /\ proof'[b] = proof[b]
    BY DEF Grants, TypeInv, RowsType, ApprovalsType
  <2>4. RowMatches(a)'
    BY ZenonT(60), <1>1, <2>1, <2>3 DEF RowMatches, Terminal, TerminalStates, Grants
  <2>5. RowFacts(a)
    <3>1. CASE a = n
      <4>1. Outcomes(proof[a])' = Outcomes(d)'
        BY <2>3, <3>1 DEF Outcomes
      <4> QED BY <1>1, <2>2, <2>3, <3>1, <4>1 DEF RowFacts, Grants, TerminalStates
    <3>2. CASE a # n
      BY <1>1, <2>3, <3>2 DEF RowFacts, Grants, TerminalStates
    <3> QED BY <3>1, <3>2
  <2> QED BY <2>4, <2>5
<1> QED BY <1>1, <1>2, MatchesRows

LEMMA DeclinesOutcomes ==
  ASSUME TypeInv, LedgerMatchesRows, NEW n \in Actions, NEW d \in Actions, Declines(n, d)
  PROVE  /\ Outcomes(n)' = {"REJECTED"} /\ Outcomes(d)' = {"SUCCEEDED"} /\ Unique(receipts')
         /\ Outcomes(n) = {} /\ Outcomes(d) = {}
         /\ \A b \in Actions \ {n, d} : Outcomes(b)' = Outcomes(b)
<1>0. n # d
  BY DEF Declines
<1>1. PICK r, q \in Receipts :
        /\ r.act = d /\ r.outcome = "SUCCEEDED" /\ q.act = n /\ q.outcome = "REJECTED"
        /\ receipts' = Append(Append(receipts, r), q)
  BY DEF Declines
<1>2. Outcomes(n) = {} /\ Outcomes(d) = {} /\ Unique(receipts) /\ receipts \in Seq(Receipts)
  BY OutcomesHeard DEF LedgerMatchesRows, Terminal, TerminalStates, Declines, TypeInv, RowsType
<1> DEFINE rs == Append(receipts, r)
<1>3. /\ rs \in Seq(Receipts) /\ Unique(rs) /\ Heard(rs, d) = {"SUCCEEDED"}
      /\ \A b \in Actions \ {d} : Heard(rs, b) = Heard(receipts, b)
  BY ZenonT(60), <1>1, <1>2, AppendHeard, OutcomesHeard
<1> HIDE DEF rs
<1>4. /\ Unique(Append(rs, q)) /\ Heard(Append(rs, q), n) = {"REJECTED"}
      /\ \A b \in Actions \ {n} : Heard(Append(rs, q), b) = Heard(rs, b)
  <2>1. Heard(rs, n) = {}
    BY <1>0, <1>2, <1>3, OutcomesHeard
  <2> QED BY ZenonT(60), <1>1, <1>3, <2>1, AppendHeard
<1>5. receipts' = Append(rs, q)
  BY <1>1 DEF rs
<1> QED BY <1>0, <1>2, <1>3, <1>4, <1>5, OutcomesHeard

LEMMA DeclinesFacts ==
  ASSUME TypeInv, LedgerMatchesRows, NEW n \in Actions, NEW d \in Actions, Declines(n, d)
  PROVE  LedgerMatchesRows' /\ \A a \in Actions : RowFacts(a)
<1>0. n # d
  BY DEF Declines
<1>1. /\ Outcomes(n)' = {"REJECTED"} /\ Outcomes(d)' = {"SUCCEEDED"} /\ Unique(receipts')
      /\ Outcomes(n) = {} /\ Outcomes(d) = {}
      /\ \A b \in Actions \ {n, d} : Outcomes(b)' = Outcomes(b)
  BY DeclinesOutcomes
<1>2. ASSUME NEW a \in Actions PROVE RowMatches(a)' /\ RowFacts(a)
  <2>1. RowMatches(a)
    BY MatchesRows
  <2>2. None # d
    BY StoreAssumption
  <2>3. /\ state'[n] = "REJECTED" /\ status'[n] = "REJECTED" /\ proof'[n] = d /\ state'[d] = "SUCCEEDED"
        /\ \A b \in Actions \ {n, d} : state'[b] = state[b]
        /\ \A b \in Actions \ {n} : status'[b] = status[b] /\ proof'[b] = proof[b]
    BY <1>0 DEF Declines, TypeInv, RowsType, ApprovalsType
  <2>4. RowMatches(a)'
    BY ZenonT(60), <1>0, <1>1, <2>1, <2>3 DEF RowMatches, Terminal, TerminalStates, Declines
  <2>5. RowFacts(a)
    <3>1. CASE a = n
      <4>1. Outcomes(proof[a])' = Outcomes(d)'
        BY <2>3, <3>1 DEF Outcomes
      <4> QED BY <1>0, <1>1, <2>2, <2>3, <3>1, <4>1 DEF RowFacts, Declines, TerminalStates
    <3>2. CASE a # n
      BY <1>0, <1>1, <2>3, <3>2 DEF RowFacts, Declines, TerminalStates
    <3> QED BY <3>1, <3>2
  <2> QED BY <2>4, <2>5
<1> QED BY <1>1, <1>2, MatchesRows

LEMMA ForgetsFacts ==
  ASSUME TypeInv, LedgerMatchesRows, NEW gone \in SUBSET Actions, Forgets(gone)
  PROVE  LedgerMatchesRows' /\ \A a \in Actions : RowFacts(a)
<1>1. \A a : Outcomes(a)' = Outcomes(a)
  BY DEF Forgets, Outcomes
<1>2. Unique(receipts')
  BY OutcomesHeard DEF Forgets
<1>3. ASSUME NEW a \in Actions PROVE RowMatches(a)' /\ RowFacts(a)
  <2>1. RowMatches(a)
    BY MatchesRows
  <2> QED BY <1>1, <2>1 DEF RowMatches, RowFacts, Terminal, TerminalStates, Forgets
<1> QED BY <1>2, <1>3, MatchesRows

---------------------------------------------------------------------------
(* What a step does to the workers.                                        *)

\* The worker commits to nothing new and enters no tool; its process lives.
Calm(v) ==
  /\ wk'[v].pc # "idle" => phase'[Home(v)] # "down"
  /\ Committed(v)' => /\ Committed(v) /\ wk'[v].act = wk[v].act
                      /\ plaw'[Home(v)] = plaw[Home(v)]
  /\ Executing(v)' => Executing(v)
  /\ wk'[v].pc = "running" => wk[v].pc = "running"
  /\ wk'[v].pc = "returned" => wk[v].pc = "returned" /\ wk'[v].out = wk[v].out

\* What the worker holds is not ended but by recovery, nor acted on by another.
Spared(v) ==
  Committed(v) /\ Committed(v)' =>
    /\ state'[wk[v].act] \in {state[wk[v].act], "OUTCOME_UNKNOWN", "pruned"}
    /\ wk[v].pc = "returned" => delivered'[wk[v].act] = delivered[wk[v].act]

LEMMA CommittedActs == TypeInv => \A v \in Workers : Committed(v) => wk[v].act \in Actions
BY DEF TypeInv, WorkersOK, GoodRecord, HoldingPCs, Committed, AboutToRun

LEMMA OpenStays ==
  ASSUME LedgerMatchesRows, LedgerMatchesRows', NEW a \in Actions, RowFacts(a), Open(a),
         state'[a] \in {state[a], "OUTCOME_UNKNOWN", "pruned"}
  PROVE  Open(a)'
<1>1. CASE state[a] \in {"AUTHORIZED", "APPROVED"}
  <2>1. state'[a] = state[a] \/ state'[a] = "OUTCOME_UNKNOWN"
    BY <1>1 DEF RowFacts
  <2>2. state'[a] = "OUTCOME_UNKNOWN" => Outcomes(a)' = {"OUTCOME_UNKNOWN"}
    BY DEF LedgerMatchesRows, Terminal, TerminalStates
  <2> QED BY <1>1, <2>1, <2>2 DEF Open
<1>2. CASE Outcomes(a) = {"OUTCOME_UNKNOWN"}
  <2>1. state[a] \in TerminalStates \cup {"pruned"}
    BY <1>2 DEF LedgerMatchesRows, Terminal
  <2> QED BY <1>2, <2>1 DEF RowFacts, Open
<1> QED BY <1>1, <1>2 DEF Open

LEMMA HeldStays ==
  ASSUME TypeInv, SingleExecutor, LedgerMatchesRows, LedgerMatchesRows',
         \A a \in Actions : RowFacts(a) /\ (ran[a] = 1 => ran'[a] = 1),
         NEW v \in Workers, HeldOK(v), Calm(v), Spared(v)
  PROVE  HeldOK(v)'
<1> DEFINE a == wk[v].act
<1>1. Committed(v)' => /\ a \in Actions /\ wk'[v].act = a /\ state[a] # "unborn"
                       /\ Open(a) /\ state'[a] \in {state[a], "OUTCOME_UNKNOWN", "pruned"}
  BY CommittedActs DEF Calm, Spared, HeldOK, SingleExecutor
<1>2. Committed(v)' => Open(wk[v].act)'
  <2> SUFFICES ASSUME Committed(v)' PROVE Open(wk[v].act)'
    OBVIOUS
  <2>1. PICK b \in Actions : b = wk[v].act /\ b = wk'[v].act
    BY <1>1
  <2>2. Open(b)'
    BY <1>1, <2>1, OpenStays
  <2> QED BY <2>1, <2>2 DEF Open, Outcomes
<1>3. Committed(v)' => (status'[wk'[v].act] # "none" => plaw'[Home(v)] = pin'[wk'[v].act])
  BY <1>1 DEF RowFacts, HeldOK, Calm
<1>4. Executing(v)' => Humanly(wk[v].act)'
  <2>1. Executing(v)' => Executing(v) /\ Committed(v)'
    BY DEF Executing, Calm
  <2> QED BY <1>1, <2>1 DEF HeldOK, Humanly, RowFacts
<1>5. wk'[v].pc = "running" => ran'[wk'[v].act] = 1
  <2>1. wk'[v].pc = "running" => Committed(v)'
    BY DEF Committed
  <2> QED BY <1>1, <2>1 DEF HeldOK, Calm
<1>6. wk'[v].pc = "returned" => /\ wk'[v].out = "SUCCEEDED" => ran'[wk'[v].act] = 1
                                /\ wk'[v].out = "FAILED" => ~delivered'[wk'[v].act]
                                /\ wk'[v].out \in {"SUCCEEDED", "FAILED", "OUTCOME_UNKNOWN"}
  <2>1. wk'[v].pc = "returned" => Committed(v)' /\ Committed(v)
    BY DEF Committed, Calm
  <2> QED BY <1>1, <2>1 DEF HeldOK, Calm, Spared
<1>7. wk'[v].pc # "idle" => phase'[Home(v)] # "down"
  BY DEF Calm
<1>8. Home(v)' = Home(v)
  BY DEF Home
<1> QED BY <1>2, <1>3, <1>4, <1>5, <1>6, <1>7, <1>8 DEF HeldOK

LEMMA RowStays ==
  ASSUME TypeInv, SingleExecutor, LedgerMatchesRows', \A a \in Actions : RowFacts(a) /\ RowOK(a),
         NEW a \in Actions, delivered'[a] = delivered[a], ran[a] = 1 => ran'[a] = 1,
         state'[a] = "FAILED" => state[a] = "FAILED" \/ ~delivered[a]
  PROVE  RowOK(a)'
<1>1. ASSUME delivered[a] PROVE ran'[a] = 1 /\ Humanly(a)' /\ "FAILED" \notin Outcomes(a)'
  <2>1. ran[a] = 1 /\ Humanly(a) /\ "FAILED" \notin Outcomes(a)
    BY <1>1 DEF RowOK
  <2>2. state[a] \notin {"unborn", "PENDING_APPROVAL"}
    BY <2>1 DEF SingleExecutor
  <2>3. Humanly(a)'
    BY <2>1, <2>2 DEF Humanly, RowFacts
  <2>4. CASE state[a] \in {"AUTHORIZED", "APPROVED"}
    BY <1>1, <2>1, <2>3, <2>4 DEF RowFacts, LedgerMatchesRows, Terminal
  <2>5. CASE state[a] \in TerminalStates \cup {"pruned"}
    BY <2>1, <2>3, <2>5 DEF RowFacts
  <2> QED BY <2>1, <2>2, <2>3, <2>4, <2>5 DEF TypeInv, RowsType, StoredStates
<1>2. status'[a] = "APPROVED" => proof'[a] # None
  BY DEF RowFacts, RowOK
<1>3. proof'[a] # None => "SUCCEEDED" \in Outcomes(proof[a])'
  <2>1. CASE proof'[a] = proof[a] /\ proof[a] # None
    <3>1. proof[a] \in Actions
      BY <2>1 DEF TypeInv, ApprovalsType
    <3> DEFINE d == proof[a]
    <3>2. "SUCCEEDED" \in Outcomes(d)
      BY <2>1 DEF RowOK
    <3>3. Heard(receipts, d) \subseteq Heard(receipts', d)
      <4> HIDE DEF d
      <4>1. d \in Actions
        BY <3>1 DEF d
      <4> QED BY <4>1, OutcomesHeard DEF RowFacts
    <3>4. "SUCCEEDED" \in Heard(receipts', proof'[a])
      BY <2>1, <3>2, <3>3, OutcomesHeard
    <3> QED BY <3>4 DEF Outcomes, Heard
  <2> QED BY <2>1 DEF RowFacts
<1> QED BY <1>1, <1>2, <1>3 DEF RowOK

LEMMA CalmStep ==
  ASSUME TypeInv, SingleExecutor, LedgerInv, LedgerMatchesRows', SealOK',
         ran' = ran, delivered' = delivered,
         \A a \in Actions : RowFacts(a) /\ (state'[a] = "FAILED" => state[a] = "FAILED" \/ ~delivered[a]),
         \A v \in Workers : Calm(v) /\ Spared(v)
  PROVE  LedgerInv'
<1>1. \A a \in Actions : RowOK(a)'
  BY RowStays DEF LedgerInv
<1>2. \A v \in Workers : HeldOK(v)'
  BY HeldStays DEF LedgerInv
<1> QED BY <1>1, <1>2 DEF LedgerInv

LEMMA StillStep ==
  ASSUME TypeInv, SingleExecutor, LedgerInv, SealOK', Still,
         ran' = ran, delivered' = delivered, \A v \in Workers : Calm(v)
  PROVE  LedgerInv'
<1>1. LedgerMatchesRows' /\ \A a \in Actions : RowFacts(a)
  BY StillFacts DEF LedgerInv
<1>2. \A v \in Workers : Spared(v)
  BY DEF Spared, Still
<1> QED BY <1>1, <1>2, CalmStep DEF Still

---------------------------------------------------------------------------
(* The profile lock and the processes.                                     *)

LEMMA SealStays ==
  ASSUME SealOK, UNCHANGED <<keys, procs>>
  PROVE  SealOK'
BY DEF SealOK, keys, procs

LEMMA ReturnSeal ==
  ASSUME TypeInv, SealOK, NEW w \in Workers, Return(w), UNCHANGED keys
  PROVE  SealOK'
<1>1. w # Server /\ Server \in Procs
  BY StoreAssumption DEF Workers, Procs
<1>2. phase'[Server] = phase[Server]
  BY <1>1 DEF Return, TypeInv, ProcsType
<1> QED BY <1>1, <1>2 DEF Return, SealOK, keys

LEMMA ReturnCalm ==
  ASSUME TypeInv, LedgerInv, NEW w \in Workers, Return(w)
  PROVE  \A v \in Workers : Calm(v)
<1>0. IdleWk.pc = "idle" /\ IdleWk.then = "idle"
  BY DEF IdleWk
<1>1. wk'[w] = IdleWk /\ \A v \in Workers \ {w} : wk'[v] = wk[v]
  BY OneWorker DEF Return
<1>2. Calm(w)
  BY <1>0, <1>1 DEF Calm, Executing, Committed, AboutToRun
<1>3. ASSUME NEW v \in Workers \ {w} PROVE Calm(v)
  <2>1. Home(v) \in Procs /\ (w \in CLIs => Home(v) # w)
    BY StoreAssumption, HomeType DEF Home, Workers
  <2>2. phase'[Home(v)] = phase[Home(v)] /\ plaw' = plaw
    BY <2>1 DEF Return, TypeInv, ProcsType
  <2> QED BY <1>1, <2>2 DEF Calm, Executing, Committed, AboutToRun, LedgerInv, HeldOK
<1> QED BY <1>2, <1>3

\* The worker goes on inside its call, or takes one of a live process.
QuietMove(w) ==
  /\ wk[w].pc # "idle" \/ phase[Home(w)] # "down"
  /\ Committed(w)' => Committed(w) /\ wk'[w].act = wk[w].act
  /\ Executing(w)' => Executing(w)
  /\ wk'[w].pc \notin {"running", "returned"}
  /\ \A v \in Workers \ {w} : wk'[v] = wk[v]

LEMMA SameCalm ==
  ASSUME LedgerInv, NEW v \in Workers, wk'[v] = wk[v], phase' = phase, plaw' = plaw
  PROVE  Calm(v)
BY DEF Calm, Executing, Committed, AboutToRun, LedgerInv, HeldOK

LEMMA QuietCalm ==
  ASSUME LedgerInv, NEW w \in Workers, QuietMove(w), UNCHANGED procs
  PROVE  \A v \in Workers : Calm(v)
<1>1. phase' = phase /\ plaw' = plaw
  BY DEF procs
<1>2. Calm(w)
  BY <1>1 DEF QuietMove, Calm, LedgerInv, HeldOK
<1>3. \A v \in Workers \ {w} : Calm(v)
  BY <1>1, SameCalm DEF QuietMove
<1> QED BY <1>2, <1>3

---------------------------------------------------------------------------
(* Where a worker is after a step.                                         *)

Profile(w, p, a, t, o) ==
  /\ wk'[w].pc = p /\ wk'[w].act = a /\ wk'[w].then = t /\ wk'[w].out = o
  /\ \A v \in Workers \ {w} : wk'[v] = wk[v]

LEMMA SetPc ==
  ASSUME TypeInv, NEW w \in Workers, NEW x,
         wk' = [wk EXCEPT ![w].pc = x]
  PROVE  Profile(w, x, wk[w].act, wk[w].then, wk[w].out)
<1> DEFINE q == [wk[w] EXCEPT !.pc = x]
<1>1. wk[w] \in WorkerRecords /\ wk' = [wk EXCEPT ![w] = q]
  BY DEF TypeInv, WorkersOK
<1>2. wk'[w] = q /\ \A v \in Workers \ {w} : wk'[v] = wk[v]
  BY <1>1, OneWorker
<1> QED BY <1>1, <1>2 DEF Profile, WorkerRecords

LEMMA SetPcAct ==
  ASSUME TypeInv, NEW w \in Workers, NEW x, NEW a,
         wk' = [wk EXCEPT ![w].pc = x, ![w].act = a]
  PROVE  Profile(w, x, a, wk[w].then, wk[w].out)
<1> DEFINE q == [wk[w] EXCEPT !.pc = x, !.act = a]
<1>1. wk[w] \in WorkerRecords /\ wk' = [wk EXCEPT ![w] = q]
  BY DEF TypeInv, WorkersOK
<1>2. wk'[w] = q /\ \A v \in Workers \ {w} : wk'[v] = wk[v]
  BY <1>1, OneWorker
<1> QED BY <1>1, <1>2 DEF Profile, WorkerRecords

LEMMA SetPcOut ==
  ASSUME TypeInv, NEW w \in Workers, NEW x, NEW o,
         wk' = [wk EXCEPT ![w].pc = x, ![w].out = o]
  PROVE  Profile(w, x, wk[w].act, wk[w].then, o)
<1> DEFINE q == [wk[w] EXCEPT !.pc = x, !.out = o]
<1>1. wk[w] \in WorkerRecords /\ wk' = [wk EXCEPT ![w] = q]
  BY DEF TypeInv, WorkersOK
<1>2. wk'[w] = q /\ \A v \in Workers \ {w} : wk'[v] = wk[v]
  BY <1>1, OneWorker
<1> QED BY <1>1, <1>2 DEF Profile, WorkerRecords

LEMMA SetPcThen ==
  ASSUME TypeInv, NEW w \in Workers, NEW x, NEW t,
         wk' = [wk EXCEPT ![w].pc = x, ![w].then = t]
  PROVE  Profile(w, x, wk[w].act, t, wk[w].out)
<1> DEFINE q == [wk[w] EXCEPT !.pc = x, !.then = t]
<1>1. wk[w] \in WorkerRecords /\ wk' = [wk EXCEPT ![w] = q]
  BY DEF TypeInv, WorkersOK
<1>2. wk'[w] = q /\ \A v \in Workers \ {w} : wk'[v] = wk[v]
  BY <1>1, OneWorker
<1> QED BY <1>1, <1>2 DEF Profile, WorkerRecords

LEMMA SetPcTodo ==
  ASSUME TypeInv, NEW w \in Workers, NEW x, NEW s,
         wk' = [wk EXCEPT ![w].pc = x, ![w].todo = s]
  PROVE  Profile(w, x, wk[w].act, wk[w].then, wk[w].out)
<1> DEFINE q == [wk[w] EXCEPT !.pc = x, !.todo = s]
<1>1. wk[w] \in WorkerRecords /\ wk' = [wk EXCEPT ![w] = q]
  BY DEF TypeInv, WorkersOK
<1>2. wk'[w] = q /\ \A v \in Workers \ {w} : wk'[v] = wk[v]
  BY <1>1, OneWorker
<1> QED BY <1>1, <1>2 DEF Profile, WorkerRecords

LEMMA SetTodo ==
  ASSUME TypeInv, NEW w \in Workers, NEW s,
         wk' = [wk EXCEPT ![w].todo = s]
  PROVE  Profile(w, wk[w].pc, wk[w].act, wk[w].then, wk[w].out)
<1> DEFINE q == [wk[w] EXCEPT !.todo = s]
<1>1. wk[w] \in WorkerRecords /\ wk' = [wk EXCEPT ![w] = q]
  BY DEF TypeInv, WorkersOK
<1>2. wk'[w] = q /\ \A v \in Workers \ {w} : wk'[v] = wk[v]
  BY <1>1, OneWorker
<1> QED BY <1>1, <1>2 DEF Profile, WorkerRecords

LEMMA SetPcPass ==
  ASSUME TypeInv, NEW w \in Workers, NEW x, NEW n,
         wk' = [wk EXCEPT ![w].pc = x, ![w].pass = n]
  PROVE  Profile(w, x, wk[w].act, wk[w].then, wk[w].out)
<1> DEFINE q == [wk[w] EXCEPT !.pc = x, !.pass = n]
<1>1. wk[w] \in WorkerRecords /\ wk' = [wk EXCEPT ![w] = q]
  BY DEF TypeInv, WorkersOK
<1>2. wk'[w] = q /\ \A v \in Workers \ {w} : wk'[v] = wk[v]
  BY <1>1, OneWorker
<1> QED BY <1>1, <1>2 DEF Profile, WorkerRecords

LEMMA SetDecide ==
  ASSUME TypeInv, NEW w \in Workers, NEW a, NEW verb, NEW late,
         wk' = [wk EXCEPT ![w].pc = "deciding", ![w].act = a, ![w].verb = verb, ![w].late = late]
  PROVE  Profile(w, "deciding", a, wk[w].then, wk[w].out)
<1> DEFINE q == [wk[w] EXCEPT !.pc = "deciding", !.act = a, !.verb = verb, !.late = late]
<1>1. wk[w] \in WorkerRecords /\ wk' = [wk EXCEPT ![w] = q]
  BY DEF TypeInv, WorkersOK
<1>2. wk'[w] = q /\ \A v \in Workers \ {w} : wk'[v] = wk[v]
  BY <1>1, OneWorker
<1> QED BY <1>1, <1>2 DEF Profile, WorkerRecords

---------------------------------------------------------------------------
(* Which kind of step an action of the store is.                           *)

LEMMA TwoAppends ==
  ASSUME NEW S, NEW rs \in Seq(S), NEW r \in S, NEW q \in S
  PROVE  rs \o <<r, q>> = Append(Append(rs, r), q)
OBVIOUS

LEMMA AppendSealed ==
  ASSUME TypeInv, NEW p \in Procs, NEW a \in Actions, NEW o \in TerminalStates,
         AppendReceipt(p, a, o)
  PROVE  Sealed(a, o)
<1>1. Receipt(p, a, o) \in Receipts /\ Receipt(p, a, o).act = a /\ Receipt(p, a, o).outcome = o
  BY DEF Receipt, Receipts, TypeInv, ProcsType
<1> QED BY <1>1 DEF AppendReceipt, Sealed

LEMMA ExpiredLapses ==
  ASSUME TypeInv, NEW p \in Procs, NEW b \in Actions, CloseExpired(p, b)
  PROVE  Lapses(b)
BY AppendSealed DEF CloseExpired, Lapses, TerminalStates

\* Recovery ends what it finds in doubt with the verdict that nobody knows.
LEMMA OrphanEnds ==
  ASSUME TypeInv, NEW w \in Workers, NEW b \in Actions, closeCrashOrphan(w, b)
  PROVE  \/ Still /\ ~Eligible(wk[w].pass, b)
         \/ Ends(b, "OUTCOME_UNKNOWN")
<1>1. UNCHANGED <<class, status, pin, proof>> /\ Home(w) \in Procs
  BY HomeType DEF closeCrashOrphan, approvals
<1>2. CASE ~Eligible(wk[w].pass, b)
  BY <1>1, <1>2 DEF closeCrashOrphan, Still
<1>3. CASE Eligible(wk[w].pass, b)
  <2>1. wk[w].pass \in 1..2 /\ state[b] \in {"AUTHORIZED", "APPROVED"}
    BY <1>3 DEF Eligible, StoredStates
  <2>2. state' = [state EXCEPT ![b] = "OUTCOME_UNKNOWN"] /\ AppendReceipt(Home(w), b, "OUTCOME_UNKNOWN")
    BY <1>3, <2>1 DEF closeCrashOrphan, RecoveryTarget
  <2> QED BY <1>1, <2>1, <2>2, AppendSealed DEF Ends, TerminalStates
<1> QED BY <1>2, <1>3

LEMMA PruneForgets ==
  ASSUME NEW w, Prune(w)
  PROVE  \E gone \in SUBSET Actions : Forgets(gone)
BY DEF Prune, Prunable, Terminal, Forgets

LEMMA RefusalRefuses ==
  ASSUME TypeInv, SingleExecutor, NEW w \in Workers, NEW b \in Actions, b = wk[w].act, RecordRefusal(w)
  PROVE  \E o \in {"DENIED", "SHADOWED"} : Refuses(b, o)
<1>1. PICK o \in {"DENIED", "SHADOWED"} :
        state' = [state EXCEPT ![b] = o] /\ AppendReceipt(Home(w), b, o)
  BY DEF RecordRefusal, Refusals
<1>2. Sealed(b, o)
  BY <1>1, AppendSealed, HomeType DEF TerminalStates
<1> QED BY <1>1, <1>2 DEF RecordRefusal, Refuses, approvals, SingleExecutor

LEMMA AuthorizedClears ==
  ASSUME SingleExecutor, NEW w \in Workers, NEW b \in Actions, b = wk[w].act, RecordAuthorized(w)
  PROVE  Clears(b)
BY DEF RecordAuthorized, Clears, approvals, SingleExecutor

LEMMA ParkParks ==
  ASSUME TypeInv, SingleExecutor, NEW w \in Workers, NEW b \in Actions, b = wk[w].act, Park(w)
  PROVE  Parks(b)
BY DEF Park, Parks, SingleExecutor, TypeInv, ApprovalsType

LEMMA OperateClears ==
  ASSUME NEW c, NEW b \in Actions, NEW exclusive, BeginOperate(c, b, exclusive)
  PROVE  Clears(b)
BY DEF BeginOperate, Fresh, Clears, approvals

\* The close of a tool run: success only of what ran, failure only of what did
\* not reach the world.
LEMMA CloseEnds ==
  ASSUME TypeInv, SingleExecutor, NEW w \in Workers, HeldOK(w), NEW b \in Actions,
         b = wk[w].act, Close(w)
  PROVE  \E o \in {"SUCCEEDED", "FAILED", "OUTCOME_UNKNOWN"} :
           /\ Ends(b, o) /\ Committed(w)
           /\ o = "SUCCEEDED" => ran[b] = 1
           /\ o = "FAILED" => ~delivered[b]
<1>1. wk[w].pc = "returned" /\ Committed(w)
  BY DEF Close, Committed
<1>2. state[b] \in {"AUTHORIZED", "APPROVED"}
  BY <1>1 DEF Close, Row, StoredStates, TerminalStates, Transition, Transitions, SingleExecutor
<1>3. PICK o \in {"SUCCEEDED", "FAILED", "OUTCOME_UNKNOWN"} : o = wk[w].out
  BY <1>1 DEF HeldOK
<1>4. Sealed(b, o)
  BY <1>3, AppendSealed, HomeType DEF Close, TerminalStates
<1>5. Ends(b, o)
  BY <1>2, <1>3, <1>4 DEF Close, Ends, approvals
<1> QED BY <1>1, <1>3, <1>5 DEF HeldOK

LEMMA ApproveGrants ==
  ASSUME TypeInv, NEW w \in Workers, NEW b \in Actions, b = wk[w].act, NEW d \in Actions, Approve(w, d)
  PROVE  Grants(b, d)
<1>1. Sealed(d, "SUCCEEDED")
  BY AppendSealed, HomeType DEF Approve, TerminalStates
<1> QED BY <1>1 DEF Approve, DecisionAct, Fresh, ApprovalConsumableAt, Grants

LEMMA RejectDeclines ==
  ASSUME TypeInv, NEW w \in Workers, NEW b \in Actions, b = wk[w].act, NEW d \in Actions, Reject(w, d)
  PROVE  Declines(b, d)
<1> DEFINE r == Receipt(Home(w), d, "SUCCEEDED")
           q == Receipt(Home(w), b, "REJECTED")
<1>1. /\ r \in Receipts /\ r.act = d /\ r.outcome = "SUCCEEDED"
      /\ q \in Receipts /\ q.act = b /\ q.outcome = "REJECTED"
  BY HomeType DEF Receipt, Receipts, TypeInv, ProcsType, TerminalStates
<1>2. receipts' = receipts \o <<r, q>> /\ receipts \in Seq(Receipts)
  BY DEF Reject, TypeInv, RowsType
<1> HIDE DEF r, q
<1>3. receipts' = Append(Append(receipts, r), q)
  BY <1>1, <1>2, TwoAppends
<1> QED BY <1>1, <1>3 DEF Reject, DecisionAct, Fresh, ApprovalConsumableAt, Declines

---------------------------------------------------------------------------
(* One case per action.                                                    *)

\* The worker moves on and the rows stay.
LEMMA QuietStill ==
  ASSUME TypeInv, SingleExecutor, LedgerInv, NEW w \in Workers, QuietMove(w), Still,
         UNCHANGED <<keys, procs, world>>
  PROVE  LedgerInv'
<1>1. SealOK'
  BY SealStays DEF LedgerInv
<1>2. \A v \in Workers : Calm(v)
  BY QuietCalm
<1> QED BY <1>1, <1>2, StillStep DEF world

LEMMA ReturnStill ==
  ASSUME TypeInv, SingleExecutor, LedgerInv, NEW w \in Workers, Return(w), Still,
         UNCHANGED <<keys, world>>
  PROVE  LedgerInv'
<1>1. SealOK'
  BY ReturnSeal DEF LedgerInv
<1>2. \A v \in Workers : Calm(v)
  BY ReturnCalm
<1> QED BY <1>1, <1>2, StillStep DEF world

\* Nobody else is committed to an action whose execution one worker holds, nor
\* to one that is not born or waits.
LEMMA OthersHold ==
  ASSUME SingleExecutor, NEW a,
         \/ state[a] \in {"unborn", "PENDING_APPROVAL"} \/ params[a]
  PROVE  \A v \in Workers : Committed(v) => wk[v].act # a
BY DEF SingleExecutor

\* A class the gate clears by itself needs no human.
LEMMA ClearedAlone ==
  ASSUME NEW c, "AUTHORIZED" \in Verdicts(c)
  PROVE  ~(Ceiling # NoCeiling /\ NeedsHuman(c))
<1>1. PICK r \in Requests({c}) : "AUTHORIZED" = Verdict(r, Ceiling)
  BY DEF Verdicts
<1>2. r.class = c
  BY DEF Requests
<1>3. effectGateRule(c, Ceiling) = ""
  BY <1>1, <1>2 DEF Verdict
<1> QED BY <1>3 DEF effectGateRule

\* A step that only ends rows nobody holds, or that only recovery ends.
LEMMA RowsOnly ==
  ASSUME TypeInv, SingleExecutor, LedgerInv, LedgerMatchesRows', SealOK',
         ran' = ran, delivered' = delivered, \A a \in Actions : RowFacts(a),
         NEW b \in Actions, NEW d \in Actions,
         \A a \in Actions \ {b, d} : state'[a] = state[a],
         \A v \in Workers : Calm(v) /\ (Committed(v) => wk[v].act \notin {b, d}),
         state'[b] # "FAILED" /\ state'[d] # "FAILED"
  PROVE  LedgerInv'
<1>1. \A v \in Workers : Spared(v)
  BY CommittedActs DEF Spared
<1> QED BY <1>1, CalmStep

\* A request that runs out of time: the row nobody may run ends REJECTED.
LEMMA CloseExpiredLedger ==
  ASSUME TypeInv, SingleExecutor, LedgerInv, SealOK', NEW p \in Procs, NEW b \in Actions,
         CloseExpired(p, b), \A v \in Workers : Calm(v)
  PROVE  LedgerInv'
<1>1. Lapses(b)
  BY ExpiredLapses
<1>2. LedgerMatchesRows' /\ \A a \in Actions : RowFacts(a)
  BY <1>1, LapsesFacts DEF LedgerInv
<1>3. \A v \in Workers : Committed(v) => wk[v].act # b
  BY <1>1, OthersHold DEF Lapses
<1>4. state'[b] # "FAILED" /\ \A a \in Actions \ {b} : state'[a] = state[a]
  BY <1>1 DEF Lapses, TypeInv, RowsType
<1>5. ran' = ran /\ delivered' = delivered
  BY DEF CloseExpired, world
<1> QED BY <1>2, <1>3, <1>4, <1>5, RowsOnly

LEMMA ServerStepLedger ==
  ASSUME TypeInv, TypeInv', SingleExecutor, LedgerInv, NEW w \in ServerWorkers, ServerStep(w)
  PROVE  LedgerInv'
<1> w \in Workers /\ Home(w) = Server /\ Server \in Procs
  BY DEF Workers, Home, Procs
<1> wk[w] \in WorkerRecords /\ GoodRecord(wk[w]) /\ HeldOK(w) /\ SealOK
  BY DEF TypeInv, WorkersOK, LedgerInv
<1>0. /\ wk[w].pc # "idle" => phase[Home(w)] # "down"
      /\ wk[w].pc \in HoldingPCs => wk[w].act \in Actions
  BY DEF HeldOK, GoodRecord
<1>1. CASE Boot(w)
  <2>1. Still /\ ran' = ran /\ delivered' = delivered
    BY <1>1 DEF Boot, Still, approvals, world
  <2>2. SealOK'
    BY <1>1 DEF Boot, SealOK, keys, TypeInv, ProcsType
  <2>3. wk'[w].pc = "prune" /\ wk'[w].then = "booted" /\ \A v \in Workers \ {w} : wk'[v] = wk[v]
    <3> DEFINE q == [IdleWk EXCEPT !.pc = "prune", !.then = "booted"]
    <3>1. q.pc = "prune" /\ q.then = "booted"
      BY DEF IdleWk
    <3>2. wk' = [wk EXCEPT ![w] = q]
      BY <1>1 DEF Boot
    <3> QED BY <3>1, <3>2, OneWorker
  <2>4. Calm(w)
    <3>1. phase'[Server] = "booting"
      BY <1>1 DEF Boot, TypeInv, ProcsType
    <3> QED BY <2>3, <3>1 DEF Calm, Executing, Committed, AboutToRun
  <2>5. ASSUME NEW v \in Workers \ {w} PROVE Calm(v)
    <3>1. CASE Home(v) = Server
      <4>1. wk[v].pc = "idle"
        BY <1>1, <3>1 DEF Boot, LedgerInv, HeldOK
      <4> QED BY <2>3, <4>1 DEF Calm, Executing, Committed, AboutToRun
    <3>2. CASE Home(v) # Server
      <4>1. phase'[Home(v)] = phase[Home(v)] /\ plaw'[Home(v)] = plaw[Home(v)]
        BY <1>1, <3>2, HomeType DEF Boot, TypeInv, ProcsType
      <4> QED BY <2>3, <4>1 DEF Calm, Executing, Committed, AboutToRun, LedgerInv, HeldOK
    <3> QED BY <3>1, <3>2
  <2> QED BY <2>1, <2>2, <2>4, <2>5, StillStep

<1>2. CASE RecoverCollect(w)
  <2>1. Profile(w, "recovering", wk[w].act, wk[w].then, wk[w].out)
    BY <1>2, SetPcTodo DEF RecoverCollect
  <2>2. QuietMove(w)
    BY <1>2, <1>0, <2>1 DEF RecoverCollect, Profile, QuietMove, Executing, Committed, AboutToRun, Free
  <2>3. Still /\ UNCHANGED <<keys, procs, world>>
    BY <1>2 DEF RecoverCollect, Still, approvals
  <2> QED BY <2>2, <2>3, QuietStill
<1>3. CASE RecoverNext(w)
  <2>0. wk[w].then = "booted"
    BY <1>3 DEF RecoverNext, GoodRecord
  <2> DEFINE x == IF wk[w].pass < 3 THEN "recover" ELSE "collect"
  <2>1. x \in {"recover", "collect"}
    OBVIOUS
  <2>2. Profile(w, x, wk[w].act, wk[w].then, wk[w].out)
    BY <1>3, SetPcPass DEF RecoverNext
  <2> HIDE DEF x
  <2>3. QuietMove(w)
    BY <1>3, <1>0, <2>0, <2>2, <2>1 DEF RecoverNext, Profile, QuietMove, Executing, Committed, AboutToRun
  <2>4. Still /\ UNCHANGED <<keys, procs, world>>
    BY <1>3 DEF RecoverNext, Still, approvals
  <2> QED BY <2>3, <2>4, QuietStill
<1>4. CASE \E a \in Actions : closeCrashOrphan(w, a)
  <2>0. PICK b \in Actions : closeCrashOrphan(w, b)
    BY <1>4
  <2>1. Profile(w, wk[w].pc, wk[w].act, wk[w].then, wk[w].out)
    BY <2>0, SetTodo DEF closeCrashOrphan
  <2>2. QuietMove(w)
    BY <2>0, <1>0, <2>1 DEF closeCrashOrphan, Profile, QuietMove, Executing, Committed, AboutToRun
  <2>3. UNCHANGED <<keys, procs, world>>
    BY <2>0 DEF closeCrashOrphan
  <2>4. CASE Still
    BY <2>2, <2>3, <2>4, QuietStill
  <2>5. CASE Ends(b, "OUTCOME_UNKNOWN")
    <3>1. LedgerMatchesRows' /\ \A a \in Actions : RowFacts(a)
      BY <2>5, EndsFacts DEF LedgerInv
    <3>2. \A a \in Actions : state'[a] = state[a] \/ state'[a] = "OUTCOME_UNKNOWN"
      BY <2>5 DEF Ends, TypeInv, RowsType
    <3>3. SealOK' /\ ran' = ran /\ delivered' = delivered /\ \A v \in Workers : Calm(v)
      BY <2>2, <2>3, SealStays, QuietCalm DEF world
    <3>4. \A v \in Workers : Spared(v)
      BY <3>2, <3>3, CommittedActs DEF Spared
    <3> QED BY <3>1, <3>2, <3>3, <3>4, CalmStep
  <2> QED BY <2>0, <2>4, <2>5, OrphanEnds
<1>5. CASE \E a \in Actions : Postpone(w, a)
  <2>0. PICK b \in Actions : Postpone(w, b)
    BY <1>5
  <2>1. Profile(w, wk[w].pc, wk[w].act, wk[w].then, wk[w].out)
    BY <2>0, SetTodo DEF Postpone
  <2>2. QuietMove(w)
    BY <2>0, <1>0, <2>1 DEF Postpone, Profile, QuietMove, Executing, Committed, AboutToRun, Free
  <2>3. Still /\ UNCHANGED <<keys, procs, world>>
    BY <2>0 DEF Postpone, Still, approvals
  <2> QED BY <2>2, <2>3, QuietStill
<1>6. CASE CollectExpired(w)
  <2>1. Profile(w, "sweep", wk[w].act, wk[w].then, wk[w].out)
    BY <1>6, SetPcTodo DEF CollectExpired
  <2>2. QuietMove(w)
    BY <1>6, <1>0, <2>1 DEF CollectExpired, Profile, QuietMove, Executing, Committed, AboutToRun, Free
  <2>3. Still /\ UNCHANGED <<keys, procs, world>>
    BY <1>6 DEF CollectExpired, Still, approvals
  <2> QED BY <2>2, <2>3, QuietStill
<1>7. CASE SweepDone(w) \/ SweepAborts(w)
  <2>0. EndSweep(w)
    BY <1>7 DEF SweepDone, SweepAborts
  <2>1. Still /\ ran' = ran /\ delivered' = delivered
    BY <2>0 DEF EndSweep, Still, approvals, world
  <2>2. /\ plaw' = plaw /\ \A p \in Procs : phase'[p] = "down" => phase[p] = "down"
        /\ SealOK'
    BY <1>0, <2>0 DEF EndSweep, SealOK, keys, TypeInv, ProcsType
  <2>3. \A v \in Workers \ {w} : wk'[v] = wk[v]
    BY <2>0, OneWorker DEF EndSweep, TypeInv, WorkersOK
  <2>4. Calm(w)
    <3>1. CASE wk[w].then = "ready"
      <4> DEFINE q == [wk[w] EXCEPT !.pc = "ready", !.todo = {}]
      <4>1. wk' = [wk EXCEPT ![w] = q]
        BY <2>0, <3>1 DEF EndSweep, TypeInv, WorkersOK
      <4>2. wk'[w] = q
        BY <4>1, OneWorker
      <4>3. q.act = wk[w].act /\ q.pc = "ready" /\ q.then = wk[w].then
        BY DEF WorkerRecords
      <4> HIDE DEF q
      <4> QED BY <1>0, <2>0, <2>2, <3>1, <4>2, <4>3 DEF Calm, Executing, Committed, AboutToRun, EndSweep
    <3>2. CASE wk[w].then # "ready"
      <4>1. wk'[w] = IdleWk
        BY <2>0, <3>2 DEF EndSweep, TypeInv, WorkersOK
      <4>2. IdleWk.pc = "idle" /\ IdleWk.then = "idle"
        BY DEF IdleWk
      <4> QED BY <4>1, <4>2 DEF Calm, Executing, Committed, AboutToRun
    <3> QED BY <3>1, <3>2
  <2>5. \A v \in Workers \ {w} : Calm(v)
    BY <2>2, <2>3, HomeType DEF Calm, Executing, Committed, AboutToRun, LedgerInv, HeldOK
  <2> QED BY <2>1, <2>2, <2>4, <2>5, StillStep
<1>8. CASE \E a \in Actions : sweepExpiredOne(w, a)
  <2>0. PICK b \in Actions : sweepExpiredOne(w, b)
    BY <1>8
  <2>1. Profile(w, wk[w].pc, wk[w].act, wk[w].then, wk[w].out)
    BY <2>0, SetTodo DEF sweepExpiredOne
  <2>2. QuietMove(w)
    BY <2>0, <1>0, <2>1 DEF sweepExpiredOne, Profile, QuietMove, Executing, Committed, AboutToRun
  <2>3. CASE ~CloseExpired(Server, b)
    BY <2>0, <2>2, <2>3, QuietStill DEF sweepExpiredOne, Still, approvals
  <2>4. CASE CloseExpired(Server, b)
    <3>1. SealOK' /\ \A v \in Workers : Calm(v)
      BY <2>0, <2>2, <2>4, SealStays, QuietCalm DEF sweepExpiredOne, CloseExpired
    <3> QED BY <2>4, <3>1, CloseExpiredLedger
  <2> QED BY <2>3, <2>4
<1>9. CASE Prune(w)
  <2> DEFINE x == IF wk[w].then = "booted" THEN "recover" ELSE "collect"
  <2>0. x \in {"recover", "collect"} /\ (x = "collect" => wk[w].then # "booted")
    OBVIOUS
  <2>1. Profile(w, x, wk[w].act, wk[w].then, wk[w].out)
    BY <1>9, SetPcPass DEF Prune
  <2> HIDE DEF x
  <2>2. QuietMove(w)
    BY <1>9, <1>0, <2>0, <2>1 DEF Prune, Profile, QuietMove, Executing, Committed, AboutToRun
  <2>3. PICK gone \in SUBSET Actions : Forgets(gone)
    BY <1>9, PruneForgets
  <2>4. LedgerMatchesRows' /\ \A a \in Actions : RowFacts(a)
    BY <2>3, ForgetsFacts DEF LedgerInv
  <2>5. \A a \in Actions : state'[a] = state[a] \/ state'[a] = "pruned"
    BY <2>3 DEF Forgets
  <2>6. SealOK' /\ ran' = ran /\ delivered' = delivered /\ \A v \in Workers : Calm(v)
    BY <1>9, <2>2, SealStays, QuietCalm DEF Prune, world
  <2>7. \A v \in Workers : Spared(v)
    BY <2>5, <2>6, CommittedActs DEF Spared
  <2> QED BY <2>4, <2>5, <2>6, <2>7, CalmStep
<1>10. CASE \E a \in Actions, c \in Classes : Prepare(w, a, c)
  <2>0. PICK a \in Actions, c \in Classes : Prepare(w, a, c)
    BY <1>10
  <2>1. Profile(w, "prepared", a, wk[w].then, wk[w].out)
    BY <2>0, SetPcAct DEF Prepare
  <2>2. QuietMove(w)
    BY <2>0, <2>1 DEF Prepare, Free, Profile, QuietMove, Executing, Committed, AboutToRun
  <2>3. Names(a)
    BY <2>0 DEF Prepare, Fresh, Names, approvals, TypeInv, RowsType
  <2>4. LedgerMatchesRows' /\ \A b \in Actions : RowFacts(b)
    BY <2>3, NamesFacts DEF LedgerInv
  <2>5. SealOK' /\ ran' = ran /\ delivered' = delivered /\ \A v \in Workers : Calm(v)
    BY <2>0, <2>2, SealStays, QuietCalm DEF Prepare, world
  <2>6. \A v \in Workers : Spared(v)
    BY <2>3, <2>5 DEF Spared, Names
  <2> QED BY <2>3, <2>4, <2>5, <2>6, CalmStep DEF Names
<1>11. CASE RecordRefusal(w)
  <2>0. PICK b \in Actions : b = wk[w].act /\ state[b] = "unborn"
    BY <1>0, <1>11 DEF RecordRefusal, HoldingPCs, SingleExecutor
  <2>1. Profile(w, "note", wk[w].act, "idle", wk[w].out)
    BY <1>11, SetPcThen DEF RecordRefusal, Noted
  <2>2. QuietMove(w)
    BY <1>11, <1>0, <2>1 DEF RecordRefusal, Profile, QuietMove, Executing, Committed, AboutToRun
  <2>4. PICK o \in {"DENIED", "SHADOWED"} : Refuses(b, o)
    BY <1>11, <2>0, RefusalRefuses
  <2>5. LedgerMatchesRows' /\ \A a \in Actions : RowFacts(a)
    BY <2>4, RefusesFacts DEF LedgerInv
  <2>6. SealOK' /\ ran' = ran /\ delivered' = delivered /\ \A v \in Workers : Calm(v)
    BY <1>11, <2>2, SealStays, QuietCalm DEF RecordRefusal, Noted, world
  <2>7. \A v \in Workers : Committed(v) => wk[v].act # b
    BY <2>0, OthersHold
  <2>8. state'[b] # "FAILED" /\ \A a \in Actions \ {b} : state'[a] = state[a]
    BY <2>4 DEF Refuses, TypeInv, RowsType
  <2> QED BY <2>5, <2>6, <2>7, <2>8, RowsOnly
<1>12. CASE RecordAuthorized(w)
  <2>0. PICK b \in Actions : b = wk[w].act /\ state[b] = "unborn" /\ status[b] = "none"
    BY <1>0, <1>12 DEF RecordAuthorized, HoldingPCs, SingleExecutor
  <2>1. Profile(w, "note", wk[w].act, "ready", wk[w].out)
    BY <1>12, SetPcThen DEF RecordAuthorized, Noted
  <2>2. Clears(b)
    BY <1>12, <2>0, AuthorizedClears
  <2>3. LedgerMatchesRows' /\ \A a \in Actions : RowFacts(a)
    BY <2>2, ClearsFacts DEF LedgerInv
  <2>4. UNCHANGED <<keys, procs, ran, delivered>>
    BY <1>12 DEF RecordAuthorized, Noted, world
  <2>5. SealOK'
    BY <2>4, SealStays
  <2>6. state'[b] = "AUTHORIZED" /\ \A a \in Actions \ {b} : state'[a] = state[a]
    BY <2>2 DEF Clears, TypeInv, RowsType
  <2>7. \A v \in Workers : Committed(v) => wk[v].act # b
    BY <2>0, OthersHold
  <2>8. \A v \in Workers \ {w} : HeldOK(v)'
    <3>1. \A v \in Workers \ {w} : Calm(v) /\ Spared(v)
      BY <2>1, <2>4, <2>6, <2>7, SameCalm, CommittedActs DEF Profile, Spared, procs
    <3> QED BY <2>3, <2>4, <3>1, HeldStays DEF LedgerInv
  <2>9. HeldOK(w)'
    <3>1. /\ wk'[w].pc = "note" /\ wk'[w].act = b /\ state'[b] = "AUTHORIZED"
          /\ status' = status /\ class' = class /\ phase' = phase
      BY <2>0, <2>1, <2>2, <2>4, <2>6 DEF Profile, Clears, procs
    <3>2. Open(wk[w].act)' /\ Humanly(wk[w].act)'
      BY <1>12, <2>0, <3>1, ClearedAlone DEF RecordAuthorized, Open, Humanly
    <3> QED BY <1>0, <1>12, <2>0, <3>1, <3>2 DEF HeldOK, RecordAuthorized
  <2>10. \A a \in Actions : RowOK(a)'
    BY <2>3, <2>4, <2>6, RowStays DEF LedgerInv
  <2> QED BY <2>3, <2>5, <2>8, <2>9, <2>10 DEF LedgerInv
<1>13. CASE Park(w)
  <2>0. PICK b \in Actions : b = wk[w].act /\ state[b] = "unborn"
    BY <1>0, <1>13 DEF Park, HoldingPCs, SingleExecutor
  <2>1. Profile(w, "note", wk[w].act, "idle", wk[w].out)
    BY <1>13, SetPcThen DEF Park, Noted
  <2>2. QuietMove(w)
    BY <1>13, <1>0, <2>1 DEF Park, Profile, QuietMove, Executing, Committed, AboutToRun
  <2>3. Parks(b)
    BY <1>13, <2>0, ParkParks
  <2>4. LedgerMatchesRows' /\ \A a \in Actions : RowFacts(a)
    BY <2>3, ParksFacts DEF LedgerInv
  <2>5. SealOK' /\ ran' = ran /\ delivered' = delivered /\ \A v \in Workers : Calm(v)
    BY <1>13, <2>2, SealStays, QuietCalm DEF Park, Noted, world
  <2>6. \A v \in Workers : Committed(v) => wk[v].act # b
    BY <2>0, OthersHold
  <2>7. state'[b] # "FAILED" /\ \A a \in Actions \ {b} : state'[a] = state[a]
    BY <2>3 DEF Parks, TypeInv, RowsType
  <2> QED BY <2>4, <2>5, <2>6, <2>7, RowsOnly
<1>14. CASE RecordFails(w)
  BY <1>14, ReturnStill DEF RecordFails, Still, approvals
<1>15. CASE \E due \in BOOLEAN : NoteWrite(w, due)
  <2>0. PICK due \in BOOLEAN : NoteWrite(w, due)
    BY <1>15
  <2>1. Still /\ UNCHANGED <<keys, world>>
    BY <2>0 DEF NoteWrite, Still, approvals
  <2>2. CASE due
    <3>1. Profile(w, "prune", wk[w].act, wk[w].then, wk[w].out) /\ UNCHANGED procs
      BY <2>0, <2>2, SetPc DEF NoteWrite, Goto
    <3>2. QuietMove(w)
      BY <2>0, <1>0, <3>1 DEF NoteWrite, Profile, QuietMove, Executing, Committed, AboutToRun
    <3> QED BY <2>1, <3>1, <3>2, QuietStill
  <2>3. CASE ~due /\ wk[w].then = "idle"
    BY <2>0, <2>1, <2>3, ReturnStill DEF NoteWrite
  <2>4. CASE ~due /\ wk[w].then # "idle"
    <3>0. wk[w].then = "ready"
      BY <2>0, <2>4 DEF NoteWrite, GoodRecord, WorkerRecords
    <3>1. Profile(w, "ready", wk[w].act, wk[w].then, wk[w].out) /\ UNCHANGED procs
      BY <2>0, <2>4, <3>0, SetPc DEF NoteWrite, Goto
    <3>2. QuietMove(w)
      BY <2>0, <1>0, <3>0, <3>1 DEF NoteWrite, Profile, QuietMove, Executing, Committed, AboutToRun
    <3> QED BY <2>1, <3>1, <3>2, QuietStill
  <2> QED BY <2>2, <2>3, <2>4
<1> QED
  BY <1>1, <1>2, <1>3, <1>4, <1>5, <1>6, <1>7, <1>8, <1>9, <1>10, <1>11, <1>12, <1>13,
     <1>14, <1>15 DEF ServerStep

\* A worker enters or leaves a tool; the rows, the processes and the keys stay.
LEMMA ExecutorStep ==
  ASSUME TypeInv, SingleExecutor, LedgerInv, NEW w \in Workers, Still, SealOK',
         phase' = phase, plaw' = plaw,
         \A v \in Workers \ {w} : wk'[v] = wk[v], HeldOK(w)', delivered' = delivered,
         \A a \in Actions : ran[a] = 1 => ran'[a] = 1
  PROVE  LedgerInv'
<1>1. LedgerMatchesRows' /\ \A a \in Actions : RowFacts(a)
  BY StillFacts DEF LedgerInv
<1>2. \A v \in Workers \ {w} : HeldOK(v)'
  <2>1. \A v \in Workers \ {w} : Calm(v) /\ Spared(v)
    BY SameCalm DEF Spared, Still
  <2> QED BY <1>1, <2>1, HeldStays DEF LedgerInv
<1>3. \A a \in Actions : RowOK(a)'
  BY <1>1, RowStays DEF LedgerInv, Still
<1> QED BY <1>1, <1>2, <1>3 DEF LedgerInv

\* What the holder of an action knows, after a step that leaves rows alone.
LEMMA HeldFrame ==
  ASSUME Still, NEW w \in Workers, wk'[w].act = wk[w].act, Committed(w), HeldOK(w)
  PROVE  Open(wk[w].act)' /\ (Executing(w) => Humanly(wk[w].act)')
BY DEF Still, Open, Outcomes, Humanly, HeldOK

LEMMA ExecStepLedger ==
  ASSUME TypeInv, TypeInv', SingleExecutor, LedgerInv, NEW w \in Workers, ExecStep(w)
  PROVE  LedgerInv'
<1> wk[w] \in WorkerRecords /\ GoodRecord(wk[w]) /\ HeldOK(w) /\ SealOK /\ Home(w) \in Procs
  BY HomeType DEF TypeInv, WorkersOK, LedgerInv
<1>0. /\ wk[w].pc # "idle" => phase[Home(w)] # "down"
      /\ wk[w].pc \in HoldingPCs => wk[w].act \in Actions
  BY DEF HeldOK, GoodRecord
<1>1. CASE Dispatch(w)
  <2>0. PICK b \in Actions : b = wk[w].act /\ ran[b] = 0
    BY <1>0, <1>1 DEF Dispatch, HoldingPCs, SingleExecutor, AboutToRun
  <2>1. Profile(w, "running", wk[w].act, wk[w].then, wk[w].out)
    BY <1>1, SetPc DEF Dispatch, Goto
  <2>2. Still /\ phase' = phase /\ plaw' = plaw /\ delivered' = delivered /\ UNCHANGED <<keys, procs>>
    BY <1>1 DEF Dispatch, Still, approvals, procs
  <2>3. ran'[b] = 1 /\ \A a \in Actions : ran[a] = 1 => ran'[a] = 1
    BY <1>1, <2>0 DEF Dispatch, TypeInv, WorldType
  <2>4. Executing(w) /\ Committed(w)
    BY <1>1 DEF Dispatch, Executing, Committed, AboutToRun
  <2>5. wk'[w].pc = "running" /\ wk'[w].act = b /\ \A v \in Workers \ {w} : wk'[v] = wk[v]
    BY <2>0, <2>1 DEF Profile
  <2>6. HeldOK(w)'
    <3>1. Open(wk[w].act)' /\ Humanly(wk[w].act)'
      BY <2>0, <2>2, <2>4, <2>5, HeldFrame
    <3>2. status'[b] # "none" => plaw'[Home(w)] = pin'[b]
      BY <2>0, <2>2, <2>4 DEF HeldOK, Still
    <3> QED BY <1>0, <1>1, <2>2, <2>3, <2>5, <3>1, <3>2 DEF HeldOK, Dispatch
  <2> QED BY <2>2, <2>3, <2>5, <2>6, SealStays, ExecutorStep
<1>2. CASE Deliver(w)
  <2>0. PICK b \in Actions : b = wk[w].act /\ ran[b] = 1 /\ Open(b) /\ Humanly(b)
    BY <1>0, <1>2 DEF Deliver, HoldingPCs, HeldOK, Executing, Committed
  <2>1. Still /\ wk' = wk /\ ran' = ran /\ UNCHANGED <<keys, procs>>
    BY <1>2 DEF Deliver, Still, approvals
  <2>2. LedgerMatchesRows' /\ \A a \in Actions : RowFacts(a)
    BY <2>1, StillFacts DEF LedgerInv
  <2>3. delivered'[b] /\ \A a \in Actions \ {b} : delivered'[a] = delivered[a]
    BY <1>2, <2>0 DEF Deliver, TypeInv, WorldType
  <2>4. ASSUME NEW v \in Workers PROVE HeldOK(v)'
    <3>1. Calm(v)
      BY <2>1, SameCalm DEF procs
    <3>2. wk[v].pc = "returned" => wk[v].act # b
      BY <1>2, <2>0 DEF Deliver, SingleExecutor, Committed
    <3>3. Spared(v)
      BY <2>1, <2>3, <3>2, CommittedActs DEF Spared, Still
    <3> QED BY <2>1, <2>2, <3>1, <3>3, HeldStays DEF LedgerInv
  <2>5. RowOK(b)'
    <3>1. "FAILED" \notin Outcomes(b)'
      <4>1. "FAILED" \notin Outcomes(b)
        BY <2>0 DEF Open, LedgerInv, LedgerMatchesRows, Terminal, TerminalStates
      <4> QED BY <2>1, <4>1 DEF Still, Outcomes
    <3>2. Humanly(b)' /\ ran'[b] = 1
      BY <2>0, <2>1 DEF Still, Humanly
    <3>3. RowOK(b)
      BY DEF LedgerInv
    <3> QED BY <2>1, <3>1, <3>2, <3>3 DEF RowOK, Still, Outcomes
  <2>6. \A a \in Actions \ {b} : RowOK(a)'
    BY <2>1, <2>2, <2>3, RowStays DEF LedgerInv, Still
  <2> QED BY <2>1, <2>2, <2>4, <2>5, <2>6, SealStays DEF LedgerInv
<1>3. CASE ToolReturns(w)
  <2>0. PICK b \in Actions : b = wk[w].act /\ ran[b] = 1
    BY <1>0, <1>3 DEF ToolReturns, HoldingPCs, HeldOK
  <2>1. PICK err \in PossibleErrors(delivered[b]) :
          wk' = [wk EXCEPT ![w].pc = "returned", ![w].out = CloseStateAfterRun(err)]
    BY <1>3, <2>0 DEF ToolReturns
  <2>2. Profile(w, "returned", wk[w].act, wk[w].then, CloseStateAfterRun(err))
    BY <2>1, SetPcOut
  <2>3. Still /\ phase' = phase /\ plaw' = plaw /\ delivered' = delivered /\ ran' = ran /\ UNCHANGED <<keys, procs>>
    BY <1>3 DEF ToolReturns, Still, approvals, procs, world
  <2>4. /\ CloseStateAfterRun(err) \in {"SUCCEEDED", "FAILED", "OUTCOME_UNKNOWN"}
        /\ CloseStateAfterRun(err) = "FAILED" => ~delivered[b]
    BY DEF PossibleErrors, CloseStateAfterRun
  <2>5. /\ wk'[w].pc = "returned" /\ wk'[w].act = b /\ wk'[w].out = CloseStateAfterRun(err)
        /\ \A v \in Workers \ {w} : wk'[v] = wk[v]
    BY <2>0, <2>2 DEF Profile
  <2>6. HeldOK(w)'
    <3>0. Committed(w)
      BY <1>3 DEF ToolReturns, Committed
    <3>1. Open(wk[w].act)'
      BY <2>0, <2>3, <2>5, <3>0, HeldFrame
    <3>2. status'[b] # "none" => plaw'[Home(w)] = pin'[b]
      BY <2>0, <2>3, <3>0 DEF HeldOK, Still
    <3>3. ~Executing(w)'
      BY <2>5 DEF Executing
    <3> QED BY <1>0, <1>3, <2>0, <2>3, <2>4, <2>5, <3>1, <3>2, <3>3 DEF HeldOK, ToolReturns
  <2> QED BY <2>3, <2>5, <2>6, SealStays, ExecutorStep
<1>4. CASE Close(w)
  <2>0. PICK b \in Actions : b = wk[w].act /\ wk[w].pc = "returned" /\ Committed(w)
    BY <1>0, <1>4 DEF Close, HoldingPCs, Committed
  <2>1. Return(w) /\ ran' = ran /\ delivered' = delivered /\ UNCHANGED keys
    BY <1>4 DEF Close, world
  <2>4. PICK o \in {"SUCCEEDED", "FAILED", "OUTCOME_UNKNOWN"} :
          Ends(b, o) /\ (o = "FAILED" => ~delivered[b])
    BY <1>4, <2>0, CloseEnds
  <2>5. LedgerMatchesRows' /\ \A a \in Actions : RowFacts(a)
    BY <2>4, EndsFacts DEF LedgerInv
  <2>6. SealOK' /\ \A v \in Workers : Calm(v)
    BY <2>1, ReturnSeal, ReturnCalm
  <2>7. state'[b] = o /\ \A a \in Actions \ {b} : state'[a] = state[a]
    BY <2>4 DEF Ends, TypeInv, RowsType
  <2>8. ASSUME NEW v \in Workers PROVE Spared(v)
    <3>1. CASE v = w
      <4>1. ~Committed(w)'
        <5>1. wk'[w] = IdleWk /\ IdleWk.pc = "idle"
          BY <2>1, OneWorker DEF Return, IdleWk
        <5> QED BY <5>1 DEF Committed, AboutToRun
      <4> QED BY <3>1, <4>1 DEF Spared
    <3>2. CASE v # w
      BY <2>0, <2>1, <2>7, <3>2, CommittedActs DEF Spared, SingleExecutor
    <3> QED BY <3>1, <3>2
  <2> QED BY <2>1, <2>4, <2>5, <2>6, <2>7, <2>8, CalmStep
<1>5. CASE CloseRefused(w)
  BY <1>5, ReturnStill DEF CloseRefused, Still, approvals
<1>6. CASE DecideRefused(w)
  BY <1>6, ReturnStill DEF DecideRefused, Still, approvals
<1>7. CASE ResumeRefused(w)
  BY <1>7, ReturnStill DEF ResumeRefused, Still, approvals
<1>8. CASE \E a \in Actions, verb \in {"approved", "rejected"} : BeginDecide(w, a, verb)
  <2>0. PICK b \in Actions, verb \in {"approved", "rejected"} : BeginDecide(w, b, verb)
    BY <1>8
  <2>1. Profile(w, "deciding", b, wk[w].then, wk[w].out)
    BY <2>0, SetDecide DEF BeginDecide
  <2>2. QuietMove(w)
    BY <2>0, <2>1 DEF BeginDecide, Free, Profile, QuietMove, Executing, Committed, AboutToRun
  <2>3. Still /\ UNCHANGED <<keys, procs, world>>
    BY <2>0 DEF BeginDecide, Still, approvals
  <2> QED BY <2>2, <2>3, QuietStill
<1>9. CASE ExpiredTouch(w)
  <2>1. PICK b \in Actions : b = wk[w].act
    BY <1>0, <1>9 DEF ExpiredTouch, HoldingPCs
  <2>2. CloseExpired(Home(w), b) /\ Return(w)
    BY <1>9, <2>1 DEF ExpiredTouch
  <2>3. SealOK' /\ \A v \in Workers : Calm(v)
    BY <2>2, ReturnSeal, ReturnCalm DEF CloseExpired
  <2> QED BY <2>2, <2>3, CloseExpiredLedger
<1>10. CASE \E d \in Actions : Approve(w, d)
  <2>0. PICK d \in Actions : Approve(w, d)
    BY <1>10
  <2>1. PICK b \in Actions : b = wk[w].act
    BY <1>0, <2>0 DEF Approve, DecisionAct, HoldingPCs
  <2>2. Profile(w, "resume", wk[w].act, wk[w].then, wk[w].out)
    BY <2>0, SetPc DEF Approve, Goto
  <2>3. QuietMove(w)
    BY <1>0, <2>0, <2>2 DEF Approve, DecisionAct, Profile, QuietMove, Executing, Committed, AboutToRun
  <2>4. Grants(b, d)
    BY <2>0, <2>1, ApproveGrants
  <2>5. LedgerMatchesRows' /\ \A a \in Actions : RowFacts(a)
    BY <2>4, GrantsFacts DEF LedgerInv
  <2>6. SealOK' /\ ran' = ran /\ delivered' = delivered /\ \A v \in Workers : Calm(v)
    BY <2>0, <2>3, SealStays, QuietCalm DEF Approve, world
  <2>7. \A v \in Workers : Committed(v) => wk[v].act \notin {b, d}
    BY <2>4, OthersHold DEF Grants
  <2>8. state'[b] # "FAILED" /\ state'[d] # "FAILED" /\ \A a \in Actions \ {b, d} : state'[a] = state[a]
    BY <2>4 DEF Grants, TypeInv, RowsType
  <2> QED BY <2>5, <2>6, <2>7, <2>8, RowsOnly
<1>11. CASE \E d \in Actions : Reject(w, d)
  <2>0. PICK d \in Actions : Reject(w, d)
    BY <1>11
  <2>1. PICK b \in Actions : b = wk[w].act
    BY <1>0, <2>0 DEF Reject, DecisionAct, HoldingPCs
  <2>2. Return(w) /\ ran' = ran /\ delivered' = delivered /\ UNCHANGED keys
    BY <2>0 DEF Reject, world
  <2>3. Declines(b, d)
    BY <2>0, <2>1, RejectDeclines
  <2>4. LedgerMatchesRows' /\ \A a \in Actions : RowFacts(a)
    BY <2>3, DeclinesFacts DEF LedgerInv
  <2>5. SealOK' /\ \A v \in Workers : Calm(v)
    BY <2>2, ReturnSeal, ReturnCalm
  <2>6. \A v \in Workers : Committed(v) => wk[v].act \notin {b, d}
    BY <2>3, OthersHold DEF Declines
  <2>7. state'[b] # "FAILED" /\ state'[d] # "FAILED" /\ \A a \in Actions \ {b, d} : state'[a] = state[a]
    BY <2>3 DEF Declines, TypeInv, RowsType
  <2> QED BY <2>2, <2>4, <2>5, <2>6, <2>7, RowsOnly
<1>12. CASE ResumeRead(w)
  <2>1. Profile(w, "claiming", wk[w].act, wk[w].then, wk[w].out)
    BY <1>12, SetPc DEF ResumeRead, Goto
  <2>2. QuietMove(w)
    BY <1>12, <1>0, <2>1 DEF ResumeRead, Profile, QuietMove, Executing, Committed, AboutToRun, Free
  <2>3. Still /\ UNCHANGED <<keys, procs, world>>
    BY <1>12 DEF ResumeRead, Goto, Still, approvals
  <2> QED BY <2>2, <2>3, QuietStill
<1>13. CASE Claim(w)
  <2>0. PICK b \in Actions : b = wk[w].act /\ state[b] = "APPROVED" /\ status[b] = "APPROVED" /\ pin[b] = plaw[Home(w)]
    BY <1>0, <1>13 DEF Claim, HoldingPCs, ValidateApprovalBinding
  <2>1. Profile(w, "claimed", wk[w].act, wk[w].then, wk[w].out)
    BY <1>13, SetPc DEF Claim, Goto
  <2>2. Still /\ phase' = phase /\ plaw' = plaw /\ delivered' = delivered /\ ran' = ran /\ UNCHANGED <<keys, procs>>
    BY <1>13 DEF Claim, Still, procs, world
  <2>3. wk'[w].pc = "claimed" /\ wk'[w].act = b /\ \A v \in Workers \ {w} : wk'[v] = wk[v]
    BY <2>0, <2>1 DEF Profile
  <2>4. HeldOK(w)'
    <3>1. Open(wk[w].act)' /\ Humanly(wk[w].act)'
      BY <2>0, <2>2, <2>3 DEF Still, Open, Humanly, LedgerInv, RowOK
    <3> QED BY <1>0, <1>13, <2>0, <2>2, <2>3, <3>1 DEF HeldOK, Claim, Still
  <2> QED BY <2>2, <2>3, <2>4, SealStays, ExecutorStep
<1> QED
  BY <1>1, <1>2, <1>3, <1>4, <1>5, <1>6, <1>7, <1>8, <1>9, <1>10, <1>11, <1>12, <1>13
  DEF ExecStep

LEMMA CLIStepLedger ==
  ASSUME TypeInv, TypeInv', SingleExecutor, LedgerInv, NEW c \in CLIs, CLIStep(c)
  PROVE  LedgerInv'
<1> c \in Workers /\ Home(c) = c /\ c \in Procs /\ c # Server /\ Server \in Procs
  BY StoreAssumption DEF Workers, Home, Procs
<1> wk[c] \in WorkerRecords /\ GoodRecord(wk[c]) /\ HeldOK(c) /\ SealOK
  BY DEF TypeInv, WorkersOK, LedgerInv
<1>0. /\ wk[c].pc # "idle" => phase[Home(c)] # "down"
      /\ wk[c].pc \in HoldingPCs => wk[c].act \in Actions
  BY DEF HeldOK, GoodRecord
<1>1. CASE StartCLI(c)
  <2>1. Still /\ wk' = wk /\ ran' = ran /\ delivered' = delivered
    BY <1>1 DEF StartCLI, Still, approvals, world
  <2>2. SealOK'
    BY <1>1 DEF StartCLI, SealOK, keys, TypeInv, ProcsType
  <2>3. ASSUME NEW v \in Workers PROVE Calm(v)
    <3>1. CASE Home(v) = c
      <4>1. wk[v].pc = "idle"
        BY <1>1, <3>1 DEF StartCLI, LedgerInv, HeldOK
      <4> QED BY <2>1, <4>1 DEF Calm, Executing, Committed, AboutToRun
    <3>2. CASE Home(v) # c
      <4>1. phase'[Home(v)] = phase[Home(v)] /\ plaw'[Home(v)] = plaw[Home(v)]
        BY <1>1, <3>2, HomeType DEF StartCLI, TypeInv, ProcsType
      <4> QED BY <2>1, <4>1 DEF Calm, Executing, Committed, AboutToRun, LedgerInv, HeldOK
    <3> QED BY <3>1, <3>2
  <2> QED BY <2>1, <2>2, <2>3, StillStep
<1>2. CASE \E a \in Actions : BeginExecute(c, a)
  <2>0. PICK b \in Actions : BeginExecute(c, b)
    BY <1>2
  <2>1. Profile(c, "resume", b, wk[c].then, wk[c].out)
    BY <2>0, SetPcAct DEF BeginExecute
  <2>2. QuietMove(c)
    BY <2>0, <2>1 DEF BeginExecute, Free, Profile, QuietMove, Executing, Committed, AboutToRun
  <2>3. Still /\ UNCHANGED <<keys, procs, world>>
    BY <2>0 DEF BeginExecute, Still, approvals
  <2> QED BY <2>2, <2>3, QuietStill
<1>3. CASE \E a \in Actions, exclusive \in BOOLEAN : BeginOperate(c, a, exclusive)
  <2>0. PICK b \in Actions, exclusive \in BOOLEAN : BeginOperate(c, b, exclusive)
    BY <1>3
  <2>1. state[b] = "unborn" /\ status[b] = "none" /\ phase[c] = "up"
    BY <2>0 DEF BeginOperate, Fresh, Free, SingleExecutor
  <2>2. Profile(c, "operating", b, wk[c].then, wk[c].out)
    BY <2>0, SetPcAct DEF BeginOperate
  <2>3. Clears(b)
    BY <2>0, OperateClears
  <2>4. LedgerMatchesRows' /\ \A a \in Actions : RowFacts(a)
    BY <2>3, ClearsFacts DEF LedgerInv
  <2>5. phase' = phase /\ plaw' = plaw /\ ran' = ran /\ delivered' = delivered
    BY <2>0 DEF BeginOperate, world
  <2>6. SealOK'
    <3>1. ink'[Server] = ink[Server] /\ active' = active /\ retired' = retired
      BY <2>0 DEF BeginOperate, TypeInv, ProcsType, keys
    <3>2. phase[Server] # "down" => lock = Server /\ lock' = lock
      BY <2>0, StoreAssumption DEF BeginOperate, SealOK
    <3> QED BY <2>5, <3>1, <3>2 DEF SealOK
  <2>7. state'[b] = "AUTHORIZED" /\ \A a \in Actions \ {b} : state'[a] = state[a]
    BY <2>3 DEF Clears, TypeInv, RowsType
  <2>8. \A v \in Workers \ {c} : HeldOK(v)'
    <3>1. \A v \in Workers : Committed(v) => wk[v].act # b
      BY <2>1, OthersHold
    <3>2. \A v \in Workers \ {c} : Calm(v) /\ Spared(v)
      BY <2>2, <2>5, <2>7, <3>1, SameCalm, CommittedActs DEF Profile, Spared
    <3> QED BY <2>4, <2>5, <3>2, HeldStays DEF LedgerInv
  <2>9. HeldOK(c)'
    <3>1. /\ wk'[c].pc = "operating" /\ wk'[c].act = b /\ state'[b] = "AUTHORIZED" /\ status' = status
      BY <2>2, <2>3, <2>7 DEF Profile, Clears
    <3>2. Open(wk[c].act)' /\ ~Executing(c)'
      BY <3>1 DEF Open, Executing
    <3> QED BY <2>1, <2>5, <3>1, <3>2 DEF HeldOK
  <2>10. \A a \in Actions : RowOK(a)'
    BY <2>4, <2>5, <2>7, RowStays DEF LedgerInv
  <2> QED BY <2>4, <2>6, <2>8, <2>9, <2>10 DEF LedgerInv
<1>4. CASE Operate(c)
  <2>0. PICK b \in Actions : b = wk[c].act /\ ran[b] = 0 /\ ~delivered[b]
    BY <1>0, <1>4 DEF Operate, HoldingPCs, SingleExecutor, AboutToRun, LedgerInv, RowOK
  <2>1. PICK out \in {"SUCCEEDED", "FAILED"} :
          wk' = [wk EXCEPT ![c].pc = "returned", ![c].out = out]
    BY <1>4 DEF Operate
  <2>2. Profile(c, "returned", wk[c].act, wk[c].then, out)
    BY <2>1, SetPcOut
  <2>3. Still /\ phase' = phase /\ plaw' = plaw /\ delivered' = delivered /\ UNCHANGED <<keys, procs>>
    BY <1>4 DEF Operate, Still, approvals, procs
  <2>4. ran'[b] = 1 /\ \A a \in Actions : ran[a] = 1 => ran'[a] = 1
    BY <1>4, <2>0 DEF Operate, TypeInv, WorldType
  <2>5. /\ wk'[c].pc = "returned" /\ wk'[c].act = b /\ wk'[c].out = out
        /\ \A v \in Workers \ {c} : wk'[v] = wk[v]
    BY <2>0, <2>2 DEF Profile
  <2>6. HeldOK(c)'
    <3>0. Committed(c)
      BY <1>4 DEF Operate, Committed, AboutToRun
    <3>1. Open(wk[c].act)' /\ ~Executing(c)'
      BY <2>0, <2>3, <2>5, <3>0, HeldFrame DEF Executing
    <3>2. status'[b] # "none" => plaw'[Home(c)] = pin'[b]
      BY <2>0, <2>3, <3>0 DEF HeldOK, Still
    <3> QED BY <1>0, <1>4, <2>0, <2>3, <2>4, <2>5, <3>1, <3>2 DEF HeldOK, Operate
  <2> QED BY <2>3, <2>4, <2>5, <2>6, SealStays, ExecutorStep
<1>5. CASE \E k \in Keys : RotateKey(c, k)
  <2>0. PICK b \in Actions : b = wk[c].act /\ ran[b] = 0 /\ ~delivered[b]
    BY <1>0, <1>5 DEF RotateKey, HoldingPCs, SingleExecutor, AboutToRun, LedgerInv, RowOK
  <2>1. PICK out \in {"SUCCEEDED", "FAILED"} :
          wk' = [wk EXCEPT ![c].pc = "returned", ![c].out = out]
    BY <1>5 DEF RotateKey
  <2>2. Profile(c, "returned", wk[c].act, wk[c].then, out)
    BY <2>1, SetPcOut
  <2>3. Still /\ phase' = phase /\ plaw' = plaw /\ delivered' = delivered
    BY <1>5 DEF RotateKey, Still, approvals
  <2>4. ran'[b] = 1 /\ \A a \in Actions : ran[a] = 1 => ran'[a] = 1
    BY <1>5, <2>0 DEF RotateKey, TypeInv, WorldType
  <2>5. /\ wk'[c].pc = "returned" /\ wk'[c].act = b /\ wk'[c].out = out
        /\ \A v \in Workers \ {c} : wk'[v] = wk[v]
    BY <2>0, <2>2 DEF Profile
  <2>6. HeldOK(c)'
    <3>0. Committed(c) /\ wk[c].pc = "operating"
      BY <1>5 DEF RotateKey, Committed, AboutToRun
    <3>1. Open(wk[c].act)' /\ ~Executing(c)'
      BY <2>0, <2>3, <2>5, <3>0, HeldFrame DEF Executing
    <3>2. status'[b] # "none" => plaw'[Home(c)] = pin'[b]
      BY <2>0, <2>3, <3>0 DEF HeldOK, Still
    <3> QED BY <1>0, <2>0, <2>3, <2>4, <2>5, <3>0, <3>1, <3>2 DEF HeldOK
  <2>7. SealOK'
    <3>1. lock = c /\ active' \notin retired'
      BY <1>5 DEF RotateKey
    <3> QED BY <2>3, <3>1 DEF SealOK
  <2> QED BY <2>3, <2>4, <2>5, <2>6, <2>7, ExecutorStep
<1>6. CASE RotateFails(c)
  <2>0. PICK b \in Actions : b = wk[c].act /\ ran[b] = 0 /\ ~delivered[b]
    BY <1>0, <1>6 DEF RotateFails, HoldingPCs, SingleExecutor, AboutToRun, LedgerInv, RowOK
  <2>2. Profile(c, "returned", wk[c].act, wk[c].then, "FAILED")
    BY <1>6, SetPcOut DEF RotateFails
  <2>3. Still /\ phase' = phase /\ plaw' = plaw /\ delivered' = delivered /\ ran' = ran /\ UNCHANGED <<keys, procs>>
    BY <1>6 DEF RotateFails, Still, approvals, procs, world
  <2>5. /\ wk'[c].pc = "returned" /\ wk'[c].act = b /\ wk'[c].out = "FAILED"
        /\ \A v \in Workers \ {c} : wk'[v] = wk[v]
    BY <2>0, <2>2 DEF Profile
  <2>6. HeldOK(c)'
    <3>0. Committed(c) /\ wk[c].pc = "operating"
      BY <1>6 DEF RotateFails, Committed, AboutToRun
    <3>1. Open(wk[c].act)' /\ ~Executing(c)'
      BY <2>0, <2>3, <2>5, <3>0, HeldFrame DEF Executing
    <3>2. status'[b] # "none" => plaw'[Home(c)] = pin'[b]
      BY <2>0, <2>3, <3>0 DEF HeldOK, Still
    <3> QED BY <1>0, <2>0, <2>3, <2>5, <3>0, <3>1, <3>2 DEF HeldOK
  <2> QED BY <2>3, <2>5, <2>6, SealStays, ExecutorStep
<1> QED
  BY <1>1, <1>2, <1>3, <1>4, <1>5, <1>6 DEF CLIStep

LEMMA NextLedger ==
  TypeInv /\ TypeInv' /\ SingleExecutor /\ LedgerInv /\ [Next]_vars => LedgerInv'
<1> SUFFICES ASSUME TypeInv, TypeInv', SingleExecutor, LedgerInv, [Next]_vars PROVE LedgerInv'
  OBVIOUS
<1>1. CASE \E p \in Procs : Crash(p)
  <2>0. PICK p \in Procs : Crash(p)
    BY <1>1
  <2>1. Still /\ ran' = ran /\ delivered' = delivered
    BY <2>0 DEF Crash, Still, approvals, world
  <2>2. SealOK'
    BY <2>0 DEF Crash, LedgerInv, SealOK, keys, TypeInv, ProcsType, Procs
  <2>3. ASSUME NEW v \in Workers PROVE Calm(v)
    <3>1. CASE Home(v) = p
      <4>1. wk'[v] = IdleWk /\ IdleWk.pc = "idle"
        BY <2>0, <3>1 DEF Crash, IdleWk
      <4> QED BY <4>1 DEF Calm, Executing, Committed, AboutToRun
    <3>2. CASE Home(v) # p
      <4>1. wk'[v] = wk[v] /\ phase'[Home(v)] = phase[Home(v)] /\ plaw' = plaw
        BY <2>0, <3>2, HomeType DEF Crash, TypeInv, ProcsType
      <4> QED BY <4>1 DEF Calm, Executing, Committed, AboutToRun, LedgerInv, HeldOK
    <3> QED BY <3>1, <3>2
  <2> QED BY <2>1, <2>2, <2>3, StillStep
<1>2. CASE (\E a \in Actions : Expire(a)) \/ EditConfig \/ UNCHANGED vars
  <2>1. Still /\ wk' = wk /\ ran' = ran /\ delivered' = delivered /\ UNCHANGED <<keys, procs>>
    BY <1>2 DEF Expire, EditConfig, vars, approvals, world, Still
  <2>2. \A v \in Workers : Calm(v)
    BY <2>1, SameCalm DEF procs
  <2> QED BY <2>1, <2>2, SealStays, StillStep DEF LedgerInv
<1> QED
  BY <1>1, <1>2, ServerStepLedger, ExecStepLedger, CLIStepLedger DEF Next

LEMMA InitLedger == Init => LedgerInv
<1> SUFFICES ASSUME Init PROVE LedgerInv
  OBVIOUS
<1>1. DOMAIN receipts = {} /\ \A a : Outcomes(a) = {}
  BY DEF Init, Outcomes
<1>2. LedgerMatchesRows
  BY <1>1 DEF Init, LedgerMatchesRows, Terminal, TerminalStates
<1>3. SealOK
  BY DEF Init, SealOK, Procs
<1>4. \A a \in Actions : RowOK(a)
  BY DEF Init, RowOK
<1>5. ASSUME NEW w \in Workers PROVE HeldOK(w)
  <2>1. wk[w] = IdleWk /\ IdleWk.pc = "idle" /\ IdleWk.then = "idle"
    BY DEF Init, IdleWk
  <2> QED BY <2>1 DEF HeldOK, Executing, Committed, AboutToRun
<1> QED BY <1>2, <1>3, <1>4, <1>5 DEF LedgerInv

\* The inductive invariant holds in every state the store can reach.
THEOREM LedgerKept == Spec => [](TypeInv /\ SingleExecutor /\ LedgerInv)
BY InitType, NextType, InitSafe, NextSafe, InitLedger, NextLedger, PTL DEF Spec

---------------------------------------------------------------------------
(* What it shows.                                                          *)

\* No terminal is born without its receipt, and no receipt without its terminal:
\* every door of every process closes the row and seals its verdict together.
THEOREM ReceiptsMatch == Spec => []LedgerMatchesRows
<1>1. LedgerInv => LedgerMatchesRows
  BY DEF LedgerInv
<1> QED BY <1>1, LedgerKept, PTL

\* The ledger never says FAILED of an effect that reached the world.
THEOREM VerdictsAreHonest == Spec => []HonestVerdicts
<1>1. LedgerInv => HonestVerdicts
  BY DEF LedgerInv, RowOK, HonestVerdicts
<1> QED BY <1>1, LedgerKept, PTL

\* Under a ceiling, no effect without undo precedes the sealed act of a human.
THEOREM HumansDecideFirst == Spec => []HumanBeforeEffect
<1>1. LedgerInv => HumanBeforeEffect
  BY DEF LedgerInv, RowOK, Humanly, HumanBeforeEffect
<1> QED BY <1>1, LedgerKept, PTL

\* A rotation and a running server exclude each other: the server's ink is live.
THEOREM ServerInkIsLive == Spec => []ServerCanSeal
<1>1. LedgerInv => ServerCanSeal
  BY DEF LedgerInv, SealOK, ServerCanSeal, CanSeal
<1> QED BY <1>1, LedgerKept, PTL

\* An approved action runs only in a process that holds the law it was parked under.
THEOREM LawHoldsAtTheRun == Spec => []ClaimedUnderItsLaw
<1>1. LedgerInv => ClaimedUnderItsLaw
  BY DEF LedgerInv, HeldOK, ClaimedUnderItsLaw, Committed, AboutToRun
<1> QED BY <1>1, LedgerKept, PTL

---------------------------------------------------------------------------
(* The store implements ActionLifecycle.                                   *)

LifecycleStep == [Lifecycle!Next]_(Lifecycle!lifecycle)

LEMMA InitMaps == Init => Lifecycle!Init
<1> SUFFICES ASSUME Init PROVE Lifecycle!Init
  OBVIOUS
<1>1. \A a \in Actions : Stage(a) = "new" /\ Outcomes(a) = {}
  BY DEF Init, Stage, Outcomes
<1> QED BY <1>1 DEF Lifecycle!Init, Init

LEMMA StillMaps ==
  ASSUME state' = state, receipts' = receipts, ran' = ran
  PROVE  LifecycleStep
<1>1. \A a \in Actions : Stage(a)' = Stage(a) /\ Outcomes(a)' = Outcomes(a)
  BY DEF Stage, Outcomes
<1>2. UNCHANGED Lifecycle!lifecycle
  BY <1>1 DEF Lifecycle!lifecycle
<1> QED BY <1>2 DEF LifecycleStep

LEMMA ClearsMaps ==
  ASSUME TypeInv, NEW a \in Actions, Clears(a), ran' = ran
  PROVE  LifecycleStep
<1>1. /\ Stage(a) = "new" /\ Stage(a)' = "cleared"
      /\ \A b \in Actions : b # a => Stage(b)' = Stage(b)
  BY DEF Clears, Stage, TypeInv, RowsType
<1>2. \A b : Outcomes(b)' = Outcomes(b)
  BY DEF Clears, Outcomes
<1>3. Lifecycle!Clear(a)
  BY <1>1, <1>2 DEF Lifecycle!Clear
<1> QED BY <1>3 DEF LifecycleStep, Lifecycle!Next

LEMMA ParksMaps ==
  ASSUME TypeInv, NEW a \in Actions, Parks(a), ran' = ran
  PROVE  LifecycleStep
<1>1. /\ Stage(a) = "new" /\ Stage(a)' = "parked"
      /\ \A b \in Actions : b # a => Stage(b)' = Stage(b)
  BY DEF Parks, Stage, TypeInv, RowsType
<1>2. \A b : Outcomes(b)' = Outcomes(b)
  BY DEF Parks, Outcomes
<1>3. Lifecycle!Park(a)
  BY <1>1, <1>2 DEF Lifecycle!Park
<1> QED BY <1>3 DEF LifecycleStep, Lifecycle!Next

LEMMA RefusesMaps ==
  ASSUME TypeInv, LedgerMatchesRows, NEW a \in Actions, NEW o, Refuses(a, o), ran' = ran
  PROVE  LifecycleStep
<1>1. /\ Stage(a) = "new" /\ Stage(a)' = "ended"
      /\ \A b \in Actions : b # a => Stage(b)' = Stage(b)
  BY DEF Refuses, Stage, TypeInv, RowsType
<1>2. Outcomes(a)' = {o} /\ \A b \in Actions \ {a} : Outcomes(b)' = Outcomes(b)
  BY SealedOutcomes DEF Refuses, TerminalStates
<1>3. Lifecycle!Refuse(a)
  BY <1>1, <1>2 DEF Lifecycle!Refuse, Refuses
<1> QED BY <1>3 DEF LifecycleStep, Lifecycle!Next

LEMMA EndsMaps ==
  ASSUME TypeInv, LedgerMatchesRows, NEW a \in Actions, NEW o, Ends(a, o), ran' = ran,
         o = "SUCCEEDED" => ran[a] = 1
  PROVE  LifecycleStep
<1>1. /\ Stage(a) = "cleared" /\ Stage(a)' = "ended"
      /\ \A b \in Actions : b # a => Stage(b)' = Stage(b)
  BY DEF Ends, Stage, TypeInv, RowsType
<1>2. Outcomes(a)' = {o} /\ \A b \in Actions \ {a} : Outcomes(b)' = Outcomes(b)
  BY SealedOutcomes DEF Ends, TerminalStates
<1>3. Lifecycle!End(a, o)
  BY <1>1, <1>2 DEF Lifecycle!End, Ends
<1> QED BY <1>3 DEF LifecycleStep, Lifecycle!Next, Ends

LEMMA LapsesMaps ==
  ASSUME TypeInv, LedgerMatchesRows, NEW a \in Actions, Lapses(a), ran' = ran
  PROVE  LifecycleStep
<1>1. /\ Stage(a) = "parked" /\ Stage(a)' = "ended"
      /\ \A b \in Actions : b # a => Stage(b)' = Stage(b)
  BY DEF Lapses, Stage, TypeInv, RowsType
<1>2. Outcomes(a)' = {"REJECTED"} /\ \A b \in Actions \ {a} : Outcomes(b)' = Outcomes(b)
  BY SealedOutcomes DEF Lapses, TerminalStates
<1>3. Lifecycle!Expire(a)
  BY <1>1, <1>2 DEF Lifecycle!Expire
<1> QED BY <1>3 DEF LifecycleStep, Lifecycle!Next

LEMMA GrantsMaps ==
  ASSUME TypeInv, LedgerMatchesRows, NEW a \in Actions, NEW d \in Actions, Grants(a, d), ran' = ran
  PROVE  LifecycleStep
<1>1. /\ a # d /\ Stage(a) = "parked" /\ Stage(d) = "new"
      /\ Stage(a)' = "cleared" /\ Stage(d)' = "ended"
      /\ \A b \in Actions : b # a /\ b # d => Stage(b)' = Stage(b)
  BY DEF Grants, Stage, TypeInv, RowsType
<1>2. Outcomes(d)' = {"SUCCEEDED"} /\ \A b \in Actions \ {d} : Outcomes(b)' = Outcomes(b)
  BY SealedOutcomes DEF Grants, TerminalStates
<1>3. Lifecycle!Approve(a, d)
  BY <1>1, <1>2 DEF Lifecycle!Approve
<1> QED BY <1>3 DEF LifecycleStep, Lifecycle!Next

LEMMA DeclinesMaps ==
  ASSUME TypeInv, LedgerMatchesRows, NEW a \in Actions, NEW d \in Actions, Declines(a, d), ran' = ran
  PROVE  LifecycleStep
<1>1. /\ a # d /\ Stage(a) = "parked" /\ Stage(d) = "new"
      /\ Stage(a)' = "ended" /\ Stage(d)' = "ended"
      /\ \A b \in Actions : b # a /\ b # d => Stage(b)' = Stage(b)
  BY DEF Declines, Stage, TypeInv, RowsType
<1>2. /\ Outcomes(d)' = {"SUCCEEDED"} /\ Outcomes(a)' = {"REJECTED"}
      /\ \A b \in Actions \ {a, d} : Outcomes(b)' = Outcomes(b)
  BY <1>1, DeclinesOutcomes
<1>3. Lifecycle!Reject(a, d)
  BY <1>1, <1>2 DEF Lifecycle!Reject
<1> QED BY <1>3 DEF LifecycleStep, Lifecycle!Next

LEMMA ForgetsMaps ==
  ASSUME NEW gone \in SUBSET Actions, Forgets(gone), ran' = ran
  PROVE  LifecycleStep
<1>1. ASSUME NEW a \in Actions PROVE Stage(a)' = Stage(a) /\ Outcomes(a)' = Outcomes(a)
  <2>1. CASE a \in gone
    <3>1. state[a] \in TerminalStates /\ state'[a] = "pruned"
      BY <2>1 DEF Forgets
    <3>2. Stage(a) = "ended" /\ Stage(a)' = "ended"
      BY <3>1 DEF Stage, TerminalStates
    <3> QED BY <3>2 DEF Forgets, Outcomes
  <2>2. CASE a \notin gone
    BY <2>2 DEF Forgets, Stage, Outcomes
  <2> QED BY <2>1, <2>2
<1>2. UNCHANGED Lifecycle!lifecycle
  BY <1>1 DEF Lifecycle!lifecycle
<1> QED BY <1>2 DEF LifecycleStep

\* The run: of a cleared action, or of one that a boot already gave the verdict
\* that nobody knows.
LEMMA RunMaps ==
  ASSUME TypeInv, SingleExecutor, LedgerInv, NEW w \in Workers, NEW a \in Actions, a = wk[w].act,
         AboutToRun(w), state' = state, receipts' = receipts, ran' = [ran EXCEPT ![a] = @ + 1]
  PROVE  LifecycleStep
<1>1. ran[a] = 0 /\ Open(a)
  BY DEF SingleExecutor, LedgerInv, HeldOK, Committed
<1>2. \A b \in Actions : Stage(b)' = Stage(b) /\ Outcomes(b)' = Outcomes(b)
  BY DEF Stage, Outcomes
<1>3. Stage(a) = "cleared" \/ (Stage(a) = "ended" /\ Outcomes(a) = {"OUTCOME_UNKNOWN"})
  <2>1. CASE state[a] \in {"AUTHORIZED", "APPROVED"}
    BY <2>1 DEF Stage
  <2>2. CASE Outcomes(a) = {"OUTCOME_UNKNOWN"}
    <3>1. state[a] \in {"OUTCOME_UNKNOWN", "pruned"}
      BY <2>2 DEF LedgerInv, LedgerMatchesRows, Terminal
    <3> QED BY <2>2, <3>1 DEF Stage
  <2> QED BY <1>1, <2>1, <2>2 DEF Open
<1>4. ran' = [ran EXCEPT ![a] = 1]
  BY <1>1 DEF TypeInv, WorldType
<1>5. Lifecycle!Run(a)
  BY <1>1, <1>2, <1>3, <1>4 DEF Lifecycle!Run
<1> QED BY <1>5 DEF LifecycleStep, Lifecycle!Next

LEMMA ServerStepMaps ==
  ASSUME TypeInv, SingleExecutor, LedgerInv, NEW w \in ServerWorkers, ServerStep(w)
  PROVE  LifecycleStep
<1> w \in Workers /\ Home(w) \in Procs /\ LedgerMatchesRows
  BY HomeType DEF Workers, LedgerInv
<1>0. wk[w].pc = "prepared" => wk[w].act \in Actions
  BY DEF TypeInv, WorkersOK, GoodRecord, HoldingPCs
<1>1. CASE Boot(w)
  <2>1. state' = state /\ receipts' = receipts /\ ran' = ran
    BY <1>1 DEF Boot, world
  <2> QED BY <2>1, StillMaps
<1>2. CASE RecoverCollect(w)
  <2>1. state' = state /\ receipts' = receipts /\ ran' = ran
    BY <1>2 DEF RecoverCollect, world
  <2> QED BY <2>1, StillMaps
<1>3. CASE RecoverNext(w)
  <2>1. state' = state /\ receipts' = receipts /\ ran' = ran
    BY <1>3 DEF RecoverNext, world
  <2> QED BY <2>1, StillMaps
<1>4. CASE \E a \in Actions : Postpone(w, a)
  <2>1. state' = state /\ receipts' = receipts /\ ran' = ran
    BY <1>4 DEF Postpone, world
  <2> QED BY <2>1, StillMaps
<1>5. CASE CollectExpired(w)
  <2>1. state' = state /\ receipts' = receipts /\ ran' = ran
    BY <1>5 DEF CollectExpired, world
  <2> QED BY <2>1, StillMaps
<1>6. CASE SweepDone(w) \/ SweepAborts(w)
  <2>1. state' = state /\ receipts' = receipts /\ ran' = ran
    BY <1>6 DEF SweepDone, SweepAborts, EndSweep, world
  <2> QED BY <2>1, StillMaps
<1>7. CASE \E a \in Actions, c \in Classes : Prepare(w, a, c)
  <2>1. state' = state /\ receipts' = receipts /\ ran' = ran
    BY <1>7 DEF Prepare, world
  <2> QED BY <2>1, StillMaps
<1>8. CASE RecordFails(w)
  <2>1. state' = state /\ receipts' = receipts /\ ran' = ran
    BY <1>8 DEF RecordFails, world
  <2> QED BY <2>1, StillMaps
<1>9. CASE \E due \in BOOLEAN : NoteWrite(w, due)
  <2>1. state' = state /\ receipts' = receipts /\ ran' = ran
    BY <1>9 DEF NoteWrite, world
  <2> QED BY <2>1, StillMaps
<1>10. CASE \E a \in Actions : closeCrashOrphan(w, a)
  <2>0. PICK b \in Actions : closeCrashOrphan(w, b)
    BY <1>10
  <2>1. ran' = ran
    BY <2>0 DEF closeCrashOrphan, world
  <2>2. CASE Still
    BY <2>1, <2>2, StillMaps DEF Still
  <2>3. CASE Ends(b, "OUTCOME_UNKNOWN")
    BY <2>1, <2>3, EndsMaps
  <2> QED BY <2>0, <2>2, <2>3, OrphanEnds
<1>11. CASE \E a \in Actions : sweepExpiredOne(w, a)
  <2>0. PICK b \in Actions : sweepExpiredOne(w, b)
    BY <1>11
  <2>1. ran' = ran
    BY <2>0 DEF sweepExpiredOne, CloseExpired, world
  <2>2. CASE CloseExpired(Home(w), b)
    BY <2>1, <2>2, ExpiredLapses, LapsesMaps
  <2>3. CASE ~CloseExpired(Home(w), b)
    BY <2>0, <2>1, <2>3, StillMaps DEF sweepExpiredOne
  <2> QED BY <2>2, <2>3
<1>12. CASE Prune(w)
  BY <1>12, PruneForgets, ForgetsMaps DEF Prune, world
<1>13. CASE RecordRefusal(w)
  <2>1. PICK b \in Actions : b = wk[w].act
    BY <1>0, <1>13 DEF RecordRefusal
  <2>2. ran' = ran
    BY <1>13 DEF RecordRefusal, world
  <2> QED BY <1>13, <2>1, <2>2, RefusalRefuses, RefusesMaps
<1>14. CASE RecordAuthorized(w)
  <2>1. PICK b \in Actions : b = wk[w].act
    BY <1>0, <1>14 DEF RecordAuthorized
  <2>2. ran' = ran
    BY <1>14 DEF RecordAuthorized, world
  <2> QED BY <1>14, <2>1, <2>2, AuthorizedClears, ClearsMaps
<1>15. CASE Park(w)
  <2>1. PICK b \in Actions : b = wk[w].act
    BY <1>0, <1>15 DEF Park
  <2>2. ran' = ran
    BY <1>15 DEF Park, world
  <2> QED BY <1>15, <2>1, <2>2, ParkParks, ParksMaps
<1> QED
  BY <1>1, <1>2, <1>3, <1>4, <1>5, <1>6, <1>7, <1>8, <1>9, <1>10, <1>11, <1>12, <1>13, <1>14, <1>15
  DEF ServerStep

LEMMA ExecStepMaps ==
  ASSUME TypeInv, SingleExecutor, LedgerInv, NEW w \in Workers, ExecStep(w)
  PROVE  LifecycleStep
<1> Home(w) \in Procs /\ LedgerMatchesRows /\ HeldOK(w)
  BY HomeType DEF LedgerInv
<1>0. wk[w].pc \in HoldingPCs => wk[w].act \in Actions
  BY DEF TypeInv, WorkersOK, GoodRecord
<1>1. CASE Deliver(w)
  <2>1. state' = state /\ receipts' = receipts /\ ran' = ran
    BY <1>1 DEF Deliver, world
  <2> QED BY <2>1, StillMaps
<1>2. CASE ToolReturns(w)
  <2>1. state' = state /\ receipts' = receipts /\ ran' = ran
    BY <1>2 DEF ToolReturns, world
  <2> QED BY <2>1, StillMaps
<1>3. CASE CloseRefused(w)
  <2>1. state' = state /\ receipts' = receipts /\ ran' = ran
    BY <1>3 DEF CloseRefused, world
  <2> QED BY <2>1, StillMaps
<1>4. CASE DecideRefused(w)
  <2>1. state' = state /\ receipts' = receipts /\ ran' = ran
    BY <1>4 DEF DecideRefused, world
  <2> QED BY <2>1, StillMaps
<1>5. CASE ResumeRefused(w)
  <2>1. state' = state /\ receipts' = receipts /\ ran' = ran
    BY <1>5 DEF ResumeRefused, world
  <2> QED BY <2>1, StillMaps
<1>6. CASE \E a \in Actions, verb \in {"approved", "rejected"} : BeginDecide(w, a, verb)
  <2>1. state' = state /\ receipts' = receipts /\ ran' = ran
    BY <1>6 DEF BeginDecide, world
  <2> QED BY <2>1, StillMaps
<1>7. CASE ResumeRead(w)
  <2>1. state' = state /\ receipts' = receipts /\ ran' = ran
    BY <1>7 DEF ResumeRead, world
  <2> QED BY <2>1, StillMaps
<1>8. CASE Claim(w)
  <2>1. state' = state /\ receipts' = receipts /\ ran' = ran
    BY <1>8 DEF Claim, world
  <2> QED BY <2>1, StillMaps
<1>9. CASE Dispatch(w)
  <2>1. PICK b \in Actions : b = wk[w].act
    BY <1>0, <1>9 DEF Dispatch, HoldingPCs
  <2>2. AboutToRun(w) /\ state' = state /\ receipts' = receipts /\ ran' = [ran EXCEPT ![b] = @ + 1]
    BY <1>9, <2>1 DEF Dispatch, AboutToRun
  <2> QED BY <2>1, <2>2, RunMaps
<1>10. CASE Close(w)
  <2>1. PICK b \in Actions : b = wk[w].act
    BY <1>0, <1>10 DEF Close, HoldingPCs
  <2>2. ran' = ran
    BY <1>10 DEF Close, world
  <2> QED BY <1>10, <2>1, <2>2, CloseEnds, EndsMaps
<1>11. CASE ExpiredTouch(w)
  <2>1. PICK b \in Actions : b = wk[w].act
    BY <1>0, <1>11 DEF ExpiredTouch, HoldingPCs
  <2>2. CloseExpired(Home(w), b) /\ ran' = ran
    BY <1>11, <2>1 DEF ExpiredTouch, CloseExpired, world
  <2> QED BY <2>2, ExpiredLapses, LapsesMaps
<1>12. CASE \E d \in Actions : Approve(w, d)
  <2>0. PICK d \in Actions : Approve(w, d)
    BY <1>12
  <2>1. PICK b \in Actions : b = wk[w].act
    BY <1>0, <2>0 DEF Approve, DecisionAct, HoldingPCs
  <2>2. ran' = ran
    BY <2>0 DEF Approve, world
  <2> QED BY <2>0, <2>1, <2>2, ApproveGrants, GrantsMaps
<1>13. CASE \E d \in Actions : Reject(w, d)
  <2>0. PICK d \in Actions : Reject(w, d)
    BY <1>13
  <2>1. PICK b \in Actions : b = wk[w].act
    BY <1>0, <2>0 DEF Reject, DecisionAct, HoldingPCs
  <2>2. ran' = ran
    BY <2>0 DEF Reject, world
  <2> QED BY <2>0, <2>1, <2>2, RejectDeclines, DeclinesMaps
<1> QED
  BY <1>1, <1>2, <1>3, <1>4, <1>5, <1>6, <1>7, <1>8, <1>9, <1>10, <1>11, <1>12, <1>13
  DEF ExecStep

LEMMA CLIStepMaps ==
  ASSUME TypeInv, SingleExecutor, LedgerInv, NEW c \in CLIs, CLIStep(c)
  PROVE  LifecycleStep
<1> c \in Workers /\ LedgerMatchesRows
  BY DEF Workers, LedgerInv
<1>0. wk[c].pc = "operating" => wk[c].act \in Actions /\ AboutToRun(c)
  BY DEF TypeInv, WorkersOK, GoodRecord, HoldingPCs, AboutToRun
<1>1. CASE StartCLI(c)
  <2>1. state' = state /\ receipts' = receipts /\ ran' = ran
    BY <1>1 DEF StartCLI, world
  <2> QED BY <2>1, StillMaps
<1>2. CASE \E a \in Actions : BeginExecute(c, a)
  <2>1. state' = state /\ receipts' = receipts /\ ran' = ran
    BY <1>2 DEF BeginExecute, world
  <2> QED BY <2>1, StillMaps
<1>3. CASE RotateFails(c)
  <2>1. state' = state /\ receipts' = receipts /\ ran' = ran
    BY <1>3 DEF RotateFails, world
  <2> QED BY <2>1, StillMaps
<1>4. CASE \E a \in Actions, exclusive \in BOOLEAN : BeginOperate(c, a, exclusive)
  <2>0. PICK b \in Actions, exclusive \in BOOLEAN : BeginOperate(c, b, exclusive)
    BY <1>4
  <2>1. ran' = ran
    BY <2>0 DEF BeginOperate, world
  <2> QED BY <2>0, <2>1, OperateClears, ClearsMaps
<1>5. CASE Operate(c)
  <2>1. PICK b \in Actions : b = wk[c].act /\ AboutToRun(c)
    BY <1>0, <1>5 DEF Operate
  <2>2. state' = state /\ receipts' = receipts /\ ran' = [ran EXCEPT ![b] = @ + 1]
    BY <1>5, <2>1 DEF Operate
  <2> QED BY <2>1, <2>2, RunMaps
<1>6. CASE \E k \in Keys : RotateKey(c, k)
  <2>1. PICK b \in Actions : b = wk[c].act /\ AboutToRun(c)
    BY <1>0, <1>6 DEF RotateKey
  <2>2. state' = state /\ receipts' = receipts /\ ran' = [ran EXCEPT ![b] = @ + 1]
    BY <1>6, <2>1 DEF RotateKey
  <2> QED BY <2>1, <2>2, RunMaps
<1> QED
  BY <1>1, <1>2, <1>3, <1>4, <1>5, <1>6 DEF CLIStep

LEMMA NextMaps == TypeInv /\ SingleExecutor /\ LedgerInv /\ [Next]_vars => LifecycleStep
<1> SUFFICES ASSUME TypeInv, SingleExecutor, LedgerInv, [Next]_vars PROVE LifecycleStep
  OBVIOUS
<1>1. CASE (\E p \in Procs : Crash(p)) \/ (\E a \in Actions : Expire(a)) \/ EditConfig \/ UNCHANGED vars
  <2>1. state' = state /\ receipts' = receipts /\ ran' = ran
    BY <1>1 DEF Crash, Expire, EditConfig, vars, world
  <2> QED BY <2>1, StillMaps
<1> QED BY <1>1, ServerStepMaps, ExecStepMaps, CLIStepMaps DEF Next

\* Refinement: every behaviour of the store, with all its processes, commands,
\* crashes, recovery, sweep, prune and rotation, is a behaviour of the lifecycle.
THEOREM StoreImplements == Spec => ImplementsLifecycle
<1>1. TypeInv /\ SingleExecutor /\ LedgerInv /\ [Next]_vars => [Lifecycle!Next]_(Lifecycle!lifecycle)
  BY NextMaps DEF LifecycleStep
<1> QED BY <1>1, InitMaps, LedgerKept, PTL DEF Spec, ImplementsLifecycle, Lifecycle!Spec
=============================================================================
