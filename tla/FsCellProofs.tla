---------------------------- MODULE FsCellProofs ----------------------------
(***************************************************************************)
(* The file system provider, for any number of tasks, processes, contents  *)
(* and crashes: its state is well typed, its lock file protects the        *)
(* critical section, and it implements the abstract register.              *)
(***************************************************************************)
EXTENDS FsCell, TLAPS

\* What a task carries at each step.
LEMMA TaskShape ==
    ASSUME TypeOK, NEW t \in Task
    PROVE  /\ task[t] \in Tasks
           /\ task[t].at = "read" => task[t].op \in Resolves
           /\ task[t].at \in {"lock", "check"} =>
                task[t].op \in Publishes \union Retracts
           /\ task[t].at \in {"stage", "rename"} => task[t].op \in Publishes
           /\ task[t].at \in {"exists", "remove"} => task[t].op \in Retracts
           /\ task[t].at \in {"unlock", "done"} => task[t].reply \in Replies
           /\ task[t].at \in {"idle", "read", "lock", "check", "stage", "rename",
                              "exists", "remove", "unlock", "done"}
  BY DEF TypeOK, Tasks, Idle

\* The effects of each kind.
LEMMA EffectShape ==
    /\ \A op \in Resolves : op.effect = "resolve"
    /\ \A op \in Publishes : /\ op.effect = "publish"
                             /\ op.content \in Content
                             /\ op.when \in Versions \union {None}
    /\ \A op \in Retracts : op.effect = "retract" /\ op.when \in Versions
  BY DEF Resolves, Publishes, Retracts

\* The states a task is sent to are states of a task.
LEMMA StatesTyped ==
    /\ Idle \in Tasks
    /\ \A op \in Resolves : At("read", op) \in Tasks
    /\ \A op \in Publishes \union Retracts :
         At("lock", op) \in Tasks /\ At("check", op) \in Tasks
    /\ \A op \in Publishes : At("stage", op) \in Tasks /\ At("rename", op) \in Tasks
    /\ \A op \in Retracts : At("exists", op) \in Tasks /\ At("remove", op) \in Tasks
    /\ \A reply \in Replies : Unlock(reply) \in Tasks /\ Done(reply) \in Tasks
    /\ \A s \in {"ok", "mismatch", "error"} : Status(s) \in Replies
  BY DEF Tasks, At, Unlock, Done, Status, Replies, Idle

\* Moving one task to a state of a task keeps the map of tasks typed.
LEMMA GotoTyped ==
    ASSUME TypeOK, NEW t \in Task, NEW state \in Tasks, Goto(t, state)
    PROVE  task' \in [Task -> Tasks]
  BY DEF TypeOK, Goto

\* What Resolve answers.
LEMMA ResolvedTyped ==
    ASSUME NEW current \in Content \union {None}
    PROVE  [resolved |-> EditionOf(current)] \in Replies
  BY NoneAssumption DEF EditionOf, Version, Editions, Versions, Replies

\* One step keeps the types.
LEMMA TypeStep == TypeOK /\ [Next]_vars => TypeOK'
<1>0. SUFFICES ASSUME TypeOK, [Next]_vars PROVE TypeOK'
  OBVIOUS
<1>1. ASSUME NEW t \in Task, NEW op \in Effects, Invoke(t, op) PROVE TypeOK'
  <2>1. At(FirstStep[op.effect], op) \in Tasks
    BY EffectShape, StatesTyped DEF FirstStep, Effects
  <2> QED
    BY <1>0, <1>1, <2>1, GotoTyped DEF Invoke, TypeOK
<1>2. ASSUME NEW t \in Task, Resolve(t) PROVE TypeOK'
  BY <1>0, <1>2, ResolvedTyped, StatesTyped, GotoTyped DEF Resolve, TypeOK
<1>3. ASSUME NEW t \in Task, RetractExists(t) PROVE TypeOK'
  BY <1>0, <1>3, TaskShape, StatesTyped, GotoTyped DEF RetractExists, TypeOK
<1>16. ASSUME NEW t \in Task, ExistsFails(t) PROVE TypeOK'
  BY <1>0, <1>16, StatesTyped, GotoTyped DEF ExistsFails, TypeOK
<1>4. ASSUME NEW t \in Task, Acquire(t) PROVE TypeOK'
  BY <1>0, <1>4, TaskShape, StatesTyped, GotoTyped, ProcessAssumption
     DEF Acquire, TypeOK
<1>5. ASSUME NEW t \in Task, AcquireFails(t) PROVE TypeOK'
  BY <1>0, <1>5, StatesTyped, GotoTyped DEF AcquireFails, TypeOK
<1>6. ASSUME NEW t \in Task, PublishCheck(t) PROVE TypeOK'
  <2>1. task[t].op \in Publishes
    BY <1>0, <1>6, TaskShape, EffectShape DEF PublishCheck
  <2> QED
    BY <1>0, <1>6, <2>1, StatesTyped, GotoTyped DEF PublishCheck, TypeOK
<1>7. ASSUME NEW t \in Task, Stage(t) PROVE TypeOK'
  BY <1>0, <1>7, TaskShape, EffectShape, StatesTyped, GotoTyped DEF Stage, TypeOK
<1>8. ASSUME NEW t \in Task, Rename(t) PROVE TypeOK'
  BY <1>0, <1>8, StatesTyped, GotoTyped DEF Rename, TypeOK
<1>9. ASSUME NEW t \in Task, RetractCheck(t) PROVE TypeOK'
  <2>1. task[t].op \in Retracts
    BY <1>0, <1>9, TaskShape, EffectShape DEF RetractCheck
  <2> QED
    BY <1>0, <1>9, <2>1, StatesTyped, GotoTyped DEF RetractCheck, TypeOK
<1>10. ASSUME NEW t \in Task, Remove(t) PROVE TypeOK'
  BY <1>0, <1>10, StatesTyped, GotoTyped DEF Remove, TypeOK
<1>11. ASSUME NEW t \in Task, IoError(t) PROVE TypeOK'
  BY <1>0, <1>11, TaskShape, EffectShape, StatesTyped, GotoTyped DEF IoError, TypeOK
<1>12. ASSUME NEW t \in Task, Release(t) PROVE TypeOK'
  BY <1>0, <1>12, TaskShape, StatesTyped, GotoTyped DEF Release, TypeOK
<1>13. ASSUME NEW t \in Task, Return(t) PROVE TypeOK'
  BY <1>0, <1>13, StatesTyped, GotoTyped DEF Return, TypeOK
<1>14. ASSUME NEW p \in Process, Crash(p) PROVE TypeOK'
  BY <1>0, <1>14, StatesTyped DEF Crash, TypeOK
<1>15. CASE UNCHANGED vars
  BY <1>0, <1>15 DEF vars, TypeOK
<1> QED
  BY <1>0, <1>1, <1>2, <1>3, <1>16, <1>4, <1>5, <1>6, <1>7, <1>8, <1>9, <1>10, <1>11,
     <1>12, <1>13, <1>14, <1>15 DEF Next

(***************************************************************************)
(* Every variable of the provider keeps its type, whichever tasks call it  *)
(* and whichever processes die.                                            *)
(***************************************************************************)
THEOREM TypeCorrect == Spec => []TypeOK
<1>1. Init => TypeOK
  BY StatesTyped DEF Init, TypeOK
<1> QED
  BY <1>1, TypeStep, PTL DEF Spec

-----------------------------------------------------------------------------
(***************************************************************************)
(* The inductive invariant is CriticalSection itself with the types: that  *)
(* no two tasks are inside needs the lock file to name a live process, and *)
(* that needs the tasks of dead processes to be idle.                      *)
(***************************************************************************)
Inv == TypeOK /\ CriticalSection

\* Only the task that moves changes; its own new state is the argument.
LEMMA GotoOne ==
    ASSUME TypeOK, NEW t \in Task, NEW state, Goto(t, state)
    PROVE  /\ task'[t] = state
           /\ \A u \in Task : u # t => task'[u] = task[u]
  BY DEF TypeOK, Goto

\* The steps that hold the lock, as facts about constructed states.
LEMMA StateAt ==
    /\ Idle.at = "idle"
    /\ \A step, op : At(step, op).at = step /\ At(step, op).op = op
    /\ \A reply : Unlock(reply).at = "unlock" /\ Done(reply).at = "done"
    /\ \A reply : Unlock(reply).reply = reply /\ Done(reply).reply = reply
  BY DEF Idle, At, Unlock, Done

\* A task inside the critical section is alone there.
LEMMA InsideAlone ==
    ASSUME CriticalSection, NEW t \in Task, Locked(t)
    PROVE  /\ lock = ProcessOf[t]
           /\ \A u \in Task : u # t => ~Locked(u)
  BY DEF CriticalSection

\* One step keeps the critical section.
LEMMA CriticalStep == Inv /\ [Next]_vars => CriticalSection'
<1>0. SUFFICES ASSUME TypeOK, CriticalSection, [Next]_vars PROVE CriticalSection'
  BY DEF Inv
<1>1. ASSUME NEW t \in Task, NEW op \in Effects, Invoke(t, op) PROVE CriticalSection'
  <2>1. FirstStep[op.effect] \in {"read", "lock", "exists"}
    BY EffectShape DEF FirstStep, Effects
  <2> QED
    BY <1>0, <1>1, <2>1, GotoOne, StateAt DEF Invoke, CriticalSection, Locked
<1>2. ASSUME NEW t \in Task, Resolve(t) PROVE CriticalSection'
  BY <1>0, <1>2, GotoOne, StateAt DEF Resolve, CriticalSection, Locked
<1>3. ASSUME NEW t \in Task, RetractExists(t) PROVE CriticalSection'
  BY <1>0, <1>3, GotoOne, StateAt DEF RetractExists, CriticalSection, Locked
<1>16. ASSUME NEW t \in Task, ExistsFails(t) PROVE CriticalSection'
  BY <1>0, <1>16, GotoOne, StateAt DEF ExistsFails, CriticalSection, Locked
<1>4. ASSUME NEW t \in Task, Acquire(t) PROVE CriticalSection'
  <2>1. \A u \in Task : ~Locked(u)
    BY <1>0, <1>4, ProcessAssumption, NoneAssumption
       DEF Acquire, LockAvailable, CriticalSection, Locked
  <2> QED
    BY <1>0, <1>4, <2>1, GotoOne, StateAt DEF Acquire, CriticalSection, Locked
<1>5. ASSUME NEW t \in Task, AcquireFails(t) PROVE CriticalSection'
  BY <1>0, <1>5, GotoOne, StateAt DEF AcquireFails, CriticalSection, Locked
<1>6. ASSUME NEW t \in Task, PublishCheck(t) PROVE CriticalSection'
  <2>1. Locked(t)
    BY <1>6 DEF PublishCheck, Locked
  <2> QED
    BY <1>0, <1>6, <2>1, GotoOne, StateAt
       DEF PublishCheck, PublishAccepted, CriticalSection, Locked
<1>7. ASSUME NEW t \in Task, Stage(t) PROVE CriticalSection'
  <2>1. Locked(t) /\ staged'[t] = task[t].op.content
    BY <1>0, <1>7 DEF Stage, Locked, TypeOK
  <2> QED
    BY <1>0, <1>7, <2>1, GotoOne, StateAt DEF Stage, CriticalSection, Locked
<1>8. ASSUME NEW t \in Task, Rename(t) PROVE CriticalSection'
  <2>1. Locked(t)
    BY <1>8 DEF Rename, Locked
  <2> QED
    BY <1>0, <1>8, <2>1, InsideAlone, GotoOne, StateAt DEF Rename, CriticalSection, Locked
<1>9. ASSUME NEW t \in Task, RetractCheck(t) PROVE CriticalSection'
  <2>1. Locked(t)
    BY <1>9 DEF RetractCheck, Locked
  <2> QED
    BY <1>0, <1>9, <2>1, GotoOne, StateAt
       DEF RetractCheck, RetractAccepted, CriticalSection, Locked
<1>10. ASSUME NEW t \in Task, Remove(t) PROVE CriticalSection'
  <2>1. Locked(t)
    BY <1>10 DEF Remove, Locked
  <2> QED
    BY <1>0, <1>10, <2>1, InsideAlone, GotoOne, StateAt
       DEF Remove, CriticalSection, Locked
<1>11. ASSUME NEW t \in Task, IoError(t) PROVE CriticalSection'
  BY <1>0, <1>11, GotoOne, StateAt DEF IoError, CriticalSection, Locked, TypeOK
<1>12. ASSUME NEW t \in Task, Release(t) PROVE CriticalSection'
  <2>1. Locked(t)
    BY <1>12 DEF Release, Locked
  <2> QED
    BY <1>0, <1>12, <2>1, InsideAlone, GotoOne, StateAt
       DEF Release, CriticalSection, Locked
<1>13. ASSUME NEW t \in Task, Return(t) PROVE CriticalSection'
  BY <1>0, <1>13, GotoOne, StateAt DEF Return, CriticalSection, Locked
<1>14. ASSUME NEW p \in Process, Crash(p) PROVE CriticalSection'
  BY <1>0, <1>14, StateAt DEF Crash, CriticalSection, Locked
<1>15. CASE UNCHANGED vars
  BY <1>0, <1>15 DEF vars, CriticalSection, Locked
<1> QED
  BY <1>0, <1>1, <1>2, <1>3, <1>16, <1>4, <1>5, <1>6, <1>7, <1>8, <1>9, <1>10, <1>11,
     <1>12, <1>13, <1>14, <1>15 DEF Next

\* The invariant holds in every reachable state.
LEMMA InvHolds == Spec => []Inv
<1>1. Init => Inv
  BY StatesTyped, StateAt DEF Init, Inv, TypeOK, CriticalSection, Locked
<1>2. Inv /\ [Next]_vars => Inv'
  BY TypeStep, CriticalStep DEF Inv
<1> QED
  BY <1>1, <1>2, PTL DEF Spec

(***************************************************************************)
(* The PID lock file makes read-compare-write one step for every number of *)
(* tasks and processes: no two live tasks are inside, and the comparison a *)
(* task made still holds when it renames or removes the file.              *)
(***************************************************************************)
THEOREM LockProtects == Spec => []CriticalSection
<1>1. Inv => CriticalSection
  BY DEF Inv
<1> QED
  BY <1>1, InvHolds, PTL

-----------------------------------------------------------------------------
(***************************************************************************)
(* Refinement.  The abstract calls of the tasks, as the mapping of FsCell  *)
(* defines them.                                                           *)
(***************************************************************************)
Calls == [t \in Task |-> AbstractCall(t)]

\* The call a state of a task stands for.
CallOf(state) ==
    IF state.at = "idle" THEN [state |-> "idle"]
    ELSE IF state.at \in {"unlock", "done"}
         THEN [state |-> "done", reply |-> state.reply]
         ELSE [state |-> "pending", op |-> state.op]

\* Moving one task replaces one call.
LEMMA GotoCall ==
    ASSUME TypeOK, NEW t \in Task, NEW state, Goto(t, state)
    PROVE  Calls' = [Calls EXCEPT ![t] = CallOf(state)]
  BY DEF TypeOK, Goto, Calls, AbstractCall, CallOf

\* The calls of constructed states.
LEMMA CallOfState ==
    /\ CallOf(Idle) = [state |-> "idle"]
    /\ \A step \in {"read", "lock", "check", "stage", "rename", "exists", "remove"} :
         \A op : CallOf(At(step, op)) = [state |-> "pending", op |-> op]
    /\ \A reply : /\ CallOf(Unlock(reply)) = [state |-> "done", reply |-> reply]
                  /\ CallOf(Done(reply)) = [state |-> "done", reply |-> reply]
  BY DEF CallOf, Idle, At, Unlock, Done

\* The call of a task, by its step.
LEMMA CallAt ==
    ASSUME TypeOK, NEW t \in Task
    PROVE  /\ Calls[t] = CallOf(task[t])
           /\ task[t].at = "idle" => Calls[t] = [state |-> "idle"]
           /\ task[t].at \in {"read", "lock", "check", "stage", "rename", "exists", "remove"}
                => Calls[t] = [state |-> "pending", op |-> task[t].op]
           /\ task[t].at \in {"unlock", "done"}
                => Calls[t] = [state |-> "done", reply |-> task[t].reply]
  BY DEF Calls, AbstractCall, CallOf

\* A step that leaves the call of a task as it is leaves all calls alone.
LEMMA CallStutter ==
    ASSUME NEW t \in Task, NEW call, Calls' = [Calls EXCEPT ![t] = call],
           call = Calls[t]
    PROVE  Calls' = Calls
  BY DEF Calls

\* The abstract actions in terms of the mapping.
LEMMA AbstractActions ==
    ASSUME NEW t \in Task
    PROVE  /\ \A op \in Effects :
                /\ Calls[t] = [state |-> "idle"]
                /\ Calls' = [Calls EXCEPT ![t] = [state |-> "pending", op |-> op]]
                /\ file' = file
                => Register!Next
           /\ \A op, reply :
                /\ Calls[t] = [state |-> "pending", op |-> op]
                /\ Calls' = [Calls EXCEPT ![t] = [state |-> "done", reply |-> reply]]
                /\ \/ file' = Register!After(file, op) /\ reply = Register!Reply(file, op)
                   \/ file' = file /\ reply = Status("error")
                   \/ /\ file' = file /\ reply = Status("ok")
                      /\ op \in Retracts
                => Register!Next
           /\ \A reply :
                /\ Calls[t] = [state |-> "done", reply |-> reply]
                /\ Calls' = [Calls EXCEPT ![t] = [state |-> "idle"]]
                /\ file' = file
                => Register!Next
<1>1. ASSUME NEW op \in Effects, Calls[t] = [state |-> "idle"], file' = file,
             Calls' = [Calls EXCEPT ![t] = [state |-> "pending", op |-> op]]
      PROVE  Register!Next
  <2>1. Register!Invoke(t, op)
    BY <1>1 DEF Register!Invoke, Register!Pending, Calls
  <2>2. op \in Register!Effects
    BY DEF Effects, Resolves, Publishes, Retracts, Versions,
           Register!Effects, Register!Resolves, Register!Publishes,
           Register!Retracts, Register!Versions
  <2> QED
    BY <2>1, <2>2 DEF Register!Next
<1>2. ASSUME NEW op, NEW reply, Calls[t] = [state |-> "pending", op |-> op],
             Calls' = [Calls EXCEPT ![t] = [state |-> "done", reply |-> reply]],
             file' = Register!After(file, op), reply = Register!Reply(file, op)
      PROVE  Register!Next
  <2>1. Calls[t].state = "pending" /\ Calls[t].op = op
    BY <1>2
  <2>2. Register!Done(Register!Reply(file, Calls[t].op))
          = [state |-> "done", reply |-> reply]
    BY <1>2, <2>1 DEF Register!Done
  <2>3. /\ file' = Register!After(file, Calls[t].op)
        /\ Calls' = [Calls EXCEPT ![t] = Register!Done(Register!Reply(file, Calls[t].op))]
    BY <1>2, <2>1, <2>2
  <2>4. Register!Execute(t)
    BY <2>1, <2>3 DEF Register!Execute, Calls
  <2> QED
    BY <2>4 DEF Register!Next
<1>3. ASSUME NEW op, NEW reply, Calls[t] = [state |-> "pending", op |-> op],
             Calls' = [Calls EXCEPT ![t] = [state |-> "done", reply |-> reply]],
             file' = file, reply = Status("error")
      PROVE  Register!Next
  <2>1. Register!Fail(t)
    BY <1>3 DEF Register!Fail, Register!Done, Register!Status, Status, Calls
  <2> QED
    BY <2>1 DEF Register!Next
<1>16. ASSUME NEW op \in Retracts, NEW reply, Calls[t] = [state |-> "pending", op |-> op],
             Calls' = [Calls EXCEPT ![t] = [state |-> "done", reply |-> reply]],
             file' = file, reply = Status("ok")
      PROVE  Register!Next
  <2>1. Calls[t].state = "pending" /\ Calls[t].op.effect = "retract"
    BY <1>16, EffectShape
  <2>2. Register!Overlook(t)
    BY <1>16, <2>1 DEF Register!Overlook, Register!Done, Register!Status, Status, Calls
  <2> QED
    BY <2>2 DEF Register!Next
<1>4. ASSUME NEW reply, Calls[t] = [state |-> "done", reply |-> reply],
             Calls' = [Calls EXCEPT ![t] = [state |-> "idle"]], file' = file
      PROVE  Register!Next
  <2>1. Register!Return(t)
    BY <1>4 DEF Register!Return, Register!Idle, Calls
  <2> QED
    BY <2>1 DEF Register!Next
<1> QED
  BY <1>1, <1>2, <1>3, <1>16, <1>4

\* The abstract execution of each effect, as the provider decides it.
LEMMA Executed ==
    ASSUME NEW current
    PROVE  /\ \A op \in Resolves : /\ Register!After(current, op) = current
                                  /\ Register!Reply(current, op)
                                       = [resolved |-> EditionOf(current)]
           /\ \A op \in Publishes :
                LET accepted == PublishAccepted(current, op.content, op.when) IN
                /\ Register!After(current, op) = IF accepted THEN op.content ELSE current
                /\ Register!Reply(current, op)
                     = IF accepted THEN Status("ok") ELSE Status("mismatch")
           /\ \A op \in Retracts :
                LET accepted == RetractAccepted(current, op.when) IN
                /\ Register!After(current, op) = IF accepted THEN None ELSE current
                /\ Register!Reply(current, op)
                     = IF accepted THEN Status("ok") ELSE Status("mismatch")
<1>1. ASSUME NEW op \in Resolves
      PROVE  /\ Register!After(current, op) = current
             /\ Register!Reply(current, op) = [resolved |-> EditionOf(current)]
  BY EffectShape DEF Register!After, Register!Reply, Register!EditionOf,
     Register!Version, EditionOf, Version
<1>2. ASSUME NEW op \in Publishes
      PROVE  LET accepted == PublishAccepted(current, op.content, op.when) IN
             /\ Register!After(current, op) = IF accepted THEN op.content ELSE current
             /\ Register!Reply(current, op)
                  = IF accepted THEN Status("ok") ELSE Status("mismatch")
  BY EffectShape DEF Register!After, Register!Reply, Register!AfterPublish,
     Register!PublishAccepted, Register!VersionOf, Register!Version, Register!Status,
     PublishAccepted, VersionOf, Version, Status
<1>3. ASSUME NEW op \in Retracts
      PROVE  LET accepted == RetractAccepted(current, op.when) IN
             /\ Register!After(current, op) = IF accepted THEN None ELSE current
             /\ Register!Reply(current, op)
                  = IF accepted THEN Status("ok") ELSE Status("mismatch")
  BY EffectShape DEF Register!After, Register!Reply, Register!AfterRetract,
     Register!RetractAccepted, Register!VersionOf, Register!Version, Register!Status,
     RetractAccepted, VersionOf, Version, Status
<1> QED
  BY <1>1, <1>2, <1>3

\* Every step of the provider is a step of the register, or none.
LEMMA RefineStep == Inv /\ [Next]_vars => Register!Next \/ (Calls' = Calls /\ file' = file)
<1>0. SUFFICES ASSUME TypeOK, CriticalSection, [Next]_vars
               PROVE  Register!Next \/ (Calls' = Calls /\ file' = file)
  BY DEF Inv
<1> DEFINE Goal == Register!Next \/ (Calls' = Calls /\ file' = file)
<1>1. ASSUME NEW t \in Task, NEW op \in Effects, Invoke(t, op) PROVE Goal
  <2>1. FirstStep[op.effect] \in {"read", "lock", "exists"}
    BY EffectShape DEF FirstStep, Effects
  <2>2. Calls' = [Calls EXCEPT ![t] = [state |-> "pending", op |-> op]]
    BY <1>0, <1>1, <2>1, GotoCall, CallOfState DEF Invoke
  <2>3. Calls[t] = [state |-> "idle"] /\ file' = file
    BY <1>0, <1>1, CallAt DEF Invoke
  <2> QED
    BY <2>2, <2>3, AbstractActions
<1>2. ASSUME NEW t \in Task, Resolve(t) PROVE Goal
  <2>1. task[t].op \in Resolves /\ Calls[t] = [state |-> "pending", op |-> task[t].op]
    BY <1>0, <1>2, TaskShape, CallAt DEF Resolve
  <2>2. Calls' = [Calls EXCEPT ![t] =
                    [state |-> "done", reply |-> [resolved |-> EditionOf(file)]]]
    BY <1>0, <1>2, GotoCall, CallOfState DEF Resolve
  <2>3. file' = Register!After(file, task[t].op)
          /\ [resolved |-> EditionOf(file)] = Register!Reply(file, task[t].op)
    BY <1>2, <2>1, Executed DEF Resolve
  <2> QED
    BY <2>1, <2>2, <2>3, AbstractActions
<1>3. ASSUME NEW t \in Task, RetractExists(t) PROVE Goal
  <2>1. task[t].op \in Retracts /\ Calls[t] = [state |-> "pending", op |-> task[t].op]
    BY <1>0, <1>3, TaskShape, CallAt DEF RetractExists
  <2>2. CASE file = None
    <3>1. Calls' = [Calls EXCEPT ![t] = [state |-> "done", reply |-> Status("ok")]]
      BY <1>0, <1>3, <2>2, GotoCall, CallOfState DEF RetractExists
    <3>2. file' = Register!After(file, task[t].op)
            /\ Status("ok") = Register!Reply(file, task[t].op)
      BY <1>3, <2>1, <2>2, Executed DEF RetractExists, RetractAccepted
    <3> QED
      BY <2>1, <3>1, <3>2, AbstractActions
  <2>3. CASE file # None
    BY <1>0, <1>3, <2>1, <2>3, GotoCall, CallOfState, CallStutter DEF RetractExists
  <2> QED
    BY <2>2, <2>3
<1>16. ASSUME NEW t \in Task, ExistsFails(t) PROVE Goal
  <2>1. task[t].op \in Retracts /\ Calls[t] = [state |-> "pending", op |-> task[t].op]
    BY <1>0, <1>16, TaskShape, CallAt DEF ExistsFails
  <2>2. Calls' = [Calls EXCEPT ![t] = [state |-> "done", reply |-> Status("ok")]]
    BY <1>0, <1>16, GotoCall, CallOfState DEF ExistsFails
  <2>3. file' = file
    BY <1>16 DEF ExistsFails
  <2> QED
    BY <2>1, <2>2, <2>3, AbstractActions
<1>4. ASSUME NEW t \in Task, Acquire(t) PROVE Goal
  <2>1. Calls[t] = [state |-> "pending", op |-> task[t].op] /\ file' = file
    BY <1>0, <1>4, CallAt DEF Acquire
  <2>2. Calls' = [Calls EXCEPT ![t] = [state |-> "pending", op |-> task[t].op]]
    BY <1>0, <1>4, GotoCall, CallOfState DEF Acquire
  <2> QED
    BY <2>1, <2>2 DEF Calls
<1>5. ASSUME NEW t \in Task, AcquireFails(t) PROVE Goal
  <2>1. Calls[t] = [state |-> "pending", op |-> task[t].op] /\ file' = file
    BY <1>0, <1>5, CallAt DEF AcquireFails
  <2>2. Calls' = [Calls EXCEPT ![t] = [state |-> "done", reply |-> Status("error")]]
    BY <1>0, <1>5, GotoCall, CallOfState DEF AcquireFails
  <2> QED
    BY <2>1, <2>2, AbstractActions
<1>6. ASSUME NEW t \in Task, PublishCheck(t) PROVE Goal
  <2>1. task[t].op \in Publishes /\ Calls[t] = [state |-> "pending", op |-> task[t].op]
    BY <1>0, <1>6, TaskShape, EffectShape, CallAt DEF PublishCheck
  <2> DEFINE op == task[t].op
  <2>2. CASE ~PublishAccepted(file, op.content, op.when)
    <3>1. Calls' = [Calls EXCEPT ![t] = [state |-> "done", reply |-> Status("mismatch")]]
      BY <1>0, <1>6, <2>2, GotoCall, CallOfState DEF PublishCheck
    <3>2. file' = Register!After(file, op) /\ Status("mismatch") = Register!Reply(file, op)
      BY <1>6, <2>1, <2>2, Executed DEF PublishCheck
    <3> QED
      BY <2>1, <3>1, <3>2, AbstractActions
  <2>3. CASE PublishAccepted(file, op.content, op.when)
               /\ VersionOf(file) = Version(op.content)
    <3>1. Calls' = [Calls EXCEPT ![t] = [state |-> "done", reply |-> Status("ok")]]
      BY <1>0, <1>6, <2>3, GotoCall, CallOfState DEF PublishCheck
    <3>2. file = op.content
      <4>1. file # None
        BY <2>1, <2>3, EffectShape, NoneAssumption DEF VersionOf, Version
      <4> QED
        BY <2>3, <4>1 DEF VersionOf, Version
    <3>3. file' = Register!After(file, op) /\ Status("ok") = Register!Reply(file, op)
      BY <1>6, <2>1, <2>3, <3>2, Executed DEF PublishCheck
    <3> QED
      BY <2>1, <3>1, <3>3, AbstractActions
  <2>4. CASE PublishAccepted(file, op.content, op.when)
               /\ VersionOf(file) # Version(op.content)
    BY <1>0, <1>6, <2>1, <2>4, GotoCall, CallOfState, CallStutter DEF PublishCheck
  <2> QED
    BY <2>2, <2>3, <2>4
<1>7. ASSUME NEW t \in Task, Stage(t) PROVE Goal
  <2>1. Calls[t] = [state |-> "pending", op |-> task[t].op] /\ file' = file
    BY <1>0, <1>7, CallAt DEF Stage
  <2>2. Calls' = [Calls EXCEPT ![t] = [state |-> "pending", op |-> task[t].op]]
    BY <1>0, <1>7, GotoCall, CallOfState DEF Stage
  <2> QED
    BY <2>1, <2>2 DEF Calls
<1>8. ASSUME NEW t \in Task, Rename(t) PROVE Goal
  <2>1. task[t].op \in Publishes /\ Calls[t] = [state |-> "pending", op |-> task[t].op]
    BY <1>0, <1>8, TaskShape, CallAt DEF Rename
  <2>2. Calls' = [Calls EXCEPT ![t] = [state |-> "done", reply |-> Status("ok")]]
    BY <1>0, <1>8, GotoCall, CallOfState DEF Rename
  <2>3. task[t].op.when = VersionOf(file) /\ file' = task[t].op.content
    BY <1>0, <1>8 DEF Rename, CriticalSection
  <2>4. file' = Register!After(file, task[t].op)
          /\ Status("ok") = Register!Reply(file, task[t].op)
    BY <2>1, <2>3, Executed DEF PublishAccepted
  <2> QED
    BY <2>1, <2>2, <2>4, AbstractActions
<1>9. ASSUME NEW t \in Task, RetractCheck(t) PROVE Goal
  <2>1. task[t].op \in Retracts /\ Calls[t] = [state |-> "pending", op |-> task[t].op]
    BY <1>0, <1>9, TaskShape, EffectShape, CallAt DEF RetractCheck
  <2> DEFINE op == task[t].op
  <2>2. CASE file = None
    <3>1. Calls' = [Calls EXCEPT ![t] = [state |-> "done", reply |-> Status("ok")]]
      BY <1>0, <1>9, <2>2, GotoCall, CallOfState DEF RetractCheck
    <3>2. file' = Register!After(file, op) /\ Status("ok") = Register!Reply(file, op)
      BY <1>9, <2>1, <2>2, Executed DEF RetractCheck, RetractAccepted
    <3> QED
      BY <2>1, <3>1, <3>2, AbstractActions
  <2>3. CASE file # None /\ ~RetractAccepted(file, op.when)
    <3>1. Calls' = [Calls EXCEPT ![t] = [state |-> "done", reply |-> Status("mismatch")]]
      BY <1>0, <1>9, <2>3, GotoCall, CallOfState DEF RetractCheck
    <3>2. file' = Register!After(file, op) /\ Status("mismatch") = Register!Reply(file, op)
      BY <1>9, <2>1, <2>3, Executed DEF RetractCheck
    <3> QED
      BY <2>1, <3>1, <3>2, AbstractActions
  <2>4. CASE file # None /\ RetractAccepted(file, op.when)
    BY <1>0, <1>9, <2>1, <2>4, GotoCall, CallOfState, CallStutter DEF RetractCheck
  <2> QED
    BY <2>2, <2>3, <2>4
<1>10. ASSUME NEW t \in Task, Remove(t) PROVE Goal
  <2>1. task[t].op \in Retracts /\ Calls[t] = [state |-> "pending", op |-> task[t].op]
    BY <1>0, <1>10, TaskShape, CallAt DEF Remove
  <2>2. Calls' = [Calls EXCEPT ![t] = [state |-> "done", reply |-> Status("ok")]]
    BY <1>0, <1>10, GotoCall, CallOfState DEF Remove
  <2>3. task[t].op.when = VersionOf(file) /\ file' = None
    BY <1>0, <1>10 DEF Remove, CriticalSection
  <2>4. file' = Register!After(file, task[t].op)
          /\ Status("ok") = Register!Reply(file, task[t].op)
    BY <2>1, <2>3, Executed DEF RetractAccepted
  <2> QED
    BY <2>1, <2>2, <2>4, AbstractActions
<1>11. ASSUME NEW t \in Task, IoError(t) PROVE Goal
  <2>1. Calls[t] = [state |-> "pending", op |-> task[t].op] /\ file' = file
    BY <1>0, <1>11, CallAt DEF IoError
  <2>2. Calls' = [Calls EXCEPT ![t] = [state |-> "done", reply |-> Status("error")]]
    BY <1>0, <1>11, GotoCall, CallOfState DEF IoError
  <2> QED
    BY <2>1, <2>2, AbstractActions
<1>12. ASSUME NEW t \in Task, Release(t) PROVE Goal
  <2>1. Calls[t] = [state |-> "done", reply |-> task[t].reply] /\ file' = file
    BY <1>0, <1>12, CallAt DEF Release
  <2>2. Calls' = [Calls EXCEPT ![t] = [state |-> "done", reply |-> task[t].reply]]
    BY <1>0, <1>12, GotoCall, CallOfState DEF Release
  <2> QED
    BY <2>1, <2>2 DEF Calls
<1>13. ASSUME NEW t \in Task, Return(t) PROVE Goal
  <2>1. Calls[t] = [state |-> "done", reply |-> task[t].reply] /\ file' = file
    BY <1>0, <1>13, CallAt DEF Return
  <2>2. Calls' = [Calls EXCEPT ![t] = [state |-> "idle"]]
    BY <1>0, <1>13, GotoCall, CallOfState DEF Return
  <2> QED
    BY <2>1, <2>2, AbstractActions
<1>14. ASSUME NEW p \in Process, Crash(p) PROVE Goal
  <2>1. Calls' = [t \in Task |-> IF ProcessOf[t] = p THEN [state |-> "idle"]
                                                     ELSE Calls[t]]
    BY <1>0, <1>14, StateAt DEF Crash, Calls, AbstractCall
  <2>2. Register!Crash({t \in Task : ProcessOf[t] = p})
    BY <1>14, <2>1 DEF Crash, Register!Crash, Register!Idle, Calls
  <2> QED
    BY <2>2 DEF Register!Next
<1>15. CASE UNCHANGED vars
  BY <1>15 DEF vars, Calls, AbstractCall
<1> QED
  BY <1>0, <1>1, <1>2, <1>3, <1>16, <1>4, <1>5, <1>6, <1>7, <1>8, <1>9, <1>10, <1>11,
     <1>12, <1>13, <1>14, <1>15 DEF Next

(***************************************************************************)
(* The file system provider implements the abstract register.  Resolve and *)
(* Publish take effect at one instant between invocation and answer, or    *)
(* fail without effect, although they are made of a lock file, a read, a   *)
(* staged write and a rename, and although processes die in between.  A    *)
(* retract removes the version it names or nothing; when its exists() errs *)
(* it answers ok and leaves the file (the register's Overlook), so no      *)
(* linearizability of Retract is claimed.                                  *)
(***************************************************************************)
THEOREM RegisterImplemented == Spec => ImplementsRegister
<1>1. Init => Register!Init
  BY StateAt DEF Init, Register!Init, Register!Idle, AbstractCall
<1>2. Inv /\ [Next]_vars => [Register!Next]_(Register!vars)
  BY RefineStep DEF Register!vars, Calls
<1> QED
  BY <1>1, <1>2, InvHolds, PTL DEF Spec, ImplementsRegister, Register!Spec
=============================================================================
