----------------------------- MODULE CasRegister -----------------------------
(***************************************************************************)
(* What a memory provider promises for one cell.  Resolve and Publish are  *)
(* linearizable: the call takes effect at one instant between its          *)
(* invocation and its answer, or fails without effect.  Retract is weaker: *)
(* it never removes a content other than the one it names, and an error or *)
(* a mismatch means that nothing was removed, but its ok may also mean     *)
(* that the provider could not see the cell and left it as it was.  The    *)
(* volatile provider executes every effect under one lock and needs no     *)
(* such excuse; FsCell shows that the file system provider keeps exactly   *)
(* this much.                                                              *)
(***************************************************************************)
EXTENDS MemoryEffect

CONSTANTS Client,      \* the concurrent callers of the provider
          Content      \* the values a cell can hold

VARIABLES memory,      \* the content of the cell, or None
          call         \* the call each client has in progress

vars == <<memory, call>>

Versions == [blake3 : Content]
Editions == [content : Content, version : Versions]

(***************************************************************************)
(* The three effects.  Publish may expect an absent cell, Retract always   *)
(* names a version.                                                        *)
(***************************************************************************)
Resolves  == [effect : {"resolve"}]
Publishes == [effect : {"publish"}, content : Content,
              when : Versions \union {None}]
Retracts  == [effect : {"retract"}, when : Versions]
Effects   == Resolves \union Publishes \union Retracts

\* What a client is told: a resolved edition, or how a write ended.
Replies == [resolved : Editions \union {None}]
             \union [status : {"ok", "mismatch", "error"}]

Idle         == [state |-> "idle"]
Pending(op)  == [state |-> "pending", op |-> op]
Done(reply)  == [state |-> "done", reply |-> reply]

Calls == {Idle} \union {Pending(op) : op \in Effects}
                \union {Done(reply) : reply \in Replies}

Status(s) == [status |-> s]

\* The answer of the provider to an effect executed on a cell.
Reply(current, op) ==
    IF op.effect = "resolve" THEN [resolved |-> EditionOf(current)]
    ELSE IF \/ /\ op.effect = "publish"
               /\ PublishAccepted(current, op.content, op.when)
            \/ /\ op.effect = "retract"
               /\ RetractAccepted(current, op.when)
         THEN Status("ok") ELSE Status("mismatch")

\* The content of the cell once the effect has been executed.
After(current, op) ==
    IF op.effect = "resolve" THEN current
    ELSE IF op.effect = "publish"
         THEN AfterPublish(current, op.content, op.when)
         ELSE AfterRetract(current, op.when)

Init ==
    /\ memory = None
    /\ call = [c \in Client |-> Idle]

Invoke(c, op) ==
    /\ call[c].state = "idle"
    /\ call' = [call EXCEPT ![c] = Pending(op)]
    /\ UNCHANGED memory

\* The instant at which the call takes effect.
Execute(c) ==
    /\ call[c].state = "pending"
    /\ memory' = After(memory, call[c].op)
    /\ call' = [call EXCEPT ![c] = Done(Reply(memory, call[c].op))]

\* A retract that overlooks the cell: it answers ok and nothing happened.
Overlook(c) ==
    /\ call[c].state = "pending"
    /\ call[c].op.effect = "retract"
    /\ call' = [call EXCEPT ![c] = Done(Status("ok"))]
    /\ UNCHANGED memory

\* An I/O error, or a lock held by somebody else: nothing happened.
Fail(c) ==
    /\ call[c].state = "pending"
    /\ call' = [call EXCEPT ![c] = Done(Status("error"))]
    /\ UNCHANGED memory

\* The answer reaches the client.
Return(c) ==
    /\ call[c].state = "done"
    /\ call' = [call EXCEPT ![c] = Idle]
    /\ UNCHANGED memory

\* A process dies, and with it every call of its clients.
Crash(clients) ==
    /\ call' = [c \in Client |-> IF c \in clients THEN Idle ELSE call[c]]
    /\ UNCHANGED memory

Next ==
    \/ \E c \in Client : \/ \E op \in Effects : Invoke(c, op)
                        \/ Execute(c)
                        \/ Overlook(c)
                        \/ Fail(c)
                        \/ Return(c)
    \/ \E clients \in SUBSET Client : Crash(clients)

Spec == Init /\ [][Next]_vars
=============================================================================
