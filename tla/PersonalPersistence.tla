------------------------- MODULE PersonalPersistence -------------------------
(***************************************************************************)
(* Manual persistence of the personal model: the use cases of              *)
(* application/personalPersistence.ts over the IndexedDB store, as the     *)
(* handlers of PersonalFinanceApp.tsx call them, in any number of browser  *)
(* tabs that share one origin.                                             *)
(*                                                                         *)
(* Every use case is an async function.  It runs up to its next            *)
(* transaction, and goes on when the tab delivers that transaction's       *)
(* completion.  Meanwhile the same tab and the others start further use    *)
(* cases: nothing disables a button while one is running.                  *)
(***************************************************************************)
EXTENDS Naturals, Sequences, SequencesExt, Functions

CONSTANTS
  Tabs,           \* browser tabs of the origin
  ModelIds,       \* model identities
  InitialFormats, \* formats the stored bytes may have when the tabs open
  MaxEdits,       \* bound on the versions of one draft
  MaxRunning      \* bound on the use cases running at a time, in all tabs

\* "current" imports directly, "old" has a registered migration, "unusable" is
\* legacy, unsupported or invalid.
Formats == {"current", "old", "unusable"}

ASSUME PersistenceAssumption ==
  /\ InitialFormats \subseteq Formats
  /\ MaxEdits \in Nat /\ MaxRunning \in Nat

\* A draft as the editor holds it, and its portable bytes.
Draft == [model : ModelIds, edit : 0..MaxEdits]
Bytes == [model : ModelIds, edit : 0..MaxEdits, format : Formats]
Mark(name) == [model |-> "none", edit |-> 0, format |-> name]
NoBytes == Mark("empty")
Unknown == Mark("unknown")   \* savedState before the first inspection
Failure == Mark("failure")   \* a transaction that errored or aborted

VARIABLES
  store,    \* the one slot of the object store
  queue,    \* transactions in creation order, by use case
  replies,  \* completions each tab has yet to deliver, by use case
  ops,      \* the use cases running
  opened,   \* the tabs opened
  draft,    \* each tab's open model
  saved,    \* each tab's savedState: the bytes it classifies
  error     \* each tab shows a persistence error

vars == <<store, queue, replies, ops, opened, draft, saved, error>>

Exported(d) == [model |-> d.model, edit |-> d.edit, format |-> "current"]
Imported(b) == [model |-> b.model, edit |-> b.edit]
NoDraft == Imported(NoBytes)
Migrated(b) == [b EXCEPT !.format = "current"]

\* classifyReport and inspectPersistedPersonalModel
Status(b) == CASE b.format = "current" -> "ready"
               [] b.format = "old" -> "migration_required"
               [] b.format = "unusable" -> "protected"
               [] OTHER -> b.format

Init ==
  /\ store \in {NoBytes} \cup {b \in Bytes : b.format \in InitialFormats /\ b.edit = 0}
  /\ queue = <<>> /\ replies = [t \in Tabs |-> <<>>] /\ ops = <<>> /\ opened = {}
  /\ draft \in [Tabs -> {d \in Draft : d.edit = 0}]
  /\ saved = [t \in Tabs |-> Unknown]
  /\ error = [t \in Tabs |-> FALSE]

----------------------------------------------------------------------------
(* IndexedDbPersonalModelStore: transactions on the one object store run in *)
(* creation order, and each completes, errors or aborts exactly once.       *)

Operation(t, kind, stage, transaction, d) ==
  [tab |-> t, kind |-> kind, stage |-> stage, transaction |-> transaction, value |-> NoBytes,
   draft |-> d, confirmed |-> FALSE]

\* Variant: an abort is not reported to the caller.
ReplyUnlessAborted(n, value) ==
  replies' = IF value = Failure THEN replies ELSE [replies EXCEPT ![ops[n].tab] = Append(@, n)]

Reply(n, value) == replies' = [replies EXCEPT ![ops[n].tab] = Append(@, n)]

Complete(n, value) == /\ queue' = Tail(queue) /\ ops' = [ops EXCEPT ![n].value = value]
                      /\ Reply(n, value)
                      /\ UNCHANGED <<opened, draft, saved, error>>

TransactionRuns ==
  /\ queue # <<>>
  /\ LET n == Head(queue)
         op == ops[n]
     IN  \/ op.transaction = "read" /\ Complete(n, store) /\ UNCHANGED store
         \/ op.transaction = "replace" /\ Complete(n, op.value) /\ store' = op.value
         \/ op.transaction = "remove" /\ Complete(n, NoBytes) /\ store' = NoBytes

TransactionFails == queue # <<>> /\ Complete(Head(queue), Failure) /\ UNCHANGED store

----------------------------------------------------------------------------
(* The use cases, from one await to the next *)

\* window.confirm blocks the tab that shows it until the user answers.
Blocked(t) == \E n \in DOMAIN ops : ops[n].tab = t /\ ops[n].stage = "confirm"

\* The tab delivers the completion of operation n to the stage awaiting it.
Deliver(n, kind, stage) ==
  /\ ops[n].kind = kind /\ ops[n].stage = stage /\ ~Blocked(ops[n].tab)
  /\ replies[ops[n].tab] # <<>> /\ Head(replies[ops[n].tab]) = n
  /\ replies' = [replies EXCEPT ![ops[n].tab] = Tail(@)]
  /\ UNCHANGED <<store, opened>>

\* Variant: the use case returns without awaiting its transaction.
AwaitNothing(n, stage, transaction, value) ==
  /\ ops' = Restrict(ops, DOMAIN ops \ {n}) /\ queue' = Append(queue, n)
  /\ UNCHANGED <<draft, saved, error>>

Await(n, stage, transaction, value) ==
  /\ ops' = [ops EXCEPT ![n].stage = stage, ![n].transaction = transaction, ![n].value = value]
  /\ queue' = Append(queue, n)
  /\ UNCHANGED <<draft, saved, error>>
End(n) == ops' = Restrict(ops, DOMAIN ops \ {n}) /\ UNCHANGED queue
Show(n, bytes) == saved' = [saved EXCEPT ![ops[n].tab] = bytes]
Fail(n) == /\ End(n) /\ error' = [error EXCEPT ![ops[n].tab] = TRUE]
           /\ UNCHANGED <<draft, saved>>

\* inspectSavedModel, on mount and after a save.
Inspected(n) ==
  /\ \E kind \in {"open", "save"} : Deliver(n, kind, "inspect")
  /\ IF ops[n].value = Failure THEN Fail(n)
     ELSE /\ Show(n, ops[n].value) /\ End(n)
          /\ error' = [error EXCEPT ![ops[n].tab] = FALSE] /\ UNCHANGED draft

\* Variant: bytes that cannot be loaded are taken for an empty store.
ProtectedIfMigratable(bytes) == Status(bytes) = "migration_required"

\* What savePersonalModel does with the state it inspected: it leaves protected
\* bytes to recovery, asks before it replaces another model, or writes.
Protected(bytes) == Status(bytes) \in {"protected", "migration_required"}
AsksFirst(op) == /\ Status(op.value) = "ready" /\ op.value.model # op.draft.model
                 /\ ~op.confirmed

SaveInspected(n) ==
  LET op == ops[n] IN
  /\ Deliver(n, "save", "read")
  /\ \/ op.value = Failure /\ Fail(n)
     \/ /\ Protected(op.value)
        /\ Show(n, op.value) /\ End(n) /\ UNCHANGED <<draft, error>>
     \/ /\ op.value # Failure /\ ~Protected(op.value) /\ AsksFirst(op)
        /\ ops' = [ops EXCEPT ![n].stage = "confirm"]
        /\ UNCHANGED <<queue, draft, saved, error>>
     \/ /\ op.value # Failure /\ ~Protected(op.value) /\ ~AsksFirst(op)
        /\ Await(n, "write", "replace", Exported(op.draft))

\* The user agrees to replace the different model, or not.
Answer(n, yes) ==
  /\ ops[n].stage = "confirm"
  /\ IF yes THEN /\ ops' = [ops EXCEPT ![n].stage = "read", ![n].confirmed = TRUE]
                 /\ queue' = Append(queue, n)
            ELSE End(n)
  /\ UNCHANGED <<store, replies, opened, draft, saved, error>>

\* Variant: the saved state is not inspected again after a save.
WrittenUninspected(n) == End(n) /\ UNCHANGED <<draft, saved, error>>

Written(n) == Await(n, "inspect", "read", NoBytes)

SaveWritten(n) == /\ Deliver(n, "save", "write")
                  /\ IF ops[n].value = Failure THEN Fail(n) ELSE Written(n)

\* migratePersistedPersonalModel refuses what is not migratable, and what its
\* migration does not turn into a valid current model.
MigrationInspected(n) ==
  /\ Deliver(n, "migrate", "read")
  /\ \/ Fail(n)
     \/ /\ Status(ops[n].value) = "migration_required"
        /\ Await(n, "write", "replace", Migrated(ops[n].value))

MigrationWritten(n) ==
  /\ Deliver(n, "migrate", "write")
  /\ IF ops[n].value = Failure THEN Fail(n)
     ELSE /\ Show(n, ops[n].value) /\ End(n)
          /\ draft' = [draft EXCEPT ![ops[n].tab] = Imported(ops[n].value)]
          /\ UNCHANGED error

Removed(n) ==
  /\ Deliver(n, "delete", "remove")
  /\ IF ops[n].value = Failure THEN Fail(n)
     ELSE /\ Show(n, NoBytes) /\ End(n)
          /\ error' = [error EXCEPT ![ops[n].tab] = FALSE] /\ UNCHANGED draft

----------------------------------------------------------------------------
(* What the user does in a tab *)

CanStart(t) == t \in opened /\ ~Blocked(t)

\* A use case starts and queues its first transaction.
Begins(op) ==
  \E n \in 1..MaxRunning :
    /\ n \notin DOMAIN ops /\ 1..(n - 1) \subseteq DOMAIN ops
    /\ ops' = [m \in DOMAIN ops \cup {n} |-> IF m = n THEN op ELSE ops[m]]
    /\ queue' = Append(queue, n)
Starts(op) == Begins(op) /\ UNCHANGED <<store, replies, opened, draft, saved, error>>

Open(t) == /\ t \notin opened /\ opened' = opened \cup {t}
           /\ Begins(Operation(t, "open", "inspect", "read", NoDraft))
           /\ UNCHANGED <<store, replies, draft, saved, error>>
Save(t) == CanStart(t) /\ Starts(Operation(t, "save", "read", "read", draft[t]))
Migrate(t) == /\ CanStart(t) /\ Status(saved[t]) = "migration_required"
              /\ Starts(Operation(t, "migrate", "read", "read", NoDraft))

\* Recovery controls are offered for whatever the tab believes is stored.
Offered(t) == Status(saved[t]) \notin {"unknown", "empty"}

\* The button asks for confirmation before anything starts.
Delete(t) == /\ CanStart(t) /\ Offered(t)
             /\ Starts(Operation(t, "delete", "remove", "remove", NoDraft))

Load(t) == /\ ~Blocked(t) /\ Status(saved[t]) = "ready"
           /\ draft' = [draft EXCEPT ![t] = Imported(saved[t])]
           /\ UNCHANGED <<store, queue, replies, ops, opened, saved, error>>

\* The open model is edited, or another one opened in its place.
Edit(t) == /\ ~Blocked(t)
           /\ \E d \in Draft : draft' = [draft EXCEPT ![t] = d]
           /\ UNCHANGED <<store, queue, replies, ops, opened, saved, error>>

Continue(n) == \/ Inspected(n) \/ SaveInspected(n) \/ SaveWritten(n)
               \/ MigrationInspected(n) \/ MigrationWritten(n) \/ Removed(n)
Transacts == TransactionRuns \/ TransactionFails

Next ==
  \/ Transacts
  \/ \E n \in DOMAIN ops : Continue(n) \/ \E yes \in BOOLEAN : Answer(n, yes)
  \/ \E t \in Tabs : \/ Open(t) \/ Save(t) \/ Migrate(t) \/ Delete(t) \/ Load(t)
                     \/ Edit(t)

\* The browser runs every transaction and delivers every completion.
Fairness == WF_vars(Transacts) /\ \A n \in 1..MaxRunning : WF_vars(n \in DOMAIN ops /\ Continue(n))
Spec == Init /\ [][Next]_vars /\ Fairness

----------------------------------------------------------------------------
Stored == Bytes \cup {NoBytes}
TypeOK ==
  /\ store \in Stored /\ draft \in [Tabs -> Draft] /\ saved \in [Tabs -> Stored \cup {Unknown}]
  /\ error \in [Tabs -> BOOLEAN] /\ opened \subseteq Tabs /\ DOMAIN ops \subseteq 1..MaxRunning
  /\ \A n \in DOMAIN ops : /\ ops[n].tab \in Tabs /\ ops[n].draft \in Draft \cup {NoDraft}
                           /\ ops[n].value \in Stored \cup {Failure}
  /\ ToSet(queue) \subseteq DOMAIN ops

\* "Incompatible, legacy, invalid, or migration-pending bytes are never silently
\* overwritten or deleted": only a removal the user asked for, or the write of
\* their own migration, takes them out of the store.
ProtectedBytesSurvive ==
  [][store.format \in {"old", "unusable"} /\ store' # store =>
       \/ ops[Head(queue)].kind = "delete"
       \/ ops[Head(queue)].kind = "migrate" /\ store' = Migrated(store)]_vars

\* Once nothing is running, a tab that has the origin to itself and shows no
\* error shows what is stored, however its use cases overlapped.
Settled(t) == t \in opened /\ ~error[t] /\ ops = <<>>
SavedStateIsStored == \A t \in Tabs : opened = {t} /\ Settled(t) => saved[t] = store

\* Every use case ends, unless its tab waits for an answer of the user.
UseCasesEnd ==
  \A n \in 1..MaxRunning :
    n \in DOMAIN ops ~> n \notin DOMAIN ops \/ Blocked(ops[n].tab)

\* "Requires confirmation before replacing a different loadable model": no write
\* the user was not asked about, a save or a migration, ever replaces a loadable
\* model by one of another identity.
DifferentModelConfirmed ==
  [][LET op == ops[Head(queue)] IN
     /\ store' # store /\ Status(store) = "ready" /\ Status(store') = "ready"
     /\ store'.model # store.model
     => op.confirmed]_vars
=============================================================================
