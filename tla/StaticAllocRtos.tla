--------------------------- MODULE StaticAllocRtos --------------------------
(***************************************************************************)
(* static_alloc.c built with STATIC_ALLOC_FREERTOS: tasks preempt each     *)
(* other between any two accesses to the shared metadata.  The mutex       *)
(* encloses static_alloc_alloc() and static_alloc_free();                  *)
(* static_alloc_copy() increments the count outside it, with a load and a  *)
(* store.                                                                  *)
(***************************************************************************)
EXTENDS StaticAlloc

CONSTANTS
  Tasks,
  NoTask,
  CopyAlone   \* the application copies only what no other task holds or uses

ASSUME TasksAssumption == NoTask \notin Tasks

VARIABLES
  mutex,  \* the task that holds _mutex
  task,   \* what each task is executing, with its registers
  own     \* history: references each task holds

rvars == <<vars, mutex, task, own>>
heap  == <<free, refcount, blocks_used>>

Resting == [pc |-> "idle", size |-> 0, ptr |-> NULL, count |-> 0]

RtosInit ==
  /\ Init
  /\ mutex = NoTask
  /\ task = [t \in Tasks |-> Resting]
  /\ own = [t \in Tasks |-> [b \in Blocks |-> 0]]

At(t, label)   == task[t].pc = label
Goto(t, label) == task' = [task EXCEPT ![t].pc = label]

\* Another task holds a reference to b or is inside a call on it.
Shared(t, b) ==
  \E u \in Tasks \ {t} : own[u][b] > 0 \/ (~At(u, "idle") /\ task[u].ptr = b)

-----------------------------------------------------------------------------
(* What the application starts.                                            *)

StartAlloc(t, size) ==
  /\ At(t, "idle")
  /\ task' = [task EXCEPT ![t] = [Resting EXCEPT !.pc = "take", !.size = size]]
  /\ UNCHANGED <<vars, mutex, own>>

StartCopy(t, b) ==
  /\ At(t, "idle") /\ own[t][b] > 0 /\ held[b] < MaxHeld
  /\ CopyAlone => ~Shared(t, b)
  /\ task' = [task EXCEPT ![t] = [Resting EXCEPT !.pc = "load", !.ptr = b]]
  /\ UNCHANGED <<vars, mutex, own>>

\* The caller's reference ends when it calls static_alloc_free().
StartFree(t, b) ==
  /\ At(t, "idle") /\ own[t][b] > 0
  /\ task' = [task EXCEPT ![t] = [Resting EXCEPT !.pc = "take", !.ptr = b]]
  /\ own' = [own EXCEPT ![t][b] = @ - 1]
  /\ held' = [held EXCEPT ![b] = @ - 1]
  /\ UNCHANGED <<heap, result, mutex>>

\* A reference travels to another task, in a queue for instance.
HandOver(t, u, b) ==
  /\ At(t, "idle") /\ own[t][b] > 0
  /\ own' = [own EXCEPT ![t][b] = @ - 1, ![u][b] = @ + 1]
  /\ UNCHANGED <<vars, mutex, task>>

-----------------------------------------------------------------------------
(* What the calls do.                                                      *)

\* Mutant: the mutex is not waited for.
AnyMutex == TRUE

MutexFree == mutex = NoTask

\* xSemaphoreTake(_mutex, portMAX_DELAY)
Take(t) ==
  /\ At(t, "take") /\ MutexFree
  /\ mutex' = t
  /\ Goto(t, IF task[t].ptr = NULL THEN "search" ELSE "decrement")
  /\ UNCHANGED <<vars, own>>

\* Mutant: running out of memory searches again, without xSemaphoreGive().
SearchAgain(t) == Goto(t, "search")

NoRoom(t) == Goto(t, "give")

Search(t) ==
  LET n == BlocksRequired(task[t].size)
  IN  /\ At(t, "search")
      /\ \/ \E i \in Blocks :
              /\ IsFirst(i, Ends(n))
              /\ task' = [task EXCEPT ![t].pc = "mark", ![t].ptr = i - n + 1]
         \/ Ends(n) = {} /\ NoRoom(t)
      /\ UNCHANGED <<vars, mutex, own>>

Mark(t) ==
  LET b == task[t].ptr
      n == BlocksRequired(task[t].size)
  IN  /\ At(t, "mark")
      /\ Allocated(task[t].size, b, n)
      /\ own' = [own EXCEPT ![t][b] = 1]
      /\ Goto(t, "give")
      /\ UNCHANGED mutex

\* if (item->refcount > 0) item->refcount--: a load, then a store.
LoadToDecrement(t) ==
  /\ At(t, "decrement")
  /\ task' = [task EXCEPT ![t].pc = "decremented",
                          ![t].count = Decremented(task[t].ptr)]
  /\ UNCHANGED <<vars, mutex, own>>

StoreDecremented(t) ==
  /\ At(t, "decremented")
  /\ refcount' = [refcount EXCEPT ![task[t].ptr] = task[t].count]
  /\ Goto(t, "test")
  /\ UNCHANGED <<free, blocks_used, result, held, mutex, own>>

\* Mutant: the last reference is thought to be the second last.
ReleasesAtOne(b) == refcount[b] = 1

Unused(b) == refcount[b] = 0

FreeIfUnused(t) ==
  LET b == task[t].ptr
  IN  /\ At(t, "test")
      /\ free' = IF Unused(b) THEN free \cup Span(b) ELSE free
      /\ Goto(t, "give")
      /\ UNCHANGED <<refcount, blocks_used, result, held, mutex, own>>

\* xSemaphoreGive(_mutex), return
Give(t) ==
  /\ At(t, "give")
  /\ mutex' = NoTask
  /\ task' = [task EXCEPT ![t] = Resting]
  /\ UNCHANGED <<vars, own>>

\* item->refcount++ in static_alloc_copy(), without the mutex
LoadToCopy(t) ==
  /\ At(t, "load")
  /\ task' = [task EXCEPT ![t].pc = "store", ![t].count = refcount[task[t].ptr]]
  /\ UNCHANGED <<vars, mutex, own>>

StoreCopied(t) ==
  LET b == task[t].ptr
  IN  /\ At(t, "store")
      /\ refcount' = [refcount EXCEPT ![b] = task[t].count + 1]
      /\ own' = [own EXCEPT ![t][b] = @ + 1]
      /\ held' = [held EXCEPT ![b] = @ + 1]
      /\ task' = [task EXCEPT ![t] = Resting]
      /\ UNCHANGED <<free, blocks_used, result, mutex>>

App(t) ==
  \/ \E size \in Sizes : StartAlloc(t, size)
  \/ \E b \in Blocks : StartCopy(t, b) \/ StartFree(t, b)
  \/ \E b \in Blocks, u \in Tasks \ {t} : HandOver(t, u, b)

Step(t) ==
  \/ Take(t) \/ Search(t) \/ Mark(t) \/ Give(t)
  \/ LoadToDecrement(t) \/ StoreDecremented(t) \/ FreeIfUnused(t)
  \/ LoadToCopy(t) \/ StoreCopied(t)

RtosNext == \E t \in Tasks : App(t) \/ Step(t)

\* The scheduler lets every task that is not waiting for the mutex go on.
RtosSpec == RtosInit /\ [][RtosNext]_rvars /\ \A t \in Tasks : WF_rvars(Step(t))

-----------------------------------------------------------------------------
(* Properties.                                                             *)

Quiet == \A t \in Tasks : At(t, "idle")

\* Whenever no call is in progress the metadata is as exact as without
\* concurrency: no update of a count or of the bitmap was lost.
QuietExact ==
  Quiet => RefcountExact /\ RegionsDisjoint /\ BitmapExact

\* At no moment, whatever calls are in progress, is a block of a region to
\* which some task holds a reference free for the next allocation, or part of
\* a second region: static_alloc_free() and static_alloc_alloc() "critical
\* section in order to be task safe" (static_alloc.c:61, :112).
TaskSafe ==
  /\ \A b \in Live : Span(b) \cap free = {}
  /\ \A a, b \in Live : a # b => Span(a) \cap Span(b) = {}

\* Whoever takes the mutex gives it back, so nobody waits for ever for a
\* task that has returned.
MutexReleased == mutex # NoTask ~> mutex = NoTask
=============================================================================
