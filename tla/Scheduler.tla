----------------------------- MODULE Scheduler -----------------------------
(***************************************************************************)
(* The OpenOS task scheduler (kernel/openos/scheduler.c): a pool of        *)
(* TASK_LIST_DEPTH task containers, a linked list of the pending ones in   *)
(* order of priority, the main loop that runs them, and the interrupts     *)
(* that push them.                                                         *)
(*                                                                         *)
(* scheduler_push_task disables the interrupts, so a push is one step.     *)
(* scheduler_start does not: the main loop takes one step per access to    *)
(* the shared list, and an interrupt may push between any two of them.     *)
(***************************************************************************)
EXTENDS Integers, FiniteSets

CONSTANTS
  TASK_LIST_DEPTH,     \* scheduler.h: 10
  MAXPENDING           \* bound: an interrupt finds fewer tasks than this in
                       \* the list, the CPU being that much ahead of the radio

ASSUME SchedulerAssumption ==
  /\ TASK_LIST_DEPTH \in Nat \ {0}
  /\ MAXPENDING \in 1 .. TASK_LIST_DEPTH

Containers == 1 .. TASK_LIST_DEPTH

Nil == 0               \* the NULL pointer to a container

NoTask == "NULL"       \* the NULL function pointer

(***************************************************************************)
(* The two tasks this firmware pushes, both from the MAC's interrupts      *)
(* (notif_receive and notif_sendDone), and their priorities.               *)
(***************************************************************************)
Tasks == {"sixtopNotifReceive", "sixtopNotifSendDone"}

PrioOf(task) == IF task = "sixtopNotifReceive" THEN 1 ELSE 2

TASKPRIO_NONE == 0

VARIABLES
  taskList,    \* the first container of the list
  next, prio, cb,      \* the fields of each container
  pc,          \* the statement of scheduler_start to execute next
  this,        \* pThisTask
  loaded,      \* pThisTask->next, read and not yet stored
  fresh,       \* ghost: the containers whose callback was not called yet
  hit          \* ghost: a push came between the two halves of an update

vars == <<taskList, next, prio, cb, pc, this, loaded, fresh, hit>>
list == <<taskList, next, prio, cb>>

Pointers == Containers \cup {Nil}

-----------------------------------------------------------------------------

Init ==
  /\ taskList = Nil
  /\ next = [c \in Containers |-> Nil]
  /\ prio = [c \in Containers |-> TASKPRIO_NONE]
  /\ cb = [c \in Containers |-> NoTask]
  /\ pc = "check"
  /\ this = Nil
  /\ loaded = Nil
  /\ fresh = {}
  /\ hit = FALSE

\* The k-th container of the list, counting from 0, or Nil past its end.
Walk[k \in 0 .. TASK_LIST_DEPTH] ==
  IF k = 0 THEN taskList
  ELSE IF Walk[k-1] = Nil THEN Nil ELSE next[Walk[k-1]]

Listed == {Walk[k] : k \in 0 .. TASK_LIST_DEPTH} \ {Nil}

-----------------------------------------------------------------------------
(***************************************************************************)
(* Interrupts.                                                             *)
(***************************************************************************)

EmptyContainers == {c \in Containers : cb[c] = NoTask}

\* Mutant: the search goes one container too far.
PastFirstEmpty == 1 + (CHOOSE c \in EmptyContainers : \A d \in EmptyContainers : d <= c)

FirstEmpty == CHOOSE c \in EmptyContainers : \A d \in EmptyContainers : c <= d

\* How many tasks the walker passes: those of a strictly smaller number.
Ahead(p) ==
  CHOOSE n \in 0 .. TASK_LIST_DEPTH :
    /\ \A k \in 0 .. n-1 : Walk[k] # Nil /\ prio[Walk[k]] < p
    /\ Walk[n] # Nil => prio[Walk[n]] >= p

\* An interrupt ends the sleep of the main loop, whatever it did.
Wake == pc' = IF pc = "asleep" THEN "check" ELSE pc

scheduler_push_task(task) ==
  /\ Cardinality(Listed) < MAXPENDING
  /\ EmptyContainers # {}
  /\ LET c == FirstEmpty
         n == Ahead(PrioOf(task))
         linked == [next EXCEPT ![c] = Walk[n]]
     IN /\ cb' = [cb EXCEPT ![c] = task]
        /\ prio' = [prio EXCEPT ![c] = PrioOf(task)]
        /\ IF n = 0
             THEN taskList' = c /\ next' = linked
             ELSE taskList' = taskList /\ next' = [linked EXCEPT ![Walk[n-1]] = c]
        /\ fresh' = fresh \cup {c}
  /\ hit' = (hit \/ pc \in {"loadNext", "storeShift", "freePrio", "freeNext"})
  /\ Wake
  /\ UNCHANGED <<this, loaded>>

\* With no container left scheduler_push_task calls board_reset.
Overflow ==
  /\ Cardinality(Listed) < MAXPENDING
  /\ EmptyContainers = {}
  /\ taskList' = Nil
  /\ next' = [c \in Containers |-> Nil]
  /\ prio' = [c \in Containers |-> TASKPRIO_NONE]
  /\ cb' = [c \in Containers |-> NoTask]
  /\ pc' = "check"
  /\ this' = Nil
  /\ loaded' = Nil
  /\ fresh' = {}
  /\ hit' = FALSE

\* Mutant: the slot timer does not wake the processor up.
InterruptWithoutWake == UNCHANGED vars

\* Any other interrupt: the slot timer keeps running in every state.
OtherInterrupt ==
  /\ Wake
  /\ UNCHANGED <<list, this, loaded, fresh, hit>>

-----------------------------------------------------------------------------
(***************************************************************************)
(* The main loop.                                                          *)
(***************************************************************************)

Goto(from, to) == pc = from /\ pc' = to

\* while(scheduler_vars.task_list!=NULL), and then board_sleep.
CheckList ==
  /\ \/ taskList # Nil /\ Goto("check", "read")
     \/ taskList = Nil /\ Goto("check", "sleep")
  /\ UNCHANGED <<list, this, loaded, fresh, hit>>

\* The wait-for-interrupt instruction: an interrupt served since the check
\* is no longer pending and does not end it.
board_sleep ==
  /\ Goto("sleep", "asleep")
  /\ UNCHANGED <<list, this, loaded, fresh, hit>>

ReadHead ==
  /\ Goto("read", "loadNext")
  /\ this' = taskList
  /\ hit' = FALSE
  /\ UNCHANGED <<list, loaded, fresh>>

\* Mutant: the container's next is cleared before it is read.
LoadAfterClear ==
  /\ Goto("loadNext", "storeShift")
  /\ loaded' = Nil
  /\ UNCHANGED <<list, this, fresh, hit>>

LoadNext ==
  /\ Goto("loadNext", "storeShift")
  /\ loaded' = next[this]
  /\ UNCHANGED <<list, this, fresh, hit>>

\* Mutant: the container is released before its task is called.
StoreAndFree ==
  /\ Goto("storeShift", "call")
  /\ taskList' = loaded
  /\ loaded' = Nil
  /\ cb' = [cb EXCEPT ![this] = NoTask]
  /\ UNCHANGED <<next, prio, this, fresh, hit>>

\* Mutant: the list is not shifted.
StoreNothing ==
  /\ Goto("storeShift", "call")
  /\ loaded' = Nil
  /\ UNCHANGED <<list, this, fresh, hit>>

StoreShift ==
  /\ Goto("storeShift", "call")
  /\ taskList' = loaded
  /\ loaded' = Nil            \* the register is free again
  /\ UNCHANGED <<next, prio, cb, this, fresh, hit>>

\* The task runs to completion; the interrupts that come meanwhile find the
\* list and the containers as they are after this step.
CallTask ==
  /\ Goto("call", "freeCb")
  /\ fresh' = fresh \ {this}
  /\ UNCHANGED <<list, this, loaded, hit>>

FreeCb ==
  /\ Goto("freeCb", "freePrio")
  /\ cb' = [cb EXCEPT ![this] = NoTask]
  /\ hit' = FALSE
  /\ UNCHANGED <<taskList, next, prio, this, loaded, fresh>>

FreePrio ==
  /\ Goto("freePrio", "freeNext")
  /\ prio' = [prio EXCEPT ![this] = TASKPRIO_NONE]
  /\ UNCHANGED <<taskList, next, cb, this, loaded, fresh, hit>>

FreeNext ==
  /\ Goto("freeNext", "check")
  /\ next' = [next EXCEPT ![this] = Nil]
  /\ UNCHANGED <<taskList, prio, cb, this, loaded, fresh, hit>>

scheduler_start ==
  \/ CheckList \/ board_sleep
  \/ ReadHead \/ LoadNext \/ StoreShift
  \/ CallTask
  \/ FreeCb \/ FreePrio \/ FreeNext

-----------------------------------------------------------------------------

Next ==
  \/ \E task \in Tasks : scheduler_push_task(task)
  \/ Overflow
  \/ OtherInterrupt
  \/ scheduler_start

(***************************************************************************)
(* The processor executes the main loop whenever it serves no interrupt,   *)
(* and the slot timer interrupts for ever.                                 *)
(***************************************************************************)
Spec == Init /\ [][Next]_vars /\ WF_vars(scheduler_start) /\ WF_vars(OtherInterrupt)

-----------------------------------------------------------------------------
(***************************************************************************)
(* Properties.                                                             *)
(***************************************************************************)

\* Every field of scheduler_vars, and pThisTask, points where it may point.
TypeOK ==
  /\ taskList \in Pointers /\ this \in Pointers /\ loaded \in Pointers
  /\ next \in [Containers -> Pointers]
  /\ prio \in [Containers -> {TASKPRIO_NONE} \cup {PrioOf(t) : t \in Tasks}]
  /\ cb \in [Containers -> Tasks \cup {NoTask}]
  /\ pc \in {"check", "read", "loadNext", "storeShift", "call",
             "freeCb", "freePrio", "freeNext", "sleep", "asleep"}
  /\ fresh \in SUBSET Containers
  /\ hit \in BOOLEAN

\* Whatever the interrupts do to the unprotected main loop, the list of
\* scheduler.c ends, every container on it holds a task not yet run, and the
\* container of the running task is not on it: the walk of
\* scheduler_push_task terminates and never passes a free container.
ListSound ==
  /\ Walk[TASK_LIST_DEPTH] = Nil
  /\ \A c \in Listed : cb[c] # NoTask /\ c \in fresh
  /\ pc \in {"call", "freeCb"} => this \notin Listed

\* pThisTask->cb() never jumps to NULL and never runs a pushed task twice,
\* although the container may be reused while it is being freed.
NoStaleCall == pc = "call" => cb[this] # NoTask /\ this \in fresh

\* Containers that hold a task nobody will run: not on the list, and not the
\* one the main loop has in hand.
Lost == {c \in fresh \ Listed : ~(pc \in {"loadNext", "storeShift", "call"} /\ c = this)}

\* A pushed task is lost only when an interrupt hit one of the two updates of
\* scheduler_start that are not protected, the shift of the list or the
\* release of the container: everywhere else the scheduler is safe.
LossNeedsRace == [][Lost' \subseteq Lost \/ hit]_vars

\* A list found non-empty is served: no wake-up is lost for good, although a
\* task pushed between the last check and the sleep does not prevent the
\* sleep.  (The list is also emptied by the reset of an overflow.)
ListServed == (taskList # Nil) ~> (pc = "call" \/ taskList = Nil)

\* scheduler.c:43 "shift the queue by one task": the step that moves
\* task_list on removes the task about to run, and no other.
ShiftsByOne == [][pc = "storeShift" /\ pc' = "call" => Listed' = Listed \ {this}]_vars

=============================================================================
