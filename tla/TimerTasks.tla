------------------------------ MODULE TimerTasks ------------------------------
(***************************************************************************)
(* The software timer of the powerlog firmware (hal_timer.c over hpl_tc.c):*)
(* a list of tasks kept by the time they have left, which the program      *)
(* changes and the overflow interrupt of the hardware timer serves.  The   *)
(* program's calls take several steps and the interrupt may come between   *)
(* any two of them; the interrupt itself runs to its end.                  *)
(***************************************************************************)
EXTENDS Integers, Sequences, SequencesExt

CONSTANTS
  Tasks,     \* the timer_task structures of the program
  Interval,  \* the interval of a task, in ticks
  Repeat,    \* the tasks whose mode is TIMER_TASK_REPEAT
  Wrap,      \* time is counted modulo Wrap: 2^32 in the code
  Builds,    \* "debug": a failed ASSERT stops the processor; "release": nothing
  Nobody     \* no task, the NULL of the list

ASSUME TimerAssumption ==
  /\ Wrap \in Nat /\ Wrap > 2
  /\ Interval \in [Tasks -> 1..(Wrap - 2)]
  /\ Repeat \subseteq Tasks
  /\ Builds \subseteq {"debug", "release"} /\ Builds # {}
  /\ Nobody \notin Tasks

VARIABLES
  time,        \* descr->time
  tasks,       \* the linked list, head first
  label,       \* time_label of every task
  flags,       \* descr->flags: subset of {"taken", "triggered"}
  ovf,         \* the overflow flag of the hardware timer
  pended,      \* set by _timer_set_irq, cleared when the interrupt is entered
  running,     \* the hardware timer is enabled
  serving,     \* the interrupt handler is in its loop
  it,          \* the loop's task
  pc,          \* where the program is in timer_add_task or timer_remove_task
  call,        \* the call's operation and task
  prev,        \* the element found to link behind, Nobody for the head
  reg,         \* the flags as read by a read-modify-write
  result,      \* what the last call returned
  registered,  \* the tasks added and since neither removed nor finished
  missed       \* a tick that made a task due was not served at once

list == <<tasks, label, it, registered>>
irq == <<time, ovf, pended, serving, missed>>
program == <<pc, call, prev, reg, result>>
vars == <<list, irq, program, flags, running>>

-----------------------------------------------------------------------------
Calls == [op : {"add", "remove"}, task : Tasks]
NoCall == [op |-> "none", task |-> Nobody]
Head0(l) == IF l = <<>> THEN Nobody ELSE Head(l)
Listed(x) == x \in Range(tasks)                        \* is_list_element
Age(x, now) == (now - label[x]) % Wrap
Expired(x) == Age(x, time) >= Interval[x]

Init ==
  /\ time = 0 /\ tasks = <<>> /\ label = [x \in Tasks |-> 0] /\ flags = {}
  /\ ovf = FALSE /\ pended = FALSE /\ running = FALSE
  /\ serving = FALSE /\ it = Nobody
  /\ pc = "idle" /\ call = NoCall /\ prev = Nobody /\ reg = {}
  /\ result = "ok" /\ registered = {} /\ missed = FALSE

-----------------------------------------------------------------------------
(* The place of a new task: before the first one that has as much time left. *)

\* time_left as the code computes it, in 32 bits: one too many when time has
\* wrapped since the label, and huge for a task that is overdue.
TimeLeft(x, lab, now) ==
  IF lab[x] <= now THEN (Interval[x] - (now - lab[x])) % Wrap
  ELSE (Interval[x] - ((Wrap - 1) - lab[x]) - now) % Wrap

Ahead_Shorter(l, lab, x, now) ==
  SelectInSeq(l, LAMBDA y : TimeLeft(y, lab, now) < Interval[x])
Ahead(l, lab, x, now) ==
  SelectInSeq(l, LAMBDA y : TimeLeft(y, lab, now) >= Interval[x])

\* The element the new task goes behind.
Before(l, lab, x, now) ==
  LET i == Ahead(l, lab, x, now)
  IN IF l = <<>> \/ i = 1 THEN Nobody ELSE IF i = 0 THEN Last(l) ELSE l[i - 1]

\* list_insert_as_head or list_insert_after: behind an element that has left
\* the list, the new one is not reached from its head.
InsertAfter(l, p, x) ==
  IF p = Nobody THEN <<x>> \o l
  ELSE LET i == SelectInSeq(l, LAMBDA y : y = p)
       IN IF i = 0 THEN l ELSE SubSeq(l, 1, i) \o <<x>> \o SubSeq(l, i + 1, Len(l))

\* list_delete_element: the head goes, or the element behind its predecessor.
DeleteAfter(l, p) ==
  IF l = <<>> THEN l
  ELSE IF p = Nobody THEN Tail(l)
  ELSE LET i == SelectInSeq(l, LAMBDA y : y = p)
       IN IF i \in 1..(Len(l) - 1) THEN SubSeq(l, 1, i) \o SubSeq(l, i + 2, Len(l)) ELSE l

Predecessor(l, x) ==
  LET i == SelectInSeq(l, LAMBDA y : y = x) IN IF i > 1 THEN l[i - 1] ELSE Nobody

\* A task that leaves the list; its label is not read before it is written again.
Forget(x) == registered' = registered \ {x} /\ label' = [label EXCEPT ![x] = 0]

-----------------------------------------------------------------------------
(* timer_add_task and timer_remove_task; the program stands still while the *)
(* interrupt is served.                                                     *)

At(p) == pc = p /\ ~serving
Goto(p) == pc' = p
Return == pc' = "idle" /\ call' = NoCall
Quiet == UNCHANGED <<irq, running>>

Begin ==
  /\ At("idle") /\ call' \in Calls
  /\ reg' = flags /\ Goto("take")
  /\ Quiet /\ UNCHANGED <<list, flags, prev, result>>

Take ==
  /\ At("take") /\ flags' = reg \cup {"taken"} /\ Goto("check") /\ reg' = {}
  /\ Quiet /\ UNCHANGED <<list, call, prev, result>>

\* Adding a task that is listed, or removing one that is not, is refused.
Check ==
  LET wrong == Listed(call.task) <=> call.op = "add"
  IN /\ At("check") /\ result' = (IF wrong THEN "refused" ELSE "ok")
     /\ Goto(IF wrong THEN "unlock" ELSE IF call.op = "add" THEN "label" ELSE "find")
     /\ Quiet /\ UNCHANGED <<list, flags, call, prev, reg>>

Label ==
  /\ At("label") /\ label' = [label EXCEPT ![call.task] = time] /\ Goto("place")
  /\ Quiet /\ UNCHANGED <<tasks, it, registered, flags, call, prev, reg, result>>

Place ==
  /\ At("place") /\ prev' = Before(tasks, label, call.task, time) /\ Goto("link")
  /\ Quiet /\ UNCHANGED <<list, flags, call, reg, result>>

Link ==
  /\ At("link") /\ tasks' = InsertAfter(tasks, prev, call.task) /\ Goto("unlock")
  /\ registered' = registered \cup {call.task} /\ prev' = Nobody
  /\ Quiet /\ UNCHANGED <<label, it, flags, call, reg, result>>

Find ==
  /\ At("find") /\ prev' = Predecessor(tasks, call.task) /\ Goto("unlink")
  /\ Quiet /\ UNCHANGED <<list, flags, call, reg, result>>

Unlink ==
  /\ At("unlink") /\ tasks' = DeleteAfter(tasks, prev) /\ Goto("unlock")
  /\ Forget(call.task) /\ prev' = Nobody
  /\ Quiet /\ UNCHANGED <<it, flags, call, reg, result>>

\* flags &= ~TAKEN, a read and a write: an interrupt between them is forgotten.
Unlock ==
  /\ At("unlock") /\ reg' = flags /\ Goto("release")
  /\ Quiet /\ UNCHANGED <<list, flags, call, prev, result>>

Release ==
  /\ At("release") /\ flags' = reg \ {"taken"}
  /\ Goto(IF result = "refused" THEN "assert" ELSE "test") /\ reg' = {}
  /\ Quiet /\ UNCHANGED <<list, call, prev, result>>

\* ASSERT(false): a refused call returns only in a release build, and at once.
Refuse ==
  /\ At("assert")
  /\ \/ "debug" \in Builds /\ Goto("halted") /\ UNCHANGED call
     \/ "release" \in Builds /\ Return
  /\ Quiet /\ UNCHANGED <<list, flags, prev, reg, result>>

Test ==
  /\ At("test")
  /\ IF "triggered" \in flags THEN Goto("repend") /\ UNCHANGED call ELSE Return
  /\ Quiet /\ UNCHANGED <<list, flags, prev, reg, result>>

Repend_KeepsFlag ==
  /\ At("repend") /\ flags' = flags /\ pended' = TRUE /\ Return
  /\ UNCHANGED <<list, time, ovf, serving, missed, running, prev, reg, result>>

\* The critical section: the interrupt is pended, but its overflow flag is not
\* set, so the handler it enters does nothing.
Repend ==
  /\ At("repend") /\ flags' = flags \ {"triggered"} /\ pended' = TRUE /\ Return
  /\ UNCHANGED <<list, time, ovf, serving, missed, running, prev, reg, result>>

\* timer_start and timer_stop are denied to a timer that runs or stands already.
StartStop ==
  /\ At("idle") /\ running' = ~running
  /\ UNCHANGED <<list, irq, program, flags>>

-----------------------------------------------------------------------------
(* The hardware timer and its interrupt. *)

\* An overflow that finds the flag still set is lost, and time falls behind.
Overflow ==
  /\ running /\ ~ovf /\ ovf' = TRUE
  /\ UNCHANGED <<list, time, pended, serving, missed, program, flags, running>>

Enter == ~serving /\ pc # "halted" /\ (ovf \/ pended) /\ pended' = FALSE /\ ovf' = FALSE

\* tc_interrupt_handler, entered by _timer_set_irq alone.
EnterPended ==
  /\ Enter /\ ~ovf
  /\ UNCHANGED <<list, time, serving, missed, program, flags, running>>

\* The tasks some tick has made due, the one being added included.
DueAt(now) ==
  {x \in Range(tasks) \cup (IF pc \in {"place", "link"} THEN {call.task} ELSE {}) :
     Age(x, now) >= Interval[x]}

Tick == Enter /\ ovf /\ time' = (time + 1) % Wrap

Held_TriggeredOnly == "triggered" \in flags
Held == flags # {}

\* The list is taken, or was when an earlier tick came: nothing is served.
Postpone ==
  /\ Tick /\ Held /\ flags' = flags \cup {"triggered"}
  /\ missed' = (missed \/ DueAt(time') # {} \/ pc = "place")
  /\ UNCHANGED <<list, serving, program, running>>

Serve ==
  /\ Tick /\ ~Held /\ serving' = TRUE /\ it' = Head0(tasks)
  /\ UNCHANGED <<tasks, label, registered, missed, program, flags, running>>

\* One round of timer_process_counted: the head leaves the list, a repeated
\* task is labelled and inserted again, the next head is read, the callback runs.
\* The firmware's callback does not touch the list.
Run ==
  /\ serving /\ it # Nobody /\ Expired(it) /\ tasks # <<>>
  /\ IF it \in Repeat
     THEN /\ label' = [label EXCEPT ![it] = time]
          /\ tasks' = InsertAfter(Tail(tasks), Before(Tail(tasks), label', it, time), it)
          /\ UNCHANGED registered
     ELSE tasks' = Tail(tasks) /\ Forget(it)
  /\ it' = Head0(tasks')
  /\ UNCHANGED <<irq, program, flags, running>>

Finish ==
  /\ serving /\ ~(it # Nobody /\ Expired(it))
  /\ serving' = FALSE /\ it' = Nobody
  /\ UNCHANGED <<tasks, label, registered, time, ovf, pended, missed, program, flags, running>>

Program ==
  \/ Begin \/ Take \/ Check \/ Label \/ Place \/ Link \/ Find \/ Unlink
  \/ Unlock \/ Release \/ Refuse \/ Test \/ Repend \/ StartStop
Interrupt == EnterPended \/ Postpone \/ Serve \/ Run \/ Finish
Next == Program \/ Overflow \/ Interrupt
Spec == Init /\ [][Next]_vars
-----------------------------------------------------------------------------
(* Properties. *)

Locked == {"check", "label", "place", "link", "find", "unlink", "unlock", "release"}

\* Every variable keeps to its values (descr->time wraps, the list is finite).
TypeOK ==
  /\ time \in 0..(Wrap - 1) /\ tasks \in Seq(Tasks) /\ label \in [Tasks -> 0..(Wrap - 1)]
  /\ flags \subseteq {"taken", "triggered"} /\ reg \subseteq {"taken", "triggered"}
  /\ ovf \in BOOLEAN /\ pended \in BOOLEAN /\ running \in BOOLEAN /\ serving \in BOOLEAN
  /\ missed \in BOOLEAN
  /\ it \in Tasks \cup {Nobody} /\ prev \in Tasks \cup {Nobody} /\ call \in Calls \cup {NoCall}
  /\ pc \in Locked \cup {"idle", "take", "assert", "halted", "test", "repend"}
  /\ result \in {"ok", "refused"} /\ registered \subseteq Tasks

\* The list holds every registered task once and no other, however additions
\* and removals are cut by ticks that run, drop and reinsert tasks: no task is
\* lost behind an element that has left the list, none runs after its removal.
NoneLost ==
  /\ Range(tasks) = registered
  /\ \A i, j \in DOMAIN tasks : tasks[i] = tasks[j] => i = j

\* The flag that makes the interrupt serve nothing outlives a call only when
\* that call was refused: the early return forgets to clear it.
StuckOnlyAfterRefusal ==
  pc = "idle" /\ "triggered" \in flags => result = "refused"

\* As long as no tick that made a task due was postponed, the list is in the
\* order of expiry, up to the one tick the wrap of time costs: no task is left
\* waiting behind another for more than that.
OnTime ==
  ~missed /\ ~serving => \A x \in Range(tasks) : Age(x, time) <= Interval[x]
=============================================================================
