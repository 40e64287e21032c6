------------------------------- MODULE Traps -------------------------------
(***************************************************************************)
(* Spin locks and interrupts: pushcli() and popcli() (spinlock.c), the     *)
(* clock and keyboard interrupts (trap.c, console.c), which run on the     *)
(* stack of the thread that they interrupt, and the calls that wait for    *)
(* them: consoleread() and sys_sleep().                                    *)
(*                                                                         *)
(* A thread is a process or the scheduler of a CPU.  What it still has to  *)
(* do is in todo, one item per section that no interrupt or other CPU can  *)
(* tell apart; an empty list is user mode.  A CPU that spins for a lock is *)
(* one that has not called acquire() yet.  The scheduler may pick any      *)
(* process that is runnable (Proc has its order).                          *)
(***************************************************************************)
EXTENDS Integers, Sequences, FiniteSets, SequencesExt

CONSTANTS Proc, CPU,
          cpu0,       \* the CPU that counts ticks and serves the keyboard
          INPUT_BUF,
          UINT,       \* 2^32, a multiple of INPUT_BUF
          \* Bounds of the model, the last two by the number of processes there are:
          Reads,      \* arguments of read()
          Keys,       \* keys that are pressed
          Naps,       \* arguments of sleep()
          NULL

VARIABLES cur,      \* CPU -> the thread it runs
          todo,     \* thread -> what it still has to do
          state,    \* process -> p->state, with p->chan when it sleeps
          killed,
          lock,     \* spin lock -> the CPU that holds it, or NULL
          FL_IF,    \* CPU -> interrupts are enabled
          ncli, intena,
          saved,    \* process -> intena as sched() keeps it
          buf, r, w, e,  \* input
          ticks,
          sent, edit,    \* history: keys of finished lines that were not read, and of the last line
          panic

cpus == <<cur, todo, state, killed>>
masks == <<FL_IF, ncli, intena, saved>>
input == <<buf, r, w, e, sent, edit>>
vars == <<cpus, lock, masks, input, ticks, panic>>

Locks == {"ptable", "cons", "tickslock"}

Acq(l) == [op |-> "acquire", l |-> l]
Rel(l) == [op |-> "release", l |-> l]
Do(op) == [op |-> op]
wakeup(ch) == <<[op |-> "wake", ch |-> ch]>>
yield == <<Acq("ptable"), Do("yield"), Rel("ptable")>>
exit == <<Acq("ptable"), Do("exit")>>
forkret == <<Rel("ptable"), Do("trapret")>>
scheduler == <<Do("sti"), Acq("ptable"), Do("pick")>>

(* What these do besides writing to the screen or reading ticks. *)
cprintf == <<Acq("cons"), Rel("cons")>>
consolewrite == <<Acq("cons"), Rel("cons")>>
sys_uptime == <<Acq("tickslock"), Rel("tickslock")>>
procdump == cprintf

initlock == [l \in Locks |-> NULL]

(* After startup: every scheduler is at the top of its loop, and processes *)
(* are to start in forkret(), which does not come from sched().            *)
Init ==
  /\ cur = [c \in CPU |-> c]
  /\ todo = [t \in Proc \cup CPU |-> IF t \in CPU THEN scheduler ELSE forkret]
  /\ \E S \in SUBSET Proc \ {{}} :
       state = [p \in Proc |-> IF p \in S THEN "runnable" ELSE "unused"]
  /\ killed = [p \in Proc |-> FALSE]
  /\ lock = initlock
  /\ FL_IF = [c \in CPU |-> FALSE] /\ ncli = [c \in CPU |-> 0]
  /\ intena = [c \in CPU |-> FALSE] /\ saved = [p \in Proc |-> FALSE]
  /\ buf = [k \in 0..(INPUT_BUF - 1) |-> "x"] /\ r = 0 /\ w = 0 /\ e = 0
  /\ ticks = 0 /\ sent = <<>> /\ edit = <<>> /\ panic = FALSE

Present == {p \in Proc : state[p] # "unused"}

Now(c) == todo[cur[c]]
Doing(c, op) == ~panic /\ Now(c) # <<>> /\ Head(Now(c)).op = op
Item(c) == Head(Now(c))
Continue(c, items) == todo' = [todo EXCEPT ![cur[c]] = items \o Tail(@)]

-----------------------------------------------------------------------------
(* spinlock.c *)

holding(c, l) == lock[l] = c

(* pushcli(): the intena it leaves. *)
pushcli(c) == [intena EXCEPT ![c] = IF ncli[c] = 0 THEN FL_IF[c] ELSE @]

Acquire(c) ==
  LET l == Item(c).l
  IN  /\ Doing(c, "acquire") /\ lock[l] \in {NULL, c}
      /\ panic' = holding(c, l)
      /\ lock' = [lock EXCEPT ![l] = c]
      /\ FL_IF' = [FL_IF EXCEPT ![c] = FALSE]
      /\ intena' = pushcli(c)
      /\ ncli' = [ncli EXCEPT ![c] = @ + 1]
      /\ Continue(c, <<>>)
      /\ UNCHANGED <<cur, state, killed, saved, input, ticks>>

(* popcli(): the flag it leaves. *)
popcli(c) == [FL_IF EXCEPT ![c] = @ \/ (ncli[c] = 1 /\ intena[c])]

Release(c) ==
  LET l == Item(c).l
  IN  /\ Doing(c, "release")
      /\ panic' = (~holding(c, l) \/ FL_IF[c] \/ ncli[c] < 1)
      /\ lock' = [lock EXCEPT ![l] = NULL]
      /\ FL_IF' = popcli(c)
      /\ ncli' = [ncli EXCEPT ![c] = @ - 1]
      /\ Continue(c, <<>>)
      /\ UNCHANGED <<cur, state, killed, intena, saved, input, ticks>>

-----------------------------------------------------------------------------
(* sched() and scheduler() *)

Sti(c) ==
  /\ Doing(c, "sti")
  /\ FL_IF' = [FL_IF EXCEPT ![c] = TRUE]
  /\ Continue(c, <<>>)
  /\ UNCHANGED <<cur, state, killed, lock, ncli, intena, saved, input, ticks, panic>>

(* The tests of sched(), which keeps intena on the stack of p; then the    *)
(* scheduler of c goes on, with ptable.lock and the intena that p had.     *)
Sched(c, p, s, items) ==
  /\ panic' = (~holding(c, "ptable") \/ ncli[c] # 1 \/ FL_IF[c])
  /\ state' = [state EXCEPT ![p] = s]
  /\ saved' = [saved EXCEPT ![p] = intena[c]]
  /\ cur' = [cur EXCEPT ![c] = c]
  /\ todo' = [todo EXCEPT ![p] = items]
  /\ UNCHANGED <<killed, lock, FL_IF, ncli, intena, input, ticks>>

Resume(c) == <<Do("resume")>> \o Tail(Now(c))

Yield(c) == Doing(c, "yield") /\ Sched(c, cur[c], "runnable", Resume(c))
Sleep(c) == Doing(c, "sleep") /\ Sched(c, cur[c], Item(c).ch, Resume(c))
Exit(c) == Doing(c, "exit") /\ Sched(c, cur[c], "zombie", <<>>)

Pick(c, p) ==
  /\ Doing(c, "pick") /\ state[p] = "runnable"
  /\ state' = [state EXCEPT ![p] = "running"]
  /\ cur' = [cur EXCEPT ![c] = p]
  /\ UNCHANGED <<todo, killed, lock, masks, input, ticks, panic>>

(* Mutant: sched() does not restore intena. *)
SchedReturnsNot(c) ==
  /\ Doing(c, "resume")
  /\ Continue(c, <<>>)
  /\ UNCHANGED <<cur, state, killed, lock, masks, input, ticks, panic>>

(* The end of sched(), in the process that runs again, on any CPU. *)
SchedReturns(c) ==
  /\ Doing(c, "resume")
  /\ intena' = [intena EXCEPT ![c] = saved[cur[c]]]
  /\ Continue(c, <<>>)
  /\ UNCHANGED <<cur, state, killed, lock, FL_IF, ncli, saved, input, ticks, panic>>

PickNone(c) ==
  /\ Doing(c, "pick")
  /\ Continue(c, <<Rel("ptable")>> \o scheduler)
  /\ UNCHANGED <<cur, state, killed, lock, masks, input, ticks, panic>>

(* wakeup1() *)
Woken(S) == [p \in Proc |-> IF p \in S THEN "runnable" ELSE state[p]]

(* wakeup(): interrupts are off throughout. *)
Wake(c) ==
  /\ Doing(c, "wake") /\ lock["ptable"] \in {NULL, c}
  /\ panic' = holding(c, "ptable")
  /\ state' = Woken({p \in Proc : state[p] = Item(c).ch})
  /\ Continue(c, <<>>)
  /\ UNCHANGED <<cur, killed, lock, masks, input, ticks>>

(* kill() by a process that is not in the model, with ptable.lock. *)
Kill(p) ==
  /\ ~panic /\ lock["ptable"] = NULL /\ state[p] \notin {"unused", "zombie"}
  /\ killed' = [killed EXCEPT ![p] = TRUE]
  /\ state' = Woken({p} \cap {q \in Proc : state[q] \in {"input", "ticks"}})
  /\ UNCHANGED <<cur, todo, lock, masks, input, ticks, panic>>

-----------------------------------------------------------------------------
(* trap() *)

InUser(c) == cur[c] \in Proc /\ Now(c) = <<>>

(* An interrupt with its handler, what follows it in trap(), and iret.  A  *)
(* killed process exits if it was interrupted in user mode: before the     *)
(* yield() of a clock tick, or after it.                                   *)
Enter(c, handler, then) ==
  LET check == IF InUser(c) THEN <<Do("check")>> ELSE <<>>
  IN  /\ ~panic /\ FL_IF[c]
      /\ FL_IF' = [FL_IF EXCEPT ![c] = FALSE]
      /\ todo' = [todo EXCEPT ![cur[c]] =
                    handler \o check \o then \o check \o <<Do("iret")>> \o @]
      /\ UNCHANGED <<cur, state, killed, lock, ncli, intena, saved, input, ticks, panic>>

(* The test of killed, with interrupts as they are. *)
Check(c) ==
  /\ Doing(c, "check")
  /\ Continue(c, IF killed[cur[c]] THEN exit ELSE <<>>)
  /\ UNCHANGED <<cur, state, killed, lock, masks, input, ticks, panic>>

(* IRQ_TIMER.  A process then gives up the CPU. *)
Timer(c) ==
  Enter(c, IF c = cpu0 THEN <<Acq("tickslock"), Do("tick")>> \o wakeup("ticks") \o <<Rel("tickslock")>>
           ELSE <<>>,
           IF cur[c] \in Proc THEN yield ELSE <<>>)

(* Any other trap in user mode: the process misbehaved, and is killed.     *)
Fault(c) == InUser(c) /\ Enter(c, cprintf \o <<Do("die")>>, <<>>)

Die(c) ==
  /\ Doing(c, "die")
  /\ killed' = [killed EXCEPT ![cur[c]] = TRUE]
  /\ Continue(c, <<>>)
  /\ UNCHANGED <<cur, state, lock, masks, input, ticks, panic>>

(* iret, from an interrupt or, as trapret, to user mode. *)
Iret(c) ==
  /\ Doing(c, "iret") \/ Doing(c, "trapret")
  /\ FL_IF' = [FL_IF EXCEPT ![c] = TRUE]
  /\ Continue(c, <<>>)
  /\ UNCHANGED <<cur, state, killed, lock, ncli, intena, saved, input, ticks, panic>>

Tick(c) ==
  /\ Doing(c, "tick")
  /\ ticks' = (ticks + 1) % UINT
  /\ Continue(c, <<>>)
  /\ UNCHANGED <<cur, state, killed, lock, masks, input, panic>>

-----------------------------------------------------------------------------
(* console.c *)

U(n) == n % UINT
At(n) == U(n) % INPUT_BUF

(* One key of consoleintr(), from kbdintr() or uartintr(); procdump() runs *)
(* after the lock was released, and prints with it.                        *)
Keyboard(c, k) ==
  /\ c = cpu0
  /\ Enter(c, <<Acq("cons"), [op |-> "key", k |-> k], Rel("cons")>>
              \o (IF k = "^P" THEN procdump ELSE <<>>), <<>>)

(* Keys that ^U and backspace delete. *)
Deleted(k) ==
  LET n == U(e - w)
      nl == {i \in 0..(n - 1) : buf[At(e - 1 - i)] = "\n"}
  IN  IF k = "^U" THEN CHOOSE i \in nl \cup {n} : \A j \in nl \cup {n} : i <= j
      ELSE IF k = "^H" /\ n > 0 THEN 1 ELSE 0

Erase(c) ==
  LET k == Item(c).k
      d == Deleted(k)
  IN  /\ Doing(c, "key") /\ k \in {"^U", "^H", "^P"}
      /\ e' = U(e - d)
      /\ edit' = SubSeq(edit, 1, IF d > Len(edit) THEN 0 ELSE Len(edit) - d)
      /\ Continue(c, <<>>)
      /\ UNCHANGED <<cur, state, killed, lock, masks, buf, r, w, sent, ticks, panic>>

(* Mutant: the buffer takes one key too many. *)
HasRoomMore == U(e - r) <= INPUT_BUF

HasRoom == U(e - r) < INPUT_BUF

EndsLine(k) == k \in {"\n", "^D"} \/ U(e + 1) = U(r + INPUT_BUF)

Type(c) ==
  LET k == Item(c).k
  IN  /\ Doing(c, "key") /\ k \notin {"^U", "^H", "^P"}
      /\ IF ~HasRoom
         THEN Continue(c, <<>>) /\ UNCHANGED input
         ELSE /\ buf' = [buf EXCEPT ![At(e)] = k]
              /\ e' = U(e + 1)
              /\ IF EndsLine(k)
                 THEN /\ w' = U(e + 1)
                      /\ sent' = sent \o Append(edit, k) /\ edit' = <<>>
                      /\ Continue(c, wakeup("input"))
                 ELSE /\ edit' = Append(edit, k)
                      /\ Continue(c, <<>>) /\ UNCHANGED <<w, sent>>
              /\ UNCHANGED r
      /\ UNCHANGED <<cur, state, killed, lock, masks, ticks, panic>>

(* Mutant: sleep() releases the lock before it has ptable.lock. *)
AsleepLate(ch, l, item) ==
  <<Rel(l), Acq("ptable"), [op |-> "sleep", ch |-> ch], Rel("ptable"), Acq(l), item>>

(* sleep(ch, l), and then the item again. *)
Asleep(ch, l, item) ==
  <<Acq("ptable"), Rel(l), [op |-> "sleep", ch |-> ch], Rel("ptable"), Acq(l), item>>

(* One turn of the loop of consoleread(): item n is what it may still      *)
(* take, of target.                                                        *)
ConsoleRead(c) ==
  LET it == Item(c)
      k == buf[At(r)]
      more == k \notin {"\n", "^D"} /\ it.n > 1
      taken == k # "^D" \/ it.n = it.target
  IN  /\ Doing(c, "cread")
      /\ IF r = w
         THEN /\ Continue(c, IF killed[cur[c]] THEN <<Rel("cons")>> ELSE Asleep("input", "cons", it))
              /\ UNCHANGED input
         ELSE /\ r' = IF taken THEN U(r + 1) ELSE r
              /\ sent' = IF taken THEN Tail(sent) ELSE sent
              /\ Continue(c, <<IF more THEN [it EXCEPT !.n = @ - 1] ELSE Rel("cons")>>)
              /\ UNCHANGED <<buf, w, e, edit>>
      /\ UNCHANGED <<cur, state, killed, lock, masks, ticks, panic>>

(* The loop of sys_sleep(), with tickslock. *)
Nap(c) ==
  LET t0 == IF Item(c).t0 = NULL THEN ticks ELSE Item(c).t0
      n == Item(c).n
  IN  /\ Doing(c, "nap")
      /\ Continue(c, IF U(ticks - t0) < n /\ ~killed[cur[c]]
                     THEN Asleep("ticks", "tickslock", [op |-> "nap", n |-> n, t0 |-> t0])
                     ELSE <<Rel("tickslock")>>)
      /\ UNCHANGED <<cur, state, killed, lock, masks, input, ticks, panic>>

-----------------------------------------------------------------------------
(* System calls *)

(* What user code may call. *)
Calls ==
  {<<Acq("cons"), [op |-> "cread", n |-> n, target |-> n]>> : n \in Reads}
    \cup {<<Acq("tickslock"), [op |-> "nap", n |-> n, t0 |-> NULL]>> : n \in Naps[Cardinality(Present)]}
    \cup {consolewrite, sys_uptime}

(* T_SYSCALL leaves interrupts on.  A killed process exits before the call *)
(* or after it.                                                            *)
Syscall(c) ==
  /\ ~panic /\ InUser(c)
  /\ \E items \in Calls :
       todo' = [todo EXCEPT ![cur[c]] =
                 IF killed[cur[c]] THEN exit ELSE items \o <<Do("check"), Do("trapret")>>]
  /\ UNCHANGED <<cur, state, killed, lock, masks, input, ticks, panic>>

Next ==
  \/ \E c \in CPU :
       \/ Acquire(c) \/ Release(c) \/ Sti(c) \/ Yield(c) \/ Sleep(c) \/ Exit(c)
       \/ PickNone(c) \/ SchedReturns(c) \/ \E p \in Proc : Pick(c, p)
       \/ Wake(c) \/ Timer(c) \/ Fault(c) \/ Check(c) \/ Die(c) \/ Iret(c) \/ Tick(c)
       \/ \E k \in Keys[Cardinality(Present)] : Keyboard(c, k)
       \/ Erase(c) \/ Type(c) \/ ConsoleRead(c) \/ Nap(c) \/ Syscall(c)
  \/ \E p \in Proc : Kill(p)

Spec == Init /\ [][Next]_vars

-----------------------------------------------------------------------------
(* Properties *)

In(c, op) == \E k \in DOMAIN Now(c) : Now(c)[k].op = op

(* A CPU counts the locks that it holds; it is not interrupted while it    *)
(* holds one, nor in an interrupt, also after the interrupted process was  *)
(* switched away and back; and a process that holds none, in a system call *)
(* or in user mode, is interruptible, whichever process the CPU comes      *)
(* from.  (Only forkret() may run either way, up to its iret.)  No test of *)
(* acquire(), release(), popcli() and sched() fails.                       *)
MaskNesting ==
  /\ ~panic
  /\ \A c \in CPU :
       /\ ncli[c] = Cardinality({l \in Locks : lock[l] = c})
       /\ ncli[c] > 0 \/ In(c, "iret") => ~FL_IF[c]
       /\ cur[c] \in Proc /\ ncli[c] = 0 /\ ~In(c, "iret") =>
            FL_IF[c] \/ Now(c) = Tail(forkret)

(* The ring buffer holds the keys of finished lines that nobody has read   *)
(* and then those of the line that is edited, in order, at every value of  *)
(* its indices, wrapped or not.                                            *)
InputFaithful ==
  LET n == U(e - r)
  IN  /\ n <= INPUT_BUF
      /\ U(w - r) = Len(sent)
      /\ [k \in 1..n |-> buf[At(r + k - 1)]] = sent \o edit

(* A thread is about to call wakeup(ch). *)
WakeComing(ch) ==
  \E c \in CPU : \E k \in DOMAIN Now(c) : Now(c)[k].op = "wake" /\ Now(c)[k].ch = ch

(* A process that sleeps in consoleread() or sys_sleep() though it could   *)
(* go on is about to be woken: consoleintr() and the clock hold the lock   *)
(* that the sleeper's test was made with.                                  *)
WaitersWoken ==
  \A p \in Proc :
    /\ state[p] = "input" /\ r # w => WakeComing("input")
    /\ state[p] = "ticks" =>
         LET it == todo[p][4] IN U(ticks - it.t0) < it.n \/ WakeComing("ticks")
=============================================================================
