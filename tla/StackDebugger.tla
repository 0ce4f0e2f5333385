--------------------------- MODULE StackDebugger ---------------------------
(***************************************************************************)
(* The tool stack-debugger.cpp under a program of several threads and a    *)
(* debugger that comes and goes.  The tool watches how much stack each     *)
(* thread uses and stops the application where the user asked for it.      *)
(*                                                                         *)
(* Threads run concurrently, in the application (at = "app") or in the     *)
(* tool: OnStackChangeIf has answered that there is a reason to stop       *)
(* ("break"), the thread waits for a debugger ("wait"), or it is about to  *)
(* call PIN_ApplicationBreakpoint ("report").  Pin stops a thread between  *)
(* two instructions or inside a call of Pin, so never in "break", and the  *)
(* user's commands are interpreted while the application is stopped.       *)
(***************************************************************************)
EXTENDS Integers

CONSTANTS
  Threads,
  MaxDepth,           \* bound on the stack usage of a thread
  Sizes,              \* the numbers a user may give to "stackbreak <number>"
  KnobTimeout         \* seconds to wait for a debugger, 0 for ever

ASSUME StackDebuggerAssumption ==
  /\ MaxDepth \in Nat
  /\ Sizes \subseteq Nat
  /\ KnobTimeout \in Nat

(***************************************************************************)
(* The stack usage _stackBase - sp; -1 stands for an sp above the base.    *)
(***************************************************************************)
Depths == -1 .. MaxDepth

VARIABLES
  ThreadInfos,        \* the TINFO of each thread that is running
  EnableInstrumentation, BreakOnNewMax, BreakOnSize,
  compiled,           \* whether the code in Pin's cache calls the tool
  depth,              \* the stack usage of each thread
  at,                 \* where each thread is
  debugger,           \* whether a debugger is connected
  stopped             \* whether the application is stopped

settings == <<EnableInstrumentation, BreakOnNewMax, BreakOnSize, compiled>>

vars == <<ThreadInfos, settings, depth, at, debugger, stopped>>

InTool == {"break", "wait", "report"}

Running == DOMAIN ThreadInfos

NewTINFO == [max |-> 0, maxReported |-> 0]

Greater(m, n) == IF m > n THEN m ELSE n

(***************************************************************************)
(* main: the knob -stackbreak arms the tool from the start.                *)
(***************************************************************************)
Init ==
  /\ ThreadInfos = [t \in {} |-> NewTINFO]
  /\ BreakOnSize \in Sizes \cup {0}
  /\ EnableInstrumentation = (BreakOnSize # 0)
  /\ BreakOnNewMax = FALSE
  /\ compiled = "empty"
  /\ depth = [t \in Threads |-> 0]
  /\ at = [t \in Threads |-> "outside"]
  /\ debugger = "unconnected"
  /\ stopped = FALSE

-----------------------------------------------------------------------------
OnThreadStart(t) ==
  /\ at[t] = "outside"
  /\ ~stopped
  /\ ThreadInfos' = [u \in Running \cup {t} |->
                       IF u = t THEN NewTINFO ELSE ThreadInfos[u]]
  /\ depth' = [depth EXCEPT ![t] = 0]
  /\ at' = [at EXCEPT ![t] = "app"]
  /\ UNCHANGED <<settings, debugger, stopped>>

OnThreadEnd(t) ==
  /\ at[t] = "app"
  /\ ~stopped
  /\ ThreadInfos' = [u \in Running \ {t} |-> ThreadInfos[u]]
  /\ at' = [at EXCEPT ![t] = "outside"]
  /\ UNCHANGED <<settings, depth, debugger, stopped>>

(***************************************************************************)
(* Instruction: code is instrumented, or not, when it is first compiled.   *)
(***************************************************************************)
Instrumented ==
  CASE compiled = "empty" -> EnableInstrumentation
    [] OTHER              -> compiled = "traced"

(***************************************************************************)
(* OnStackChangeIf answers whether to stop, and so the place where the     *)
(* thread goes on.                                                         *)
(***************************************************************************)
MustBreak(t, size) ==
  \/ BreakOnNewMax /\ size > ThreadInfos[t].maxReported
  \/ BreakOnSize # 0 /\ size >= BreakOnSize

(***************************************************************************)
(* A faulty routine, for the mutation check: the maximum is kept only when *)
(* there is no reason to stop.                                             *)
(***************************************************************************)
OnStackChangeIfBreaksFirst(t, size) ==
  IF size < 0 THEN UNCHANGED <<ThreadInfos, at>>
  ELSE IF MustBreak(t, size)
  THEN at' = [at EXCEPT ![t] = "break"] /\ UNCHANGED ThreadInfos
  ELSE /\ ThreadInfos' = [ThreadInfos EXCEPT ![t].max = Greater(@, size)]
       /\ UNCHANGED at

OnStackChangeIf(t, size) ==
  IF size < 0 THEN UNCHANGED <<ThreadInfos, at>>
  ELSE /\ ThreadInfos' = [ThreadInfos EXCEPT ![t].max = Greater(@, size)]
       /\ at' = [at EXCEPT ![t] = IF MustBreak(t, size) THEN "break" ELSE "app"]

(***************************************************************************)
(* The thread executes an instruction that changes its stack pointer.      *)
(***************************************************************************)
ChangeStack(t, size) ==
  /\ at[t] = "app"
  /\ ~stopped
  /\ depth' = [depth EXCEPT ![t] = size]
  /\ compiled' = IF Instrumented THEN "traced" ELSE "plain"
  /\ IF Instrumented THEN OnStackChangeIf(t, size)
                     ELSE UNCHANGED <<ThreadInfos, at>>
  /\ UNCHANGED <<EnableInstrumentation, BreakOnNewMax, BreakOnSize, debugger, stopped>>

(***************************************************************************)
(* The same by an instruction no call can be inserted behind (a system     *)
(* call, for instance), which the tool never sees.                         *)
(***************************************************************************)
ChangeStackUnseen(t, size) ==
  /\ at[t] = "app"
  /\ ~stopped
  /\ depth' = [depth EXCEPT ![t] = size]
  /\ UNCHANGED <<ThreadInfos, settings, at, debugger, stopped>>

-----------------------------------------------------------------------------
(***************************************************************************)
(* ConnectDebugger's early returns: the thread waits for no debugger when  *)
(* one is connected, or when Pin has no TCP server one could connect to.   *)
(***************************************************************************)
AfterBreak == IF debugger = "connected" THEN {"report"} ELSE {"wait", "report"}

(***************************************************************************)
(* DoBreakpoint up to the wait for a debugger.  The faulty one, for the    *)
(* mutation check, forgets what it reports.                                *)
(***************************************************************************)
DoBreakpointForgets(t) ==
  /\ at[t] = "break"
  /\ \E place \in AfterBreak : at' = [at EXCEPT ![t] = place]
  /\ UNCHANGED <<ThreadInfos, settings, depth, debugger, stopped>>

DoBreakpoint(t) ==
  /\ at[t] = "break"
  /\ ThreadInfos' = [ThreadInfos EXCEPT ![t].maxReported = Greater(@, depth[t])]
  /\ \E place \in AfterBreak : at' = [at EXCEPT ![t] = place]
  /\ UNCHANGED <<settings, depth, debugger, stopped>>

(***************************************************************************)
(* PIN_WaitForDebuggerToConnect returns when a debugger is connected or    *)
(* the time is over.  In the faulty one, for the mutation check, the       *)
(* timeout is not passed on.                                               *)
(***************************************************************************)
ConnectDebuggerNoTimeout(t) ==
  /\ at[t] = "wait"
  /\ debugger = "connected"
  /\ at' = [at EXCEPT ![t] = "report"]
  /\ UNCHANGED <<ThreadInfos, settings, depth, debugger, stopped>>

ConnectDebugger(t) ==
  /\ at[t] = "wait"
  /\ debugger = "connected" \/ KnobTimeout # 0
  /\ at' = [at EXCEPT ![t] = "report"]
  /\ UNCHANGED <<ThreadInfos, settings, depth, debugger, stopped>>

(***************************************************************************)
(* PIN_ApplicationBreakpoint stops the application if a debugger is        *)
(* connected; otherwise the thread goes on at once.                        *)
(***************************************************************************)
ApplicationBreakpoint(t) ==
  /\ at[t] = "report"
  /\ ~stopped
  /\ at' = [at EXCEPT ![t] = "app"]
  /\ stopped' = (debugger = "connected")
  /\ UNCHANGED <<ThreadInfos, settings, depth, debugger>>

-----------------------------------------------------------------------------
(***************************************************************************)
(* The user: connects a debugger, which may or may not stop the            *)
(* application, interrupts it, lets it continue, or detaches.              *)
(***************************************************************************)
Connect ==
  /\ debugger = "unconnected"
  /\ debugger' = "connected"
  /\ stopped' \in BOOLEAN
  /\ UNCHANGED <<ThreadInfos, settings, depth, at>>

Interrupt ==
  /\ debugger = "connected"
  /\ ~stopped
  /\ stopped' = TRUE
  /\ UNCHANGED <<ThreadInfos, settings, depth, at, debugger>>

Continue ==
  /\ stopped
  /\ stopped' = FALSE
  /\ UNCHANGED <<ThreadInfos, settings, depth, at, debugger>>

Detach ==
  /\ stopped
  /\ stopped' = FALSE
  /\ debugger' = "unconnected"
  /\ UNCHANGED <<ThreadInfos, settings, depth, at>>

(***************************************************************************)
(* DebugInterpreter: a command for a thread the tool knows, while the      *)
(* application is stopped; a thread in an analysis routine first runs to   *)
(* its end.                                                                *)
(***************************************************************************)
DebugInterpreter(tid) ==
  /\ stopped
  /\ tid \in Running
  /\ \A t \in Threads : at[t] # "break"
  /\ UNCHANGED <<ThreadInfos, depth, at, debugger, stopped>>

(***************************************************************************)
(* Tracing is switched on or off; PIN_RemoveInstrumentation empties the    *)
(* cache if it was not so already.  The faulty one, for the mutation       *)
(* check, leaves the code in the cache.                                    *)
(***************************************************************************)
SetTracingKeepsCode(on) ==
  /\ EnableInstrumentation' = on
  /\ UNCHANGED compiled

SetTracing(on) ==
  /\ EnableInstrumentation' = on
  /\ compiled' = IF EnableInstrumentation = on THEN compiled ELSE "empty"

StacktraceOn ==
  /\ SetTracing(TRUE)
  /\ UNCHANGED <<BreakOnNewMax, BreakOnSize>>

StacktraceOff ==
  /\ SetTracing(FALSE)
  /\ UNCHANGED <<BreakOnNewMax, BreakOnSize>>

(***************************************************************************)
(* The faulty command, for the mutation check, keeps the other kind of     *)
(* breakpoint.                                                             *)
(***************************************************************************)
StackbreakNewmaxKeepsSize ==
  /\ SetTracing(TRUE)
  /\ BreakOnNewMax' = TRUE
  /\ UNCHANGED BreakOnSize

StackbreakNewmax ==
  /\ SetTracing(TRUE)
  /\ BreakOnNewMax' = TRUE
  /\ BreakOnSize' = 0

StackbreakOff ==
  /\ BreakOnNewMax' = FALSE
  /\ BreakOnSize' = 0
  /\ UNCHANGED <<EnableInstrumentation, compiled>>

StackbreakSize(size) ==
  /\ SetTracing(TRUE)
  /\ BreakOnNewMax' = FALSE
  /\ BreakOnSize' = size

Command(tid) ==
  /\ DebugInterpreter(tid)
  /\ \/ StacktraceOn
     \/ StacktraceOff
     \/ StackbreakNewmax
     \/ StackbreakOff
     \/ \E size \in Sizes : StackbreakSize(size)

-----------------------------------------------------------------------------
User == Connect \/ Interrupt \/ Continue \/ Detach \/ \E tid \in Threads : Command(tid)

Application(t) ==
  \/ OnThreadStart(t)
  \/ OnThreadEnd(t)
  \/ \E size \in Depths : ChangeStack(t, size) \/ ChangeStackUnseen(t, size)

Tool(t) == DoBreakpoint(t) \/ ConnectDebugger(t) \/ ApplicationBreakpoint(t)

Next == User \/ \E t \in Threads : Application(t) \/ Tool(t)

(***************************************************************************)
(* A thread that is in the tool goes on when it can: the operating system  *)
(* schedules it, and the time it waits for passes.  Neither the user nor   *)
(* the application has to do anything.                                     *)
(***************************************************************************)
Fairness == \A t \in Threads : WF_vars(Tool(t))

Spec == Init /\ [][Next]_vars /\ Fairness

-----------------------------------------------------------------------------
(***************************************************************************)
(* The tool knows the threads that run; the two kinds of breakpoint        *)
(* exclude each other; only a debugger stops the application.              *)
(***************************************************************************)
TypeOK ==
  /\ ThreadInfos \in [{t \in Threads : at[t] # "outside"} ->
                        [max : 0 .. MaxDepth, maxReported : 0 .. MaxDepth]]
  /\ EnableInstrumentation \in BOOLEAN
  /\ BreakOnNewMax \in BOOLEAN
  /\ BreakOnSize \in Sizes \cup {0}
  /\ BreakOnNewMax => BreakOnSize = 0
  /\ compiled \in {"empty", "plain", "traced"}
  /\ depth \in [Threads -> Depths]
  /\ at \in [Threads -> {"outside", "app"} \cup InTool]
  /\ debugger \in {"unconnected", "connected"}
  /\ stopped \in BOOLEAN /\ (stopped => debugger = "connected")

(***************************************************************************)
(* What a thread was reported to use is never above its maximum, and a     *)
(* thread in the tool uses no more than the maximum stats would show.      *)
(***************************************************************************)
ReportedIsWithinMax ==
  \A t \in Running :
    /\ ThreadInfos[t].maxReported <= ThreadInfos[t].max
    /\ at[t] \in InTool => depth[t] \in 0 .. ThreadInfos[t].max
    /\ at[t] \in {"wait", "report"} => depth[t] <= ThreadInfos[t].maxReported

(***************************************************************************)
(* The code being executed calls the tool exactly when tracing is on,      *)
(* whatever commands were given in whatever order.                         *)
(***************************************************************************)
CodeIsAsEnabled ==
  compiled # "empty" => (compiled = "traced" <=> EnableInstrumentation)

(***************************************************************************)
(* "stackbreak newmax" reports no usage twice: each break of a thread is   *)
(* at a usage above all that were reported of it before.                   *)
(***************************************************************************)
NewMaxIsNew ==
  [][\A t \in Running :
       BreakOnNewMax /\ at[t] = "break" /\ at'[t] # "break"
         => ThreadInfos'[t].maxReported > ThreadInfos[t].maxReported]_vars

(***************************************************************************)
(* Once nobody stops the application any more, a thread that broke returns *)
(* to the application, whether a debugger was connected in time or not.    *)
(***************************************************************************)
BreaksEnd ==
  <>[]~stopped => \A t \in Threads : at[t] = "break" ~> at[t] = "app"

=============================================================================
