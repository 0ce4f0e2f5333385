------------------------ MODULE StackDebugger_proofs ------------------------
(***************************************************************************)
(* Theorems about StackDebugger for every set of threads, every bound on   *)
(* the stack usage and every set of breakpoint sizes.                      *)
(***************************************************************************)
EXTENDS StackDebugger, TLAPS

-----------------------------------------------------------------------------
(***************************************************************************)
(* Every step of a thread keeps the types.                                 *)
(***************************************************************************)
LEMMA ApplicationKeepsTypes ==
  ASSUME TypeOK, NEW t \in Threads, Application(t)
  PROVE  TypeOK'
<1>1. CASE OnThreadStart(t)
  BY <1>1, StackDebuggerAssumption DEF OnThreadStart, TypeOK, NewTINFO, Running, Depths,
     InTool, settings
<1>2. CASE OnThreadEnd(t)
  BY <1>2, StackDebuggerAssumption DEF OnThreadEnd, TypeOK, Running, Depths, InTool,
     settings
<1>3. CASE \E size \in Depths : ChangeStack(t, size)
  <2> PICK size \in Depths : ChangeStack(t, size)
    BY <1>3
  <2>1. UNCHANGED <<EnableInstrumentation, BreakOnNewMax, BreakOnSize, debugger, stopped>>
        /\ compiled' \in {"empty", "plain", "traced"} /\ depth' \in [Threads -> Depths]
    BY DEF ChangeStack, TypeOK
  <2>2. CASE UNCHANGED <<ThreadInfos, at>>
    BY <2>1, <2>2 DEF TypeOK
  <2>3. CASE OnStackChangeIf(t, size) /\ size >= 0
    <3>1. t \in Running /\ size \in 0 .. MaxDepth
      BY <2>3, StackDebuggerAssumption DEF ChangeStack, TypeOK, Depths, Running
    <3>2. Greater(ThreadInfos[t].max, size) \in 0 .. MaxDepth
      BY <3>1, StackDebuggerAssumption DEF TypeOK, Greater, Running
    <3>3. at' \in [Threads -> {"outside", "app"} \cup InTool]
          /\ {u \in Threads : at'[u] # "outside"} = {u \in Threads : at[u] # "outside"}
      BY <2>3 DEF OnStackChangeIf, ChangeStack, TypeOK, InTool
    <3>4. ThreadInfos' \in [{u \in Threads : at[u] # "outside"} ->
                              [max : 0 .. MaxDepth, maxReported : 0 .. MaxDepth]]
      BY <2>3, <3>1, <3>2 DEF OnStackChangeIf, TypeOK, Running
    <3> QED
      BY <2>1, <3>3, <3>4 DEF TypeOK
  <2> QED
    BY <2>2, <2>3 DEF ChangeStack, OnStackChangeIf, Depths
<1>4. CASE \E size \in Depths : ChangeStackUnseen(t, size)
  BY <1>4 DEF ChangeStackUnseen, TypeOK, settings
<1> QED
  BY <1>1, <1>2, <1>3, <1>4 DEF Application

(***************************************************************************)
(* So do the steps in the tool and the steps of the user.                  *)
(***************************************************************************)
LEMMA ToolKeepsTypes ==
  ASSUME TypeOK, NEW t \in Threads, Tool(t)
  PROVE  TypeOK'
<1>1. CASE DoBreakpoint(t)
  <2>1. t \in Running /\ depth[t] \in Int
        /\ ThreadInfos[t].maxReported \in 0 .. MaxDepth
    BY <1>1, StackDebuggerAssumption DEF DoBreakpoint, TypeOK, Running, Depths
  <2>2. Greater(ThreadInfos[t].maxReported, depth[t]) \in 0 .. MaxDepth
    BY <2>1, StackDebuggerAssumption DEF TypeOK, Greater, Depths
  <2>3. at' \in [Threads -> {"outside", "app"} \cup InTool]
        /\ {u \in Threads : at'[u] # "outside"} = {u \in Threads : at[u] # "outside"}
    BY <1>1 DEF DoBreakpoint, AfterBreak, TypeOK, InTool
  <2>4. ThreadInfos' \in [{u \in Threads : at[u] # "outside"} ->
                            [max : 0 .. MaxDepth, maxReported : 0 .. MaxDepth]]
    BY <1>1, <2>1, <2>2 DEF DoBreakpoint, TypeOK, Running
  <2> QED
    BY <1>1, <2>3, <2>4 DEF DoBreakpoint, TypeOK, settings
<1>2. CASE ConnectDebugger(t)
  BY <1>2 DEF ConnectDebugger, TypeOK, InTool, settings
<1>3. CASE ApplicationBreakpoint(t)
  BY <1>3 DEF ApplicationBreakpoint, TypeOK, InTool, settings
<1> QED
  BY <1>1, <1>2, <1>3 DEF Tool

(***************************************************************************)
(* What the user does at the debugger keeps the types.                     *)
(***************************************************************************)
LEMMA UserKeepsTypes ==
  ASSUME TypeOK, User
  PROVE  TypeOK'
<1>1. CASE Connect \/ Interrupt \/ Continue \/ Detach
  <2>1. UNCHANGED <<ThreadInfos, EnableInstrumentation, BreakOnNewMax, BreakOnSize,
                    compiled, depth, at>>
    BY <1>1 DEF Connect, Interrupt, Continue, Detach, settings
  <2>2. debugger' \in {"unconnected", "connected"} /\ stopped' \in BOOLEAN
    BY <1>1 DEF Connect, Interrupt, Continue, Detach, TypeOK
  <2>3. stopped' => debugger' = "connected"
    BY <1>1 DEF Connect, Interrupt, Continue, Detach, TypeOK
  <2> QED
    BY <2>1, <2>2, <2>3 DEF TypeOK
<1>2. CASE \E tid \in Threads : Command(tid)
  <2>1. UNCHANGED <<ThreadInfos, depth, at, debugger, stopped>>
    BY <1>2 DEF Command, DebugInterpreter
  <2>2. /\ EnableInstrumentation' \in BOOLEAN /\ BreakOnNewMax' \in BOOLEAN
        /\ compiled' \in {"empty", "plain", "traced"}
    BY <1>2 DEF Command, StacktraceOn, StacktraceOff, StackbreakNewmax,
       StackbreakOff, StackbreakSize, SetTracing, TypeOK
  <2>3. \/ UNCHANGED <<BreakOnNewMax, BreakOnSize>>
        \/ BreakOnSize' = 0
        \/ BreakOnNewMax' = FALSE /\ BreakOnSize' \in Sizes
    BY <1>2 DEF Command, StacktraceOn, StacktraceOff, StackbreakNewmax,
       StackbreakOff, StackbreakSize
  <2>4. BreakOnSize' \in Sizes \cup {0}
    BY <2>3 DEF TypeOK
  <2>5. BreakOnNewMax' => BreakOnSize' = 0
    BY <2>3, Zenon DEF TypeOK
  <2> QED
    BY <2>1, <2>2, <2>4, <2>5 DEF TypeOK
<1> QED
  BY <1>1, <1>2 DEF User

(***************************************************************************)
(* The state of the tool is well-formed for ever: Running are the threads  *)
(* that run, the two kinds of breakpoint exclude each other, and only a    *)
(* debugger stops the application.                                         *)
(***************************************************************************)
THEOREM TypeCorrect == Spec => []TypeOK
<1>1. Init => TypeOK
  <2> SUFFICES ASSUME Init PROVE TypeOK
    OBVIOUS
  <2>1. /\ {t \in Threads : at[t] # "outside"} = {}
        /\ ThreadInfos \in [{} -> [max : 0 .. MaxDepth, maxReported : 0 .. MaxDepth]]
    BY DEF Init
  <2>2. /\ EnableInstrumentation \in BOOLEAN /\ BreakOnNewMax \in BOOLEAN
        /\ BreakOnSize \in Sizes \cup {0} /\ (BreakOnNewMax => BreakOnSize = 0)
        /\ compiled \in {"empty", "plain", "traced"}
        /\ debugger \in {"unconnected", "connected"}
        /\ stopped \in BOOLEAN /\ (stopped => debugger = "connected")
    BY DEF Init
  <2>3. /\ depth \in [Threads -> Depths]
        /\ at \in [Threads -> {"outside", "app"} \cup InTool]
    BY StackDebuggerAssumption DEF Init, Depths
  <2> QED
    BY <2>1, <2>2, <2>3 DEF TypeOK
<1>2. TypeOK /\ [Next]_vars => TypeOK'
  <2> SUFFICES ASSUME TypeOK, [Next]_vars PROVE TypeOK'
    OBVIOUS
  <2>1. CASE User
    BY <2>1, UserKeepsTypes
  <2>2. CASE \E t \in Threads : Application(t) \/ Tool(t)
    BY <2>2, ApplicationKeepsTypes, ToolKeepsTypes
  <2>3. CASE UNCHANGED vars
    BY <2>3 DEF vars, settings, TypeOK
  <2> QED
    BY <2>1, <2>2, <2>3 DEF Next
<1> QED
  BY <1>1, <1>2, PTL DEF Spec

-----------------------------------------------------------------------------
(***************************************************************************)
(* The code in Pin's cache calls the tool exactly when tracing is on,      *)
(* whatever commands were given in whatever order: every command that      *)
(* changes EnableInstrumentation empties the cache.                        *)
(***************************************************************************)
THEOREM CodeAlwaysAsEnabled == Spec => []CodeIsAsEnabled
<1>1. Init => CodeIsAsEnabled
  BY DEF Init, CodeIsAsEnabled
<1>2. TypeOK /\ CodeIsAsEnabled /\ [Next]_vars => CodeIsAsEnabled'
  <2> SUFFICES ASSUME TypeOK, CodeIsAsEnabled, [Next]_vars
               PROVE  CodeIsAsEnabled'
    OBVIOUS
  <2>1. CASE UNCHANGED settings
    BY <2>1 DEF settings, CodeIsAsEnabled
  <2>2. CASE \E t \in Threads, size \in Depths : ChangeStack(t, size)
    BY <2>2 DEF ChangeStack, Instrumented, CodeIsAsEnabled, TypeOK
  <2>3. CASE \E tid \in Threads : Command(tid)
    BY <2>3 DEF Command, StacktraceOn, StacktraceOff, StackbreakNewmax,
       StackbreakOff, StackbreakSize, SetTracing, CodeIsAsEnabled, TypeOK
  <2>4. CASE User
    BY <2>1, <2>3, <2>4 DEF User, Connect, Interrupt, Continue, Detach
  <2>5. CASE \E t \in Threads : Application(t)
    BY <2>1, <2>2, <2>5 DEF Application, OnThreadStart, OnThreadEnd, ChangeStackUnseen
  <2>6. CASE \E t \in Threads : Tool(t)
    BY <2>1, <2>6 DEF Tool, DoBreakpoint, ConnectDebugger, ApplicationBreakpoint
  <2> QED
    BY <2>1, <2>4, <2>5, <2>6 DEF Next, vars
<1> QED
  BY <1>1, <1>2, TypeCorrect, PTL DEF Spec

-----------------------------------------------------------------------------
(***************************************************************************)
(* The inductive invariant behind the other two theorems.  A thread that   *)
(* OnStackChangeIf stopped for "stackbreak newmax" must be at a usage      *)
(* above all reported of it up to the moment DoBreakpoint reports it; no   *)
(* command can arm the breakpoint in between.                              *)
(***************************************************************************)
UsageOK(t) ==
  /\ ThreadInfos[t].maxReported <= ThreadInfos[t].max
  /\ at[t] \in InTool => depth[t] \in 0 .. ThreadInfos[t].max
  /\ at[t] \in {"wait", "report"} => depth[t] <= ThreadInfos[t].maxReported

BreakIsNew(t) ==
  BreakOnNewMax /\ at[t] = "break" => depth[t] > ThreadInfos[t].maxReported

UsageInv == \A t \in Running : UsageOK(t) /\ BreakIsNew(t)

(***************************************************************************)
(* The invariant says ReportedIsWithinMax.                                 *)
(***************************************************************************)
LEMMA UsageInvImplies == UsageInv => ReportedIsWithinMax
  BY DEF UsageInv, UsageOK, ReportedIsWithinMax

(***************************************************************************)
(* A step of one thread that is fine for that thread is fine for all.      *)
(***************************************************************************)
LEMMA OnlyOneThread ==
  ASSUME TypeOK, UsageInv, NEW t \in Threads, UNCHANGED BreakOnNewMax,
         \A u \in Running' \ {t} :
           /\ u \in Running
           /\ ThreadInfos'[u] = ThreadInfos[u]
           /\ at'[u] = at[u] /\ depth'[u] = depth[u],
         t \in Running' => (UsageOK(t) /\ BreakIsNew(t))'
  PROVE  UsageInv'
<1> SUFFICES ASSUME NEW u \in Running' PROVE (UsageOK(u) /\ BreakIsNew(u))'
  BY DEF UsageInv
<1>1. CASE u = t
  BY <1>1
<1>2. CASE u # t
  <2>1. UsageOK(u) /\ BreakIsNew(u)
    BY <1>2 DEF UsageInv
  <2>2. UsageOK(u)'
    BY <1>2, <2>1 DEF UsageOK
  <2>3. BreakIsNew(u)'
    BY <1>2, <2>1 DEF BreakIsNew
  <2> QED
    BY <2>2, <2>3
<1> QED
  BY <1>1, <1>2

(***************************************************************************)
(* The analysis call on a change of the stack keeps the invariant.         *)
(***************************************************************************)
LEMMA OnStackChangeIfKeepsUsage ==
  ASSUME TypeOK, UsageInv, NEW t \in Threads, NEW size \in Depths, ChangeStack(t, size)
  PROVE  UsageInv'
<1>1. t \in Running /\ at[t] = "app" /\ depth' = [depth EXCEPT ![t] = size]
      /\ UNCHANGED BreakOnNewMax
  BY DEF ChangeStack, TypeOK, Running
<1>2. /\ ThreadInfos[t] \in [max : 0 .. MaxDepth, maxReported : 0 .. MaxDepth]
      /\ depth'[t] = size /\ size \in Int /\ UsageOK(t)
  BY <1>1, StackDebuggerAssumption DEF TypeOK, Depths, Running, UsageInv
<1>3. CASE UNCHANGED <<ThreadInfos, at>>
  <2>1. (UsageOK(t) /\ BreakIsNew(t))'
    BY <1>1, <1>2, <1>3 DEF UsageOK, BreakIsNew, InTool
  <2> QED
    BY <1>1, <1>3, <2>1, OnlyOneThread DEF Running, TypeOK
<1>4. CASE OnStackChangeIf(t, size) /\ size >= 0
  <2>1. /\ ThreadInfos' = [ThreadInfos EXCEPT ![t].max = Greater(@, size)]
        /\ at' = [at EXCEPT ![t] = IF MustBreak(t, size) THEN "break" ELSE "app"]
    BY <1>2, <1>4 DEF OnStackChangeIf
  <2>2. /\ ThreadInfos'[t].max = Greater(ThreadInfos[t].max, size)
        /\ ThreadInfos'[t].maxReported = ThreadInfos[t].maxReported
        /\ Running' = Running
    BY <1>1, <1>2, <2>1 DEF Running, TypeOK
  <2>3. UsageOK(t)'
    <3>1. at'[t] \in {"break", "app"}
      BY <1>1, <2>1 DEF TypeOK
    <3>2. Greater(ThreadInfos[t].max, size) >= ThreadInfos[t].max
          /\ Greater(ThreadInfos[t].max, size) >= size
      BY <1>2, StackDebuggerAssumption DEF Greater
    <3> QED
      BY <1>2, <1>4, <2>2, <3>1, <3>2, StackDebuggerAssumption DEF UsageOK, InTool, Greater
  <2>4. BreakIsNew(t)'
    <3> SUFFICES ASSUME BreakOnNewMax', at'[t] = "break"
                 PROVE  size > ThreadInfos[t].maxReported
      BY <1>2, <2>2 DEF BreakIsNew
    <3>1. MustBreak(t, size) /\ BreakOnNewMax
      BY <1>1, <2>1 DEF TypeOK
    <3>2. BreakOnSize = 0
      BY <3>1 DEF TypeOK
    <3> QED
      BY <3>1, <3>2 DEF MustBreak
  <2> QED
    BY <1>1, <2>1, <2>2, <2>3, <2>4, OnlyOneThread DEF Running, TypeOK
<1> QED
  BY <1>3, <1>4 DEF ChangeStack, OnStackChangeIf, Depths

(***************************************************************************)
(* What the application's threads do keeps the invariant.                  *)
(***************************************************************************)
LEMMA ApplicationKeepsUsage ==
  ASSUME TypeOK, UsageInv, NEW t \in Threads, Application(t)
  PROVE  UsageInv'
<1>1. CASE OnThreadStart(t)
  <2>1. /\ UNCHANGED BreakOnNewMax
        /\ Running' = Running \cup {t}
        /\ \A u \in Running' \ {t} : ThreadInfos'[u] = ThreadInfos[u]
                                       /\ at'[u] = at[u] /\ depth'[u] = depth[u]
    BY <1>1 DEF OnThreadStart, settings, TypeOK, Running
  <2>2. ThreadInfos'[t] = NewTINFO /\ depth'[t] = 0 /\ at'[t] = "app"
    BY <1>1 DEF OnThreadStart, TypeOK, Running
  <2>3. (UsageOK(t) /\ BreakIsNew(t))'
    BY <2>2 DEF UsageOK, BreakIsNew, InTool, NewTINFO
  <2> QED
    BY <2>1, <2>3, OnlyOneThread
<1>2. CASE OnThreadEnd(t)
  <2>1. /\ UNCHANGED BreakOnNewMax
        /\ Running' = Running \ {t}
        /\ \A u \in Running' : ThreadInfos'[u] = ThreadInfos[u]
                                /\ at'[u] = at[u] /\ depth'[u] = depth[u]
    BY <1>2 DEF OnThreadEnd, settings, TypeOK, Running
  <2> QED
    BY <2>1, OnlyOneThread
<1>3. CASE \E size \in Depths : ChangeStack(t, size)
  BY <1>3, OnStackChangeIfKeepsUsage
<1>4. CASE \E size \in Depths : ChangeStackUnseen(t, size)
  <2>1. /\ UNCHANGED <<BreakOnNewMax, ThreadInfos, at>>
        /\ at[t] = "app"
        /\ \A u \in Running \ {t} : depth'[u] = depth[u]
    BY <1>4 DEF ChangeStackUnseen, settings, TypeOK, Running
  <2>2. t \in Running => (UsageOK(t) /\ BreakIsNew(t))'
    BY <2>1 DEF UsageInv, UsageOK, BreakIsNew, InTool
  <2> QED
    BY <2>1, <2>2, OnlyOneThread DEF Running
<1> QED
  BY <1>1, <1>2, <1>3, <1>4 DEF Application

(***************************************************************************)
(* DoBreakpoint reports the usage a thread stopped at, and the report is   *)
(* within the maximum because OnStackChangeIf has raised that first.       *)
(***************************************************************************)
LEMMA ToolKeepsUsage ==
  ASSUME TypeOK, UsageInv, NEW t \in Threads, Tool(t)
  PROVE  UsageInv'
<1>1. /\ t \in Running /\ at[t] \in InTool /\ UNCHANGED <<BreakOnNewMax, depth>>
      /\ ThreadInfos[t] \in [max : 0 .. MaxDepth, maxReported : 0 .. MaxDepth]
      /\ UsageOK(t)
  BY DEF Tool, DoBreakpoint, ConnectDebugger, ApplicationBreakpoint, settings,
     TypeOK, Running, InTool, UsageInv
<1>2. CASE DoBreakpoint(t)
  <2>1. /\ ThreadInfos' = [ThreadInfos EXCEPT ![t].maxReported = Greater(@, depth[t])]
        /\ Running' = Running
        /\ at'[t] \in {"wait", "report"}
        /\ \A u \in Running \ {t} : at'[u] = at[u]
    BY <1>2 DEF DoBreakpoint, AfterBreak, TypeOK, Running
  <2>2. /\ ThreadInfos'[t].max = ThreadInfos[t].max
        /\ ThreadInfos'[t].maxReported = Greater(ThreadInfos[t].maxReported, depth[t])
        /\ \A u \in Running \ {t} : ThreadInfos'[u] = ThreadInfos[u]
    BY <1>1, <2>1 DEF Running
  <2>3. UsageOK(t)'
    BY <1>1, <2>1, <2>2, StackDebuggerAssumption DEF UsageOK, InTool, Greater
  <2>4. BreakIsNew(t)'
    BY <2>1 DEF BreakIsNew
  <2> QED
    BY <1>1, <2>1, <2>2, <2>3, <2>4, OnlyOneThread
<1>3. CASE ConnectDebugger(t) \/ ApplicationBreakpoint(t)
  <2>1. /\ UNCHANGED ThreadInfos
        /\ at'[t] \in {"report", "app"}
        /\ at'[t] = "report" => at[t] = "wait"
        /\ \A u \in Running \ {t} : at'[u] = at[u]
    BY <1>3 DEF ConnectDebugger, ApplicationBreakpoint, TypeOK, Running
  <2>2. (UsageOK(t) /\ BreakIsNew(t))'
    BY <1>1, <2>1 DEF UsageOK, BreakIsNew, InTool
  <2> QED
    BY <1>1, <2>1, <2>2, OnlyOneThread DEF Running
<1> QED
  BY <1>2, <1>3 DEF Tool

(***************************************************************************)
(* The user's steps leave the threads alone, and a command that arms       *)
(* "newmax" finds no thread on its way to a break.                         *)
(***************************************************************************)
LEMMA UserKeepsUsage ==
  ASSUME TypeOK, UsageInv, User
  PROVE  UsageInv'
<1>1. /\ UNCHANGED <<ThreadInfos, depth, at>>
      /\ UNCHANGED BreakOnNewMax \/ \A t \in Threads : at[t] # "break"
  BY DEF User, Connect, Interrupt, Continue, Detach, Command, DebugInterpreter, settings
<1> SUFFICES ASSUME NEW t \in Running PROVE (UsageOK(t) /\ BreakIsNew(t))'
  BY <1>1 DEF UsageInv, Running
<1>2. UsageOK(t) /\ BreakIsNew(t) /\ t \in Threads
  BY DEF UsageInv, TypeOK, Running
<1>3. UsageOK(t)'
  BY <1>1, <1>2 DEF UsageOK
<1>4. BreakIsNew(t)'
  BY <1>1, <1>2 DEF BreakIsNew
<1> QED
  BY <1>3, <1>4

(***************************************************************************)
(* The invariant holds in every state.                                     *)
(***************************************************************************)
LEMMA UsageInvariant == Spec => []UsageInv
<1>1. Init => UsageInv
  BY DEF Init, UsageInv, Running
<1>2. TypeOK /\ UsageInv /\ [Next]_vars => UsageInv'
  <2> SUFFICES ASSUME TypeOK, UsageInv, [Next]_vars PROVE UsageInv'
    OBVIOUS
  <2>1. CASE User
    BY <2>1, UserKeepsUsage
  <2>2. CASE \E t \in Threads : Application(t) \/ Tool(t)
    BY <2>2, ApplicationKeepsUsage, ToolKeepsUsage
  <2>3. CASE UNCHANGED vars
    BY <2>3 DEF vars, settings, UsageInv, UsageOK, BreakIsNew, Running
  <2> QED
    BY <2>1, <2>2, <2>3 DEF Next
<1> QED
  BY <1>1, <1>2, TypeCorrect, PTL DEF Spec

(***************************************************************************)
(* What a thread was reported to use is never above its maximum, and a     *)
(* thread in the tool uses no more than the maximum stats would show.      *)
(***************************************************************************)
THEOREM ReportedAlwaysWithinMax == Spec => []ReportedIsWithinMax
  BY UsageInvariant, UsageInvImplies, PTL

(***************************************************************************)
(* "stackbreak newmax" reports no usage twice: each break is at a usage    *)
(* above all that were reported of the thread before.                      *)
(***************************************************************************)
THEOREM NewMaxAlwaysNew == Spec => NewMaxIsNew
<1>1. TypeOK /\ UsageInv /\ [Next]_vars =>
        [\A t \in Running :
           BreakOnNewMax /\ at[t] = "break" /\ at'[t] # "break"
             => ThreadInfos'[t].maxReported > ThreadInfos[t].maxReported]_vars
  <2> SUFFICES ASSUME TypeOK, UsageInv, Next, NEW t \in Running,
                      BreakOnNewMax, at[t] = "break", at'[t] # "break"
               PROVE  ThreadInfos'[t].maxReported > ThreadInfos[t].maxReported
    OBVIOUS
  <2>1. t \in Threads
    BY DEF Running, TypeOK
  <2>2. DoBreakpoint(t)
    <3>1. ~User
      BY DEF User, Connect, Interrupt, Continue, Detach, Command, DebugInterpreter
    <3>2. PICK u \in Threads : Application(u) \/ Tool(u)
      BY <3>1 DEF Next
    <3>3. CASE u # t
      <4>1. CASE Application(u)
        BY <2>1, <3>3, <4>1 DEF Application, OnThreadStart, OnThreadEnd, ChangeStack,
           ChangeStackUnseen, OnStackChangeIf, TypeOK
      <4>2. CASE Tool(u)
        BY <2>1, <3>3, <4>2 DEF Tool, DoBreakpoint, ConnectDebugger,
           ApplicationBreakpoint, TypeOK
      <4> QED
        BY <3>2, <4>1, <4>2
    <3>4. ~Application(t)
      BY DEF Application, OnThreadStart, OnThreadEnd, ChangeStack, ChangeStackUnseen
    <3> QED
      BY <3>2, <3>3, <3>4 DEF Tool, ConnectDebugger, ApplicationBreakpoint
  <2>3. depth[t] > ThreadInfos[t].maxReported
    BY DEF UsageInv, BreakIsNew
  <2>4. ThreadInfos'[t].maxReported = depth[t]
    <3>1. ThreadInfos'[t].maxReported = Greater(ThreadInfos[t].maxReported, depth[t])
      BY <2>2 DEF DoBreakpoint, TypeOK, Running
    <3>2. ThreadInfos[t].maxReported \in Int /\ depth[t] \in Int
      BY <2>1, StackDebuggerAssumption DEF TypeOK, Running, Depths
    <3> QED
      BY <2>3, <3>1, <3>2 DEF Greater
  <2> QED
    BY <2>3, <2>4
<1> QED
  BY <1>1, TypeCorrect, UsageInvariant, PTL DEF Spec, NewMaxIsNew

=============================================================================
