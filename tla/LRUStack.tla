------------------------------ MODULE LRUStack ------------------------------
(***************************************************************************)
(* What a fully associative cache with least-recently-used replacement     *)
(* promises, with no blocks in it: the tags of the last accesses, each     *)
(* once, the least recent first.  A tag on the stack hits; one that is not *)
(* pushes the least recent out when capacity tags are held.                *)
(***************************************************************************)
EXTENDS CacheModel, Sequences

CONSTANTS
  capacity,           \* how many tags are held
  Tags                \* the tags that may be accessed

VARIABLES
  stack,
  accessed            \* <<the tag accessed last>>, <<>> before the first

Held == {stack[i] : i \in DOMAIN stack}

(***************************************************************************)
(* The stack without the tag at position p.                                *)
(***************************************************************************)
Without(p) == SubSeq(stack, 1, p - 1) \o SubSeq(stack, p + 1, Len(stack))

Init ==
  /\ stack = <<>>
  /\ accessed = <<>>
  /\ CountersInit

Reuse(tag) ==
  /\ accessed' = <<tag>>
  /\ \E p \in DOMAIN stack :
       /\ stack[p] = tag
       /\ stack' = Append(Without(p), tag)

Load(tag) ==
  /\ tag \notin Held
  /\ accessed' = <<tag>>
  /\ stack' = Append(IF Len(stack) < capacity THEN stack ELSE Tail(stack), tag)

Next ==
  \E tag \in Tags :
    \/ Reuse(tag) /\ (CountRead(TRUE) \/ CountWrite(TRUE))
    \/ Load(tag) /\ (CountRead(FALSE) \/ CountWrite(FALSE))

Spec == Init /\ [][Next]_<<stack, accessed, counters>>

=============================================================================
