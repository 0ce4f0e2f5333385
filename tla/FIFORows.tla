------------------------------ MODULE FIFORows ------------------------------
(***************************************************************************)
(* What a set-associative cache with first-in first-out replacement        *)
(* promises, with no ways and no replacement object in it: each row is a   *)
(* queue of at most asso tags in the order they were loaded.               *)
(***************************************************************************)
EXTENDS CacheModel, Sequences

CONSTANTS
  asso,               \* how many tags a row holds
  Lines               \* the pairs <<row, tag>> that may be accessed

VARIABLES
  rows,
  accessed            \* the pair accessed last, <<>> before the first access

Init ==
  /\ rows = [r \in {line[1] : line \in Lines} |-> <<>>]
  /\ accessed = <<>>
  /\ CountersInit

Holds(r, tag) == \E i \in DOMAIN rows[r] : rows[r][i] = tag

Hit(r, tag) ==
  /\ Holds(r, tag)
  /\ accessed' = <<r, tag>>
  /\ UNCHANGED rows

Load(r, tag) ==
  /\ ~Holds(r, tag)
  /\ accessed' = <<r, tag>>
  /\ rows' = [rows EXCEPT ![r] =
                Append(IF Len(@) < asso THEN @ ELSE Tail(@), tag)]

Next ==
  \E line \in Lines :
    \/ Hit(line[1], line[2]) /\ (CountRead(TRUE) \/ CountWrite(TRUE))
    \/ Load(line[1], line[2]) /\ (CountRead(FALSE) \/ CountWrite(FALSE))

Spec == Init /\ [][Next]_<<rows, accessed, counters>>

=============================================================================
