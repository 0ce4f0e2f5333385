---------------------------- MODULE SaturatingCnt ----------------------------
(***************************************************************************)
(* The saturating counters of the branch predictors.  A counter is its     *)
(* value, a UINT8; every operator takes the width m_wid.                   *)
(***************************************************************************)
EXTENDS Naturals

UINT8(n) == n % 256

InitVal(wid) == UINT8(2 ^ wid \div 2)

(***************************************************************************)
(* A faulty increase, for the mutation check: it saturates one late.       *)
(***************************************************************************)
increaseSaturatesLate(wid, val) ==
  IF val <= 2 ^ wid - 1 THEN UINT8(val + 1) ELSE val

increase(wid, val) == IF val < 2 ^ wid - 1 THEN UINT8(val + 1) ELSE val

decrease(wid, val) == IF val > 0 THEN val - 1 ELSE val

isTaken(wid, val) == val > 2 ^ wid \div 2 - 1

=============================================================================
