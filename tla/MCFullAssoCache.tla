-------------------------- MODULE MCFullAssoCache --------------------------
(***************************************************************************)
(* A small instance of FullAssoCache: three blocks of 64 bytes.            *)
(***************************************************************************)
EXTENDS FullAssoCacheLRU

(***************************************************************************)
(* Six addresses in five memory blocks: {} and {5} differ in the offset    *)
(* only, and {31} has the highest tag bit.                                 *)
(***************************************************************************)
MCAddrs == {{}, {5}, {6}, {7}, {6, 7}, {31}}

(***************************************************************************)
(* The memory of m_tags may already hold tags the program will use.        *)
(***************************************************************************)
MCStaleTags == {{}, {0}, {25}}

=============================================================================
