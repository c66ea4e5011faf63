------------------------------ MODULE Acceptance ------------------------------
(***************************************************************************)
(* What a loader promises: a file it is asked to take is kept whole if it  *)
(* is legal and changes nothing if it is not, and nothing else changes     *)
(* what is kept.  SignalLoader and ConfigLoader implement it row by row,   *)
(* and a client that looks at the answers only may take a call for the two *)
(* steps here.                                                             *)
(***************************************************************************)
CONSTANTS
  Nothing,    \* no file
  Accepts(_), \* the file is legal
  Content(_), \* what is kept of a file
  Blank       \* what is kept before the first one

VARIABLES
  asked,  \* the file that is being loaded, or Nothing
  kept    \* the content of the last one that was accepted

Init == asked = Nothing /\ kept = Blank

\* Any file, at any time when none is being loaded.
Ask == asked = Nothing /\ UNCHANGED kept

\* Kept whole, or refused.
Answer ==
  /\ asked # Nothing /\ asked' = Nothing
  /\ kept' = IF Accepts(asked) THEN Content(asked) ELSE kept

Next == Ask \/ Answer

Spec == Init /\ [][Next]_<<asked, kept>>
=============================================================================
