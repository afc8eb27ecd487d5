----------------------------- MODULE MCSplitLink -----------------------------
(* SplitLink with three states of a half.                                  *)
EXTENDS SplitLink
CONSTANTS none, one, two
MCKeyStates == {none, one, two}
=============================================================================
