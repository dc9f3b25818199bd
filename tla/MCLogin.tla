------------------------------ MODULE MCLogin ------------------------------
(* Names for Login: a plain one, one with blanks at its end (the file keeps  *)
(* them, trim_whitespace does not), and one that names no legal path.        *)
EXTENDS LoginHist

CONSTANTS ana, anaBlank, noPath

MCNames == {ana, anaBlank, noPath}
MCUnopenable == {noPath}
MCStoredName == [n \in MCNames |-> IF n = anaBlank THEN ana ELSE n]
=============================================================================
