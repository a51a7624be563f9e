----------------------------- MODULE MCLogging -----------------------------
(* INI files for the instances of Logging that TLC checks.                 *)
EXTENDS Logging

IniFile(max, break, header) == [max |-> max, break |-> break, header |-> header]

(* The same size limit in two files, and the hour a reason to rotate in one.*)
LimitInis == {IniFile(2, FALSE, FALSE), IniFile(2, TRUE, FALSE)}

(* The limit, the hour and a header.                                       *)
HeaderInis == {IniFile(2, TRUE, TRUE)}
=============================================================================
