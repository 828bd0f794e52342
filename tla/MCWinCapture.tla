---------------------------- MODULE MCWinCapture ----------------------------
\* The Windows driver, with the command line of the program it launches.
EXTENDS WinCapture, Quoting

\* A program that has been launched was given the arguments the user asked for,
\* whatever quotes, blanks and backslashes they contain and in whatever order
\* (launch.rs: "Joins `argv` into a single command line using the standard Windows
\* quoting rules").
ArgumentsSurvive == kind = "command" /\ proc # "none" => Faithful
=============================================================================
