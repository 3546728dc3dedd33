------------------------------- MODULE MCCall -------------------------------
(* The extremes and one middle value of each random interval; a disconnect  *)
(* interval of 9 makes Bob hang up in the same second as Alice.             *)
EXTENDS Call

MCAnswerIvals == {8, 10, 13}
MCDisconnectIvals == {4, 9, 14}

Runs(classes, mightfail) ==
    [cls : classes, sigonly : BOOLEAN, mightfail : mightfail]

\* A compact-form twin differs from its original in the wording of its messages.
Distinct == Classes \ {"6", "7", "8", "9", "10"}

AllRuns == Runs(Distinct, {FALSE})

\* Every class whose guards are right, for a faulty SSuT; one of them is also
\* in the list of -m.
SoundRuns ==
    [cls : Distinct \ {"3"}, sigonly : {TRUE}, mightfail : {FALSE}]
        \cup Runs({"1"}, {TRUE})

\* One draw each is enough where the hang-up may come at any time.
OneAnswer == {8}
OneDisconnect == {9}

PostRing == Runs({"3"}, {FALSE})
PreRing == Runs({"4"}, {FALSE})
=============================================================================
