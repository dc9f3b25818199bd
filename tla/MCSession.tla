----------------------------- MODULE MCSession -----------------------------
(* All builds, with and without a screen.  The disk thread is the printer    *)
(* thread without a semaphore that others wait for; its loop is the same.    *)
EXTENDS Session

TwoWorkers == {"cpu", "printer"}
AllWorkers == TwoWorkers \cup {"disk"}
AllBuilds == BOOLEAN
Release == {FALSE}
AllScreens == BOOLEAN
WithScreen == {TRUE}
=============================================================================
