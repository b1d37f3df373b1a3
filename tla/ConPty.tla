------------------------------- MODULE ConPty -------------------------------
(***************************************************************************)
(* What startPTY takes from Windows, call by call, and what its error paths *)
(* give back (cmd/getsloth/pty_windows.go).  The calls are made in order by *)
(* one goroutine; each may fail.                                            *)
(***************************************************************************)
EXTENDS Naturals, Sequences

Step(gets, closes, undo) == [gets |-> gets, closes |-> closes, undo |-> undo]

\* What startPTY gives back when spawn fails.
Console == {"console", "inWrite", "outRead"}

\* What spawn's deferred calls give back, however it returns.
Deferred == {"attributes", "thread"}

\* A faulty SpawnSteps: a process that cannot be assigned keeps its job open.
SpawnStepsLeaking ==
    << Step({"job"}, {}, {}),
       Step({}, {}, {"job"}),
       Step({"attributes"}, {}, {"job"}),
       Step({}, {}, {"job"}),
       Step({"process", "thread"}, {}, {"job"}),
       Step({}, {}, {"process"}),
       Step({}, Deferred, {"process", "job"}) >>

\* spawn: CreateJobObject, SetInformationJobObject, NewProcThreadAttributeList,
\* its Update, CreateProcess (suspended), AssignProcessToJobObject, ResumeThread.
SpawnSteps ==
    << Step({"job"}, {}, {}),
       Step({}, {}, {"job"}),
       Step({"attributes"}, {}, {"job"}),
       Step({}, {}, {"job"}),
       Step({"process", "thread"}, {}, {"job"}),
       Step({}, {}, {"process", "job"}),
       Step({}, Deferred, {"process", "job"}) >>

\* startPTY: the two pipes and the pseudoconsole, which keeps its ends of them.
OpenSteps ==
    << Step({"inRead", "inWrite"}, {}, {}),
       Step({"outRead", "outWrite"}, {}, {"inRead", "inWrite"}),
       Step({"console"}, {"inRead", "outWrite"},
            {"inRead", "outWrite", "inWrite", "outRead"}) >>

StartSteps == OpenSteps \o SpawnSteps

\* What the calls before the k-th have left open.
HeldBefore(k) == (UNION {StartSteps[i].gets : i \in 1 .. k - 1})
                   \ (UNION {StartSteps[i].closes : i \in 1 .. k - 1})

\* What is still open when the k-th call has failed and startPTY has returned.
HeldAfterFailure(k) ==
    HeldBefore(k) \ (StartSteps[k].undo
                       \cup IF k > Len(OpenSteps) THEN Console \cup Deferred ELSE {})

HeldWhenStarted == HeldBefore(Len(StartSteps) + 1)

\* Close: the pipes, and the handles once watch has closed the console.
ClosedByClose == {"outRead", "inWrite", "process", "job"}
ClosedByWatch == {"console"}
=============================================================================
