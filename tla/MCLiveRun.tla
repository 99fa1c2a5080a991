------------------------------- MODULE MCLiveRun -------------------------------
(***************************************************************************)
(* Two terminals, two runs and two workers.                                *)
(***************************************************************************)
EXTENDS LiveRun, TLC

CONSTANTS t1, t2, w1, w2, r1, r2

MCTerminal == {t1, t2}
MCWorker == {w1, w2}
MCRun == {r1, r2}

\* make agentteams-verify, and a wait for hand-offs of any run at any time.
Arguments_(run, after, waits) == [run |-> run, after |-> after, waits |-> waits]
MCCall == {Arguments_(None, None, FALSE), Arguments_(None, None, TRUE)}

MCSymmetry == Permutations(MCTerminal) \cup Permutations(MCWorker) \cup Permutations(MCRun)

===============================================================================
