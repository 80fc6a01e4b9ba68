----------------------------- MODULE MCPlatform -----------------------------
(* Two workers, two worker tasks, two foreground tasks and one handle: enough  *)
(* for a worker task to post a foreground task while another worker sleeps,    *)
(* for a foreground task to post a worker task during a drain, and for the     *)
(* loop to be left and entered again.                                          *)
EXTENDS Platform
CONSTANTS w1, w2, t1, t2, f1, f2, h1

MCWorkers == {w1, w2}
MCTasks == {t1, t2}
MCForegroundTasks == {f1, f2}
MCHandles == {h1}
=============================================================================
