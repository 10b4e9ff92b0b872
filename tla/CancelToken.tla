---------------------------- MODULE CancelToken -----------------------------
(***************************************************************************)
(* exec::Cancel (src/exec.h) as a worker thread sees it: a flag another    *)
(* thread may set once, at any moment, and that run_shell alone looks at.  *)
(***************************************************************************)
EXTENDS ShellResult

VARIABLE cancel     \* Cancel::requested

\* Cancel::request, by the poll thread or at shutdown.
RequestCancel == ~cancel /\ cancel' = TRUE

\* The results run_shell can return at this moment: it may have missed the request, and
\* never invents one.
Returnable == {r \in ShellResults : r.cancelled => cancel}
=============================================================================
