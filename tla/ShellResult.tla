---------------------------- MODULE ShellResult -----------------------------
(***************************************************************************)
(* exec::Result (src/exec.h), the contract between exec::run_shell, which  *)
(* produces it (module Exec), and runner::run_document, which turns it     *)
(* into the status of a step (module DocRunner).  The captured output is   *)
(* left out.                                                               *)
(***************************************************************************)

\* exit_code: -1, 0, another code of the shell's own, or 128 + the signal that ended it.
Exits == {"unset", "zero", "nonzero", "signal"}

\* The results run_shell returns: a cancel and a timeout exclude each other, and the
\* exit code is missing only if there is an error to tell.
ShellResults ==
    {r \in [exit : Exits, timed_out : BOOLEAN, cancelled : BOOLEAN, error : BOOLEAN] :
        /\ ~(r.timed_out /\ r.cancelled)
        /\ r.exit = "unset" => r.error}
=============================================================================
