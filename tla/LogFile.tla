------------------------------ MODULE LogFile -------------------------------
(***************************************************************************)
(* The log of utils/log.h, as use_file_log of jni_native_hook.cpp turns it *)
(* from adb to a file while the threads of the hooks write to it.          *)
(***************************************************************************)
EXTENDS Integers

CONSTANTS
    Writer,    \* threads that log
    MaxUse     \* bound: calls of use_file_log

ASSUME LogAssumption == MaxUse \in Nat

VARIABLES
    adapt,      \* where output_log sends a line
    log_file,   \* "null", or the path's file open or not
    use,        \* where use_file_log is
    uses,
    out,        \* thread -> where output_log is
    openFailed, \* the last fopen of set_file_path failed
    logCrash

lvars == <<adapt, log_file, use, uses, out, openFailed, logCrash>>

LogInit ==
    /\ adapt = "use_adb"
    /\ log_file = "null"
    /\ use = "idle"
    /\ uses = 0
    /\ out = [t \in Writer |-> "idle"]
    /\ openFailed = FALSE
    /\ logCrash = FALSE

-----------------------------------------------------------------------------
\* An empty path changes nothing, but the adapter is switched all the same.
SetPath(opens) ==
    /\ log_file' = IF opens THEN "open" ELSE "null"
    /\ openFailed' = ~opens
KeepPath ==
    /\ openFailed' = (log_file = "null")
    /\ UNCHANGED log_file

\* Mistake: the adapter first.
use_file_log_adapt_first ==
    /\ use = "idle" /\ uses < MaxUse
    /\ uses' = uses + 1
    /\ use' = "path"
    /\ adapt' = "use_file"
    /\ UNCHANGED <<log_file, out, openFailed, logCrash>>

use_file_log ==
    /\ use = "idle" /\ uses < MaxUse
    /\ uses' = uses + 1
    /\ use' = "path"
    /\ UNCHANGED <<adapt, log_file, out, openFailed, logCrash>>

set_file_path(opens) ==
    /\ use = "path"
    /\ SetPath(opens)
    /\ use' = "adapt"
    /\ UNCHANGED <<adapt, uses, out, logCrash>>

set_file_path_empty ==
    /\ use = "path"
    /\ KeepPath
    /\ use' = "adapt"
    /\ UNCHANGED <<adapt, uses, out, logCrash>>

set_adapt ==
    /\ use = "adapt"
    /\ adapt' = "use_file"
    /\ use' = "idle"
    /\ UNCHANGED <<log_file, uses, out, openFailed, logCrash>>

\* The adapter is read, and the line formatted, before log2file takes the lock.
output_log(t) ==
    /\ out[t] = "idle"
    /\ out' = [out EXCEPT ![t] = adapt]
    /\ UNCHANGED <<adapt, log_file, use, uses, openFailed, logCrash>>

log2file(t) ==
    /\ out[t] = "use_file"
    /\ logCrash' = (log_file = "null")
    /\ out' = [out EXCEPT ![t] = "idle"]
    /\ UNCHANGED <<adapt, log_file, use, uses, openFailed>>

android_log_print(t) ==
    /\ out[t] = "use_adb"
    /\ out' = [out EXCEPT ![t] = "idle"]
    /\ UNCHANGED <<adapt, log_file, use, uses, openFailed, logCrash>>

LogNext ==
    /\ ~logCrash
    /\ \/ use_file_log
       \/ \E b \in BOOLEAN : set_file_path(b)
       \/ set_file_path_empty
       \/ set_adapt
       \/ \E t \in Writer : output_log(t)
       \/ \E t \in Writer : log2file(t)
       \/ \E t \in Writer : android_log_print(t)

-----------------------------------------------------------------------------
(* Properties.                                                             *)

\* A line is written through a null file only if the last use_file_log left the
\* log without one: it could not open its path, or was given none and there was
\* none before.
LogCrashOnlyUnopened == logCrash => openFailed
=============================================================================
