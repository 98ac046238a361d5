----------------------------- MODULE BoundedCall -----------------------------
(***************************************************************************)
(* bounded_call of chain.py (and _bounded_call of miner_cli.py, the same   *)
(* steps): one blocking chain read under a SIGALRM deadline, as often as   *)
(* the program reads.  The kernel's timer runs beside the interpreter.     *)
(* When it expires the signal is pending until the interpreter next looks, *)
(* which is when a call returns; `expire` then raises _DeadlineExpired at  *)
(* the statement the main thread is at.                                    *)
(***************************************************************************)
VARIABLES
  pc,       \* the statement the main thread is at
  timer,    \* ITIMER_REAL: "off" or "armed"
  handler,  \* SIGALRM's handler: "previous" or "expire"
  pending,  \* a signal the interpreter has not acted on
  result,   \* what the current call is about to return or raise
  returned  \* what the caller has been given and not yet acted on

callVars == <<pc, timer, handler, pending, result, returned>>

Ends == {"value", "error", "ChainReadTimeout", "_DeadlineExpired", "killed"}

CallTypeOK ==
  /\ pc \in {"idle", "install", "arm", "armed", "call", "disarm", "restore", "dead"}
  /\ timer \in {"off", "armed"}
  /\ handler \in {"previous", "expire"}
  /\ pending \in BOOLEAN
  /\ result \in Ends
  /\ returned \in Ends \cup {"none"}

\* What a process starts with.
CallInit ==
  /\ pc = "idle"
  /\ timer = "off"
  /\ handler = "previous"
  /\ pending = FALSE
  /\ result = "value"
  /\ returned = "none"

Finish(end) == returned' = end

\* The caller goes on with what the call gave it.
Continue ==
  /\ pc = "idle" /\ returned # "none"
  /\ returned' = "none"
  /\ result' = "value"
  /\ UNCHANGED <<pc, timer, handler, pending>>

\* Not the main thread, a bad duration or a SIGALRM timer already running (a
\* nested call): the call fails without invoking fn.
Refuse ==
  /\ pc = "idle" /\ returned = "none"
  /\ Finish("ChainReadTimeout")
  /\ UNCHANGED <<pc, timer, handler, pending, result>>

Enter ==
  /\ pc = "idle" /\ returned = "none"
  /\ pc' = "install"
  /\ UNCHANGED <<timer, handler, pending, result, returned>>

\* signal.signal(SIGALRM, expire)
InstallHandler ==
  /\ pc = "install"
  /\ handler' = "expire"
  /\ pc' = "arm"
  /\ UNCHANGED <<timer, pending, result, returned>>

\* signal.setitimer(ITIMER_REAL, duration)
Arm ==
  /\ pc = "arm"
  /\ timer' = "armed"
  /\ pc' = "armed"
  /\ UNCHANGED <<handler, pending, result, returned>>

\* mutant: the handler is left in place.
UndoTimerOnly ==
  /\ pc = "arm" \/ (pc = "armed" /\ pending)
  /\ timer' = "off"
  /\ pending' = FALSE
  /\ pc' = "idle"
  /\ Finish("ChainReadTimeout")
  /\ UNCHANGED <<handler, result>>

\* except BaseException around the installation: setitimer raises, or the
\* alarm goes off before fn is called.
Undo ==
  /\ pc = "arm" \/ (pc = "armed" /\ pending)
  /\ timer' = "off"
  /\ handler' = "previous"
  /\ pending' = FALSE
  /\ pc' = "idle"
  /\ Finish("ChainReadTimeout")
  /\ UNCHANGED result

CallFn ==
  /\ pc = "armed" /\ ~pending
  /\ pc' = "call"
  /\ UNCHANGED <<timer, handler, pending, result, returned>>

\* fn returns or raises, if it ever does.
FnEnds(r) ==
  /\ pc = "call" /\ ~pending
  /\ result' = r
  /\ pc' = "disarm"
  /\ UNCHANGED <<timer, handler, pending, returned>>

\* mutant: fn swallows what expire raises.
ExpireSwallowed ==
  /\ pc = "call" /\ pending
  /\ pending' = FALSE
  /\ UNCHANGED <<pc, timer, handler, result, returned>>

\* except _DeadlineExpired
Expire ==
  /\ pc = "call" /\ pending
  /\ pending' = FALSE
  /\ result' = "ChainReadTimeout"
  /\ pc' = "disarm"
  /\ UNCHANGED <<timer, handler, returned>>

\* finally: signal.setitimer(ITIMER_REAL, 0)
Disarm ==
  /\ pc = "disarm" /\ ~pending
  /\ timer' = "off"
  /\ pc' = "restore"
  /\ UNCHANGED <<handler, pending, result, returned>>

\* The alarm went off after the try block was left and before the timer was
\* stopped: _DeadlineExpired leaves the finally block, the handler stays.
ExpireInFinally ==
  /\ pc = "disarm" /\ pending
  /\ timer' = "off"
  /\ pending' = FALSE
  /\ pc' = "dead"
  /\ Finish("_DeadlineExpired")
  /\ UNCHANGED <<handler, result>>

\* finally: the previous handler, then the previous (inactive) timer.
Restore ==
  /\ pc = "restore"
  /\ handler' = "previous"
  /\ timer' = "off"
  /\ pc' = "idle"
  /\ Finish(result)
  /\ UNCHANGED <<pending, result>>

\* The kernel: the timer is one-shot.  Without a handler of Python's the
\* default action of SIGALRM ends the process.
AlarmFires ==
  /\ timer = "armed"
  /\ timer' = "off"
  /\ pending' = (handler = "expire")
  /\ pc' = IF handler = "expire" THEN pc ELSE "dead"
  /\ returned' = IF handler = "expire" THEN returned ELSE "killed"
  /\ UNCHANGED <<handler, result>>

\* The steps the main thread takes by itself.
Progress ==
  \/ InstallHandler \/ Arm \/ Undo \/ CallFn \/ Expire
  \/ Disarm \/ ExpireInFinally \/ Restore

CallNext ==
  \/ Refuse \/ Enter \/ Progress \/ AlarmFires \/ Continue
  \/ \E r \in {"value", "error"} : FnEnds(r)

CallSpec == CallInit /\ [][CallNext]_callVars

-----------------------------------------------------------------------------
\* Properties

\* bounded_call's docstring, "Raises ChainReadTimeout on expiry": an expiry is
\* never seen by the caller as anything else.
ExpiryIsTimeout == returned # "_DeadlineExpired"

=============================================================================
