----------------------------- MODULE PortMapper -----------------------------
(***************************************************************************)
(* One `nucleus-helper map` process from the moment its mapping is active: *)
(* tools/windows-helper/internal/mapper.go with the signal handlers of     *)
(* cmd/main.go and cmd/commands/map.go.                                    *)
(*                                                                         *)
(* Three goroutines may stop the mapping at the same time: its expiry      *)
(* watcher, the map command's loop and the process's shutdown hook.  Both  *)
(* of the last two receive the signal, and whichever finishes first ends   *)
(* the process.                                                            *)
(***************************************************************************)
EXTENDS Naturals

CONSTANT Conns   \* local connections to the mapped port, each accepted once

VARIABLES
  registered, \* the mapping is in Mapper.mappings
  ctx,        \* the mapping's context: "live" or "done" (deadline, cancelled)
  listener,   \* "open" or "closed"
  accepting,  \* acceptLoop runs
  conn,       \* connection |-> its forwardTCP: "none", "dialing", "piping", "ended"
  at,         \* goroutine |-> where it stands
  signalled,  \* SIGINT or SIGTERM has arrived
  asked,      \* the API has been asked to stop the session
  exited      \* the process has ended

vars == <<registered, ctx, listener, accepting, conn, at, signalled, asked, exited>>

Watcher == "watchExpiry"
Loop    == "runMap"
Hook    == "shutdownHook"
Stoppers == {Watcher, Loop, Hook}

Places == {"waiting", "woken", "stop", "closing", "stopped", "done"}

\* StartMapping has bound the port and started the goroutines.
Init ==
  /\ registered = TRUE /\ ctx = "live"
  /\ listener = "open" /\ accepting = TRUE
  /\ conn = [c \in Conns |-> "none"]
  /\ at = [p \in Stoppers |-> "waiting"]
  /\ signalled = FALSE /\ asked = FALSE /\ exited = FALSE

Goes(p, from, to) == at[p] = from /\ at' = [at EXCEPT ![p] = to]

-----------------------------------------------------------------------------
(* StopMapping: the entry is deleted under the mutex, the rest follows       *)
(* outside it.                                                              *)

\* Mutant: the entry stays until the listener is closed.
StopMappingLate(p) ==
  /\ Goes(p, "stop", IF registered THEN "closing" ELSE "stopped")
  /\ UNCHANGED <<registered, ctx, listener, accepting, conn, signalled, asked, exited>>

\* Without an entry an error is returned, which every caller only reports.
StopMapping(p) ==
  /\ Goes(p, "stop", IF registered THEN "closing" ELSE "stopped")
  /\ registered' = FALSE
  /\ UNCHANGED <<ctx, listener, accepting, conn, signalled, asked, exited>>

CancelAndClose(p) ==
  /\ Goes(p, "closing", "stopped")
  /\ ctx' = "done"
  /\ listener' = "closed"
  /\ UNCHANGED <<registered, accepting, conn, signalled, asked, exited>>

-----------------------------------------------------------------------------
(* watchExpiry.                                                             *)

Deadline ==
  /\ ctx = "live"
  /\ ctx' = "done"
  /\ UNCHANGED <<registered, listener, accepting, conn, at, signalled, asked, exited>>

Expired ==
  /\ ctx = "done"
  /\ Goes(Watcher, "waiting", "woken")
  /\ UNCHANGED <<registered, ctx, listener, accepting, conn, signalled, asked, exited>>

\* Mutant: the test for an active mapping is inverted.
watchExpiryInverted ==
  /\ Goes(Watcher, "woken", IF registered THEN "done" ELSE "stop")
  /\ UNCHANGED <<registered, ctx, listener, accepting, conn, signalled, asked, exited>>

watchExpiry ==
  /\ Goes(Watcher, "woken", IF registered THEN "stop" ELSE "done")
  /\ UNCHANGED <<registered, ctx, listener, accepting, conn, signalled, asked, exited>>

-----------------------------------------------------------------------------
(* acceptLoop and forwardTCP.                                               *)

Accept(c) ==
  /\ accepting /\ listener = "open"
  /\ conn[c] = "none"
  /\ conn' = [conn EXCEPT ![c] = "dialing"]
  /\ UNCHANGED <<registered, ctx, listener, accepting, at, signalled, asked, exited>>

\* The listener was closed, or Accept failed for want of a descriptor: the
\* loop returns in both cases and the mapping, if there is one, stays.
AcceptError ==
  /\ accepting
  /\ accepting' = FALSE
  /\ UNCHANGED <<registered, ctx, listener, conn, at, signalled, asked, exited>>

Turns(c, from, to) ==
  /\ conn[c] = from
  /\ conn' = [conn EXCEPT ![c] = to]
  /\ UNCHANGED <<registered, ctx, listener, accepting, at, signalled, asked, exited>>

\* The dial is bound to the mapping's context.
DialRemote(c) == ctx = "live" /\ Turns(c, "dialing", "piping")
DialError(c)  == Turns(c, "dialing", "ended")

\* Either end closes: the copy that sees it closes the other end.
PipeEnds(c) == Turns(c, "piping", "ended")

\* The goroutine beside the copies closes both ends when the context ends.
CloseOnDone(c) == ctx = "done" /\ Turns(c, "piping", "ended")

-----------------------------------------------------------------------------
(* The signal, runMap and the shutdown hook.                                *)

Signal ==
  /\ ~signalled
  /\ signalled' = TRUE
  /\ UNCHANGED <<registered, ctx, listener, accepting, conn, at, asked, exited>>

runMapInterrupted ==
  /\ signalled
  /\ Goes(Loop, "waiting", "stop")
  /\ UNCHANGED <<registered, ctx, listener, accepting, conn, signalled, asked, exited>>

\* The two-second ticker finds the mapping gone.
runMapEnded ==
  /\ ~registered
  /\ Goes(Loop, "waiting", "done")
  /\ UNCHANGED <<registered, ctx, listener, accepting, conn, signalled, asked, exited>>

\* An HTTP request of up to 15 seconds; its failure is only printed.
StopSession ==
  /\ Goes(Loop, "stopped", "done")
  /\ asked' = TRUE
  /\ UNCHANGED <<registered, ctx, listener, accepting, conn, signalled, exited>>

\* StopAll lists the mappings and then stops each.
StopAll ==
  /\ signalled
  /\ Goes(Hook, "waiting", IF registered THEN "stop" ELSE "stopped")
  /\ UNCHANGED <<registered, ctx, listener, accepting, conn, signalled, asked, exited>>

\* os.Exit after StopAll, or the return of the map command.
Exit ==
  /\ at[Hook] = "stopped" \/ at[Loop] = "done"
  /\ exited' = TRUE
  /\ UNCHANGED <<registered, ctx, listener, accepting, conn, at, signalled, asked>>

-----------------------------------------------------------------------------
Forward(c) == DialRemote(c) \/ PipeEnds(c) \/ CloseOnDone(c)

\* Every step but that of a connection whose dial fails.
Step ==
  \/ \E p \in Stoppers : StopMapping(p) \/ CancelAndClose(p)
  \/ Deadline \/ Expired \/ watchExpiry
  \/ AcceptError \/ \E c \in Conns : Accept(c) \/ Forward(c)
  \/ Signal \/ runMapInterrupted \/ runMapEnded \/ StopSession \/ StopAll
  \/ Exit

Next == ~exited /\ (Step \/ \E c \in Conns : DialError(c))

\* Tickers fire, dials have a time limit, Accept fails on a closed listener and
\* every goroutine that can run does.  Nobody need signal or close anything, and the
\* deadline may be as far off as one likes.
Fairness ==
  /\ \A p \in Stoppers : WF_vars(StopMapping(p)) /\ WF_vars(CancelAndClose(p))
  /\ WF_vars(Expired) /\ WF_vars(watchExpiry)
  /\ WF_vars(listener = "closed" /\ AcceptError)
  /\ \A c \in Conns : WF_vars(DialRemote(c) \/ DialError(c)) /\ WF_vars(CloseOnDone(c))
  /\ WF_vars(runMapInterrupted \/ runMapEnded) /\ WF_vars(StopSession)
  /\ WF_vars(StopAll) /\ WF_vars(Exit)

Spec == Init /\ [][Next]_vars /\ Fairness

-----------------------------------------------------------------------------
(* Properties.                                                              *)

TypeOK ==
  /\ registered \in BOOLEAN /\ accepting \in BOOLEAN
  /\ ctx \in {"live", "done"}
  /\ listener \in {"open", "closed"}
  /\ conn \in [Conns -> {"none", "dialing", "piping", "ended"}]
  /\ at \in [Stoppers -> Places]
  /\ signalled \in BOOLEAN /\ asked \in BOOLEAN /\ exited \in BOOLEAN

\* However the three stoppers meet, one of them releases the mapping: the port
\* is bound exactly while the mapping is registered or its one remover is about
\* to close it, and no two of them close it.
ReleasedOnce ==
  /\ registered => listener = "open"
  /\ ~registered /\ listener = "open" => \E p \in Stoppers : at[p] = "closing"
  /\ \A p, q \in Stoppers : at[p] = "closing" /\ at[q] = "closing" => p = q

\* "The mapping is automatically removed when the session TTL expires", or when
\* it is cancelled, and the command then ends by itself.
MapCommandEnds == ctx = "done" ~> exited

\* "When the helper closes the mapping, it also requests remote session stop":
\* a helper that was told to stop has asked the API when it ends.
RemoteStopRequested == exited /\ signalled => asked
=============================================================================
