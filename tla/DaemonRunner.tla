---------------------------- MODULE DaemonRunner -----------------------------
(***************************************************************************)
(* DaemonRunner (core/daemon.rs): a builder, then run, which may spawn the *)
(* observability sidecar and hands a context to the server function.       *)
(* ObsrvProcess is external: spawn gives a process or nothing, and the     *)
(* process is held until its handle is dropped.                            *)
(***************************************************************************)
EXTENDS Naturals, Sequences

CONSTANTS
    Backend,        \* given to with_backend; the default is "sidecar"
    Port,           \* given to with_obsrv_port, 0 among them
    DefaultPort,    \* DEFAULT_OBSRV_PORT
    MaxBuilderCalls        \* bound on calls of the builder

ASSUME PortAssumption == DefaultPort \in Nat \ {0} /\ Port \subseteq Nat
ASSUME BackendAssumption == "none" \notin Backend

VARIABLES
    runner,         \* what the builder holds
    asked,          \* the builder's methods called so far
    phase,          \* of run
    sidecar,        \* the port of the sidecar that is held, if one is
    ctx             \* the DaemonContext given to the server function

daemonVars == <<runner, asked, phase, sidecar, ctx>>

NoContext == [backend |-> "", port |-> 0]

DaemonInit ==
    /\ runner = [bindOk |-> TRUE, backend |-> "sidecar", port |-> DefaultPort,
                 skip |-> FALSE]
    /\ asked = <<>>
    /\ phase = "builder"
    /\ sidecar = {}
    /\ ctx = NoContext

Builder(name, r) ==
    /\ phase = "builder" /\ Len(asked) < MaxBuilderCalls
    /\ asked' = Append(asked, name)
    /\ runner' = r
    /\ UNCHANGED <<phase, sidecar, ctx>>

\* Of the address only whether it parses is kept.
WithBind == \E ok \in BOOLEAN : Builder("bind", [runner EXCEPT !.bindOk = ok])

\* A slip: choosing a backend turns observability on again.
WithBackendUnskipped ==
    \E b \in Backend : Builder("backend", [runner EXCEPT !.backend = b, !.skip = FALSE])
WithBackend == \E b \in Backend : Builder("backend", [runner EXCEPT !.backend = b])
WithObsrvPort == \E p \in Port : Builder("port", [runner EXCEPT !.port = p])
WithoutObservability == Builder("without", [runner EXCEPT !.skip = TRUE])

RefuseBind ==
    /\ phase = "builder" /\ ~runner.bindOk
    /\ phase' = "failed"
    /\ UNCHANGED <<runner, asked, sidecar, ctx>>

RunLightweight ==
    /\ phase = "builder" /\ runner.bindOk /\ runner.skip
    /\ phase' = "serving"
    /\ ctx' = [backend |-> "none", port |-> 0]
    /\ UNCHANGED <<runner, asked, sidecar>>

\* The sidecar may not be found; the context names backend and port anyway.
\* Port 0 is passed on to ObsrvProcess::spawn like any other.
RunObserved ==
    /\ phase = "builder" /\ runner.bindOk /\ ~runner.skip
    /\ phase' = "serving"
    /\ sidecar' \in IF runner.backend = "sidecar" THEN {{}, {runner.port}} ELSE {{}}
    /\ ctx' = [backend |-> runner.backend, port |-> runner.port]
    /\ UNCHANGED <<runner, asked>>

\* The server function returns, or run is dropped while it waits for it: the
\* handle goes with the future.
ServerReturns ==
    /\ phase = "serving"
    /\ phase' \in {"returned", "failed", "dropped"}
    /\ sidecar' = {}
    /\ UNCHANGED <<runner, asked, ctx>>

DaemonNext ==
    \/ WithBind \/ WithBackend \/ WithObsrvPort \/ WithoutObservability
    \/ RefuseBind \/ RunLightweight \/ RunObserved \/ ServerReturns

DaemonSpec == DaemonInit /\ [][DaemonNext]_daemonVars
-----------------------------------------------------------------------------
\* Whatever order the builder's methods are called in, once without_observability
\* was among them no sidecar runs and the server is told that there is none; and
\* no sidecar outlives the server function or listens elsewhere than it is told.
\* What with_obsrv_port(0) does is ZeroDisablesSidecar's question.
NoStraySidecar ==
    /\ phase = "serving" /\ (\E k \in DOMAIN asked : asked[k] = "without") =>
          ctx = [backend |-> "none", port |-> 0] /\ sidecar = {}
    /\ sidecar # {} => phase = "serving" /\ ctx.backend = "sidecar" /\ sidecar = {ctx.port}

\* daemon.rs:63 on with_obsrv_port: "Set the obsrv sidecar port (0 to disable)",
\* and :26 on the context: "Obsrv sidecar port (0 if disabled)".  The server that
\* is told port 0 would have no sidecar beside it.  run does not test for 0: only
\* the backend decides whether the sidecar is spawned.
ZeroDisablesSidecar == phase = "serving" /\ ctx.port = 0 => sidecar = {}
=============================================================================
