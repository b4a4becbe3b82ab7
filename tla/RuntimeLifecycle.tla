-------------------------- MODULE RuntimeLifecycle --------------------------
(***************************************************************************)
(* What the control manager promises about the one runtime it owns,        *)
(* whatever calls interleave: a transition has one owner, owners are never *)
(* reused, and the process that serves is handed over only by an owner,    *)
(* who either keeps the process there was or installs the one it spawned.  *)
(***************************************************************************)
EXTENDS Integers

CONSTANTS Engines, None

VARIABLES
  owner,    \* the transition in progress, 0 when there is none
  issued,   \* transitions handed out so far
  process,  \* the engine the runtime has, or None
  phase,    \* "none", "busy", "serving", "stuck" (failed or orphaned)
  power     \* "up" until the daemon shuts down, then "down"

lvars == <<owner, issued, process, phase, power>>

Begins ==
  /\ owner = 0 /\ phase # "busy"
  /\ issued' = issued + 1 /\ owner' = issued + 1
  /\ phase' = "busy" /\ UNCHANGED <<process, power>>

\* The transition ends in service, with nothing, or stuck until a reset.
Ends ==
  /\ owner # 0 /\ phase = "busy" /\ owner' = 0 /\ UNCHANGED <<issued, power>>
  /\ \/ phase' = "serving" /\ process' \in {process, owner} \ {None}
     \/ phase' = "none" /\ process' = None
     \/ phase' = "stuck" /\ UNCHANGED process

\* Shutdown takes the runtime away from whoever owns it, once.
TakenDown ==
  /\ power = "up" /\ power' = "down"
  /\ owner' = 0 /\ phase' = "none" /\ process' = None /\ UNCHANGED issued

LInit ==
  /\ owner = 0 /\ issued = 0 /\ power = "up"
  /\ \/ phase = "none" /\ process = None
     \/ phase \in {"serving", "stuck"} /\ process \in Engines

LNext == Begins \/ Ends \/ TakenDown

Spec == LInit /\ [][LNext]_lvars
=============================================================================
