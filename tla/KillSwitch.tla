----------------------------- MODULE KillSwitch -----------------------------
(***************************************************************************)
(* The kill switch (safety/killswitch.py) and the one revocation hook the  *)
(* pipeline registers on it, LocalSubprocessRunner.revoke.  engage sets    *)
(* the flag under the lock and runs the hooks after it released the lock,  *)
(* so other threads run between the two.                                   *)
(***************************************************************************)
EXTENDS Naturals

CONSTANTS
  Operators,   \* threads that call engage
  MaxResets    \* bound on the calls of reset

VARIABLES
  engaged,     \* _engaged
  hooksDue,    \* operators between the lock of engage and its hooks
  revoked,     \* LocalSubprocessRunner._revoked
  resets       \* calls of reset so far

killVars == <<engaged, hooksDue, revoked, resets>>

KillInit ==
  /\ engaged = FALSE
  /\ hooksDue = {}
  /\ revoked = FALSE
  /\ resets = 0

\* The locked part of engage; it returns at once when already engaged.
Engage(o) ==
  /\ o \notin hooksDue
  /\ ~engaged
  /\ engaged' = TRUE
  /\ hooksDue' = hooksDue \cup {o}
  /\ UNCHANGED <<revoked, resets>>

\* The loop over the hooks: the runner is revoked, for good.
RunHooks(o) ==
  /\ o \in hooksDue
  /\ hooksDue' = hooksDue \ {o}
  /\ revoked' = TRUE
  /\ UNCHANGED <<engaged, resets>>

\* reset clears the flag and nothing else.
Reset ==
  /\ engaged
  /\ resets < MaxResets
  /\ engaged' = FALSE
  /\ resets' = resets + 1
  /\ UNCHANGED <<hooksDue, revoked>>

KillTypeOK ==
  /\ engaged \in BOOLEAN
  /\ hooksDue \subseteq Operators
  /\ revoked \in BOOLEAN
  /\ resets \in 0..MaxResets
=============================================================================
