------------------------------ MODULE Admin ------------------------------
(***************************************************************************)
(* What Caddy's admin endpoint and the manager's client for it decide      *)
(* about a Caddyfile (pkg/caddy/admin.go).  A Caddyfile is abstracted to   *)
(* what the code tells apart: the parts it was merged from and the admin   *)
(* block its global options adapt to.                                      *)
(***************************************************************************)
CONSTANTS OriginKey,      \* admin origin keys; "" is the empty key
          BaseText,       \* base Caddyfiles, final newline aside
          FragmentText,   \* external fragments, surrounding space aside
          Source,         \* namespace/name of the external ConfigMaps
          AdminBlock(_),  \* the admin block a base Caddyfile adapts to
          Malformed       \* merged Caddyfiles that Caddy refuses

AdminBlocks == [onAdminPort : BOOLEAN, enforceOrigin : BOOLEAN, origins : SUBSET OriginKey]

\* A merged Caddyfile; a source whose fragment is skipped contributes "".
MergedCaddyfile == [base : BaseText, externals : [Source -> FragmentText \cup {""}]]

\* The Caddyfile that only opens the admin endpoint for one origin key.
BootstrapCaddyfile(key) == [bootstrap |-> key]

Bootstraps == {BootstrapCaddyfile(key) : key \in OriginKey}

Caddyfile == MergedCaddyfile \cup Bootstraps

ASSUME AdminAssumption ==
    /\ \A text \in BaseText : AdminBlock(text) \in AdminBlocks
    /\ Malformed \subseteq MergedCaddyfile
    /\ MergedCaddyfile \cap Bootstraps = {}

\* The admin block of a Caddyfile after /adapt.
AdaptedAdmin(c) ==
    IF c \in Bootstraps
    THEN [onAdminPort |-> TRUE, enforceOrigin |-> c.bootstrap # "",
          origins |-> {c.bootstrap} \ {""}]
    ELSE AdminBlock(c.base)

\* A plausible bug: the listener is checked but not the origins.
checkListenOnly(c, key) == AdaptedAdmin(c).onAdminPort

\* Admin.checkAdminReachable: the manager refuses to load a configuration it
\* could not reconfigure afterwards.
checkAdminReachable(c, key) ==
    LET admin == AdaptedAdmin(c)
    IN /\ admin.onAdminPort
       /\ key = "" => ~admin.enforceOrigin
       /\ key # "" => key \in admin.origins

\* Caddy running c answers admin requests, the probes' included, that carry
\* the Origin header of key.
Answers(c, key) ==
    LET admin == AdaptedAdmin(c)
    IN admin.onAdminPort /\ (admin.enforceOrigin => key \in admin.origins)

\* Admin.Load on a Caddy that runs current ends in a 2xx from /load.  When it
\* is reached and this does not hold, the result is ErrConfigRejected.
LoadAccepted(current, key, c) ==
    Answers(current, key) /\ c \notin Malformed /\ checkAdminReachable(c, key)
==========================================================================
